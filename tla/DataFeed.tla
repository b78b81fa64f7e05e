------------------------------- MODULE DataFeed -------------------------------
(***************************************************************************)
(* What the exchanges push, on its way to a strategy: the dispatch of the  *)
(* sockets (okx_websocket.cpp, binance_websocket.cpp), the callbacks       *)
(* installed on them by then (websocket_callbacks.cpp, called by           *)
(* trading_server_main.cpp), the one channel all strategies listen to, the *)
(* strategy's socket, which drops what does not fit, and its buffers       *)
(* (market_data_module.h).  An event is its number in its feed; since any  *)
(* client may have asked for it, an exchange may push on every feed.       *)
(***************************************************************************)
EXTENDS Naturals, Sequences, FiniteSets, SequencesExt

CONSTANTS
    QueueRoom,          \* messages that the strategy's socket holds
    MaxPushes           \* bound of the model: events of a feed

ASSUME DataFeedAssumption == QueueRoom \in Nat \ {0} /\ MaxPushes \in Nat

(* A feed: the socket that brings it, its channel or event, the instrument,*)
(* and what else the message tells: the bar, or the depth channel.         *)
Feed(socket, channel, symbol, detail) ==
    [socket |-> socket, channel |-> channel, symbol |-> symbol, detail |-> detail]

Feeds ==
    {Feed("business", "candle", "swap", bar) : bar \in {"1m", "5m"}} \cup
    {Feed("public", channel, "swap", "") : channel \in {"tickers", "trades", "funding-rate"}} \cup
    {Feed("public", channel, "swap", channel) : channel \in {"books5", "bbo-tbt"}} \cup
    {Feed("batch", "continuous_kline", "perp", "1m"), Feed("market", "kline", "perp", "1m")} \cup
    {Feed("market", channel, "perp", "") : channel \in {"trade", "depthUpdate", "markPriceUpdate", "24hrTicker"}}

(* What a strategy may ask of its module; "orderbook" is another name for  *)
(* books5, of which the module keeps a record under that name.             *)
Topics ==
    {<<"kline", "swap", "1m">>, <<"kline", "swap", "5m">>, <<"kline", "perp", "1m">>} \cup
    ({"trade", "funding_rate"} \X {"swap", "perp"} \X {""}) \cup
    {<<"orderbook", "swap", channel>> : channel \in {"books5", "bbo-tbt", "orderbook"}}

VARIABLES
    setup,              \* "main", or "after": when the OKX callbacks are set
    flowing,            \* bound of the model: the feeds that bring something
    made,               \* sockets that exist
    hooks,              \* their callbacks: pairs of socket and callback
    pushes,             \* events so far, the candle in the making excluded
    joined,             \* the strategy has joined the channel
    queue,              \* market_sub_
    wanted,             \* subscribed_klines_, subscribed_trades_, ...
    buffers,            \* kline_managers_, trade_buffers_, ...
    published,          \* history: the last event published of each topic
    gaps,               \* history: topics of which the strategy missed some
    twice               \* history: topics that two sockets have brought

wiringVars == <<setup, flowing, made, hooks>>
strategyVars == <<joined, queue, wanted, buffers>>
dataVars == <<wiringVars, strategyVars, pushes, published, gaps, twice>>

DataInit ==
    /\ setup \in {"main", "after"}
    /\ flowing \in {{f, g} : f \in Feeds, g \in Feeds}
    /\ made = {} /\ hooks = {}
    /\ pushes = [f \in Feeds |-> 0]
    /\ joined = FALSE /\ queue = <<>> /\ wanted = {} /\ buffers = [t \in Topics |-> <<>>]
    /\ published = [t \in Topics |-> 0] /\ gaps = {} /\ twice = {}

-----------------------------------------------------------------------------
(* The start of the server.  setup_websocket_callbacks sets what there is  *)
(* to set on the sockets that exist.  Main calls it before it makes the    *)
(* public socket, which then gets a ticker callback alone; "after" is the  *)
(* order the function is written for.                                      *)

OkxCallbacks ==
    {<<"public", c>> : c \in {"ticker", "trade", "orderbook", "funding_rate"}} \cup
    {<<"business", "kline">>}

SetupWebsocketCallbacks(sockets) == {h \in OkxCallbacks : h[1] \in sockets}

Wires(sockets, callbacks) ==
    /\ made' = made \cup sockets /\ hooks' = hooks \cup callbacks
    /\ UNCHANGED <<setup, flowing, strategyVars, pushes, published, gaps, twice>>

MakeBusiness ==
    /\ made = {}
    /\ Wires({"business"}, IF setup = "main" THEN SetupWebsocketCallbacks({"business"}) ELSE {})

MakePublic ==
    /\ made = {"business"}
    /\ Wires({"public"}, IF setup = "main" THEN {<<"public", "ticker">>}
                         ELSE SetupWebsocketCallbacks({"business", "public"}))

ConnectBatches ==
    /\ made = {"business", "public"}
    /\ Wires({"batch"}, {<<"batch", "kline">>})

MakeMarket ==
    /\ made = {"business", "public", "batch"}
    /\ Wires({"market"}, {<<"market", c>> : c \in {"ticker", "trade", "kline", "mark_price"}})

-----------------------------------------------------------------------------
(* on_message of either client: the callback for a channel, or an event,   *)
(* by the name of the type that its message has.  Nobody sets a callback   *)
(* for Binance's depth.                                                    *)
OkxCallback(channel) ==
    CASE channel = "tickers" -> "ticker"
      [] channel = "trades" -> "trade"
      [] channel \in {"books5", "bbo-tbt"} -> "orderbook"
      [] channel = "candle" -> "kline"
      [] channel = "funding-rate" -> "funding_rate"

BinanceCallback(event) ==
    CASE event = "trade" -> "trade"
      [] event \in {"kline", "continuous_kline"} -> "kline"
      [] event = "24hrTicker" -> "ticker"
      [] event = "depthUpdate" -> "orderbook"
      [] event = "markPriceUpdate" -> "mark_price"

Callback(f) == IF f.symbol = "swap" THEN OkxCallback(f.channel) ELSE BinanceCallback(f.channel)

(* Mutant: candles in the making pass as well. *)
PassesAll(f, final) == <<f.socket, Callback(f)>> \in hooks

(* A candle in the making is not published, but by the callback of the     *)
(* Binance market socket.                                                  *)
Passes(f, final) ==
    <<f.socket, Callback(f)>> \in hooks /\ (final \/ f.socket = "market")

TopicOf(f) == <<Callback(f), f.symbol, f.detail>>

(* publish_ticker, publish_depth and publish_kline: to the one channel the *)
(* strategies listen to; it also goes to a channel of its exchange, which  *)
(* none of them joins.                                                     *)
Publish(f, final) ==
    LET t == TopicOf(f)
    IN  /\ queue' = IF joined /\ Len(queue) < QueueRoom
                      THEN Append(queue, [topic |-> t, n |-> pushes[f] + 1, final |-> final])
                      ELSE queue
        /\ gaps' = IF t \in Topics /\ joined /\ Len(queue) = QueueRoom THEN gaps \cup {t} ELSE gaps
        /\ published' = IF t \in Topics THEN [published EXCEPT ![t] = pushes[f] + 1] ELSE published
        /\ twice' = IF f.channel = "kline" THEN twice \cup {t} ELSE twice

Arrives(f, final) ==
    /\ f \in flowing /\ f.socket \in made /\ pushes[f] < MaxPushes
    /\ final \/ Callback(f) = "kline"
    /\ pushes' = [pushes EXCEPT ![f] = IF final THEN @ + 1 ELSE @]
    /\ IF Passes(f, final) THEN Publish(f, final) ELSE UNCHANGED <<queue, gaps, published, twice>>
    /\ UNCHANGED <<wiringVars, joined, wanted, buffers>>

(* parse_ticker, parse_trade, parse_orderbook and parse_kline of OKX: a    *)
(* push of several rows is as many pushes, and of an order book one.       *)
PushOkx(f, final) == f.symbol = "swap" /\ Arrives(f, final)

(* parse_trade, parse_kline, parse_ticker, parse_depth, parse_mark_price.  *)
PushBinance(f, final) == f.symbol = "perp" /\ Arrives(f, final)

-----------------------------------------------------------------------------
Joins ==
    /\ ~ joined
    /\ joined' = TRUE
    /\ UNCHANGED <<wiringVars, pushes, queue, wanted, buffers, published, gaps, twice>>

FlowingTopics == {TopicOf(f) : f \in flowing} \cap Topics

(* Subscribes or, if it has, unsubscribes, which leaves the buffer. *)
Toggles(t) ==
    /\ joined
    /\ wanted' = IF t \in wanted THEN wanted \ {t} ELSE wanted \cup {t}
    /\ UNCHANGED <<wiringVars, pushes, joined, queue, buffers, published, gaps, twice>>

ToggleKline(t) == t[1] = "kline" /\ Toggles(t)
ToggleTrades(t) == t[1] = "trade" /\ Toggles(t)
ToggleOrderbook(t) == t[1] = "orderbook" /\ Toggles(t)
ToggleFundingRate(t) == t[1] = "funding_rate" /\ Toggles(t)

(* KlineManager::update: a bar with the time of the last corrects it.      *)
CorrectsLast(bars, e) ==
    IF bars # <<>> /\ Last(bars).n = e.n THEN [bars EXCEPT ![Len(bars)] = e] ELSE Append(bars, e)

(* A handler looks up whether the topic is wanted now. *)
Handled(e, stored) ==
    IF e.topic \in wanted
      THEN buffers' = [buffers EXCEPT ![e.topic] = stored] /\ UNCHANGED gaps
      ELSE /\ gaps' = IF buffers[e.topic] # <<>> THEN gaps \cup {e.topic} ELSE gaps
           /\ UNCHANGED buffers

HandleKline(e) == e.topic[1] = "kline" /\ Handled(e, CorrectsLast(buffers[e.topic], e))
HandleTrades(e) == e.topic[1] = "trade" /\ Handled(e, Append(buffers[e.topic], e))
HandleOrderbook(e) == e.topic[1] = "orderbook" /\ Handled(e, Append(buffers[e.topic], e))
HandleFundingRate(e) == e.topic[1] = "funding_rate" /\ Handled(e, Append(buffers[e.topic], e))

(* One round of its loop; tickers and mark prices have no handler.  That   *)
(* the buffers forget their oldest entries is KlineRing's.                 *)
ProcessMarketData ==
    /\ queue # <<>>
    /\ queue' = Tail(queue)
    /\ LET e == Head(queue)
       IN  \/ HandleKline(e) \/ HandleTrades(e) \/ HandleOrderbook(e) \/ HandleFundingRate(e)
           \/ e.topic[1] \in {"ticker", "mark_price"} /\ UNCHANGED <<buffers, gaps>>
    /\ UNCHANGED <<wiringVars, pushes, joined, wanted, published, twice>>

DataNext ==
    \/ MakeBusiness \/ MakePublic \/ ConnectBatches \/ MakeMarket
    \/ \E f \in Feeds, final \in BOOLEAN : PushOkx(f, final) \/ PushBinance(f, final)
    \/ Joins \/ ProcessMarketData
    \/ \E t \in FlowingTopics \cup {<<"orderbook", "swap", "orderbook">>} :
          ToggleKline(t) \/ ToggleTrades(t) \/ ToggleOrderbook(t) \/ ToggleFundingRate(t)

DataSpec == DataInit /\ [][DataNext]_dataVars

-----------------------------------------------------------------------------
(* Where the messages of a topic stand in a row of messages, and their     *)
(* numbers.                                                                *)
Places(messages, t) == {i \in DOMAIN messages : messages[i].topic = t}
Numbers(messages, t) == {messages[i].n : i \in Places(messages, t)}

(* Read over its whole way, from its buffer to the last message of its     *)
(* queue, a topic that the strategy kept and that lost nothing on the way  *)
(* has every event published since it began, the last one included, each   *)
(* once, in order and final.  A topic with a gap is in order still.  Only  *)
(* a Binance candle that some client asks for by name, beside the batch    *)
(* that brings it anyway, comes in both versions and in any order.  And as *)
(* main calls setup_websocket_callbacks, before there is a public socket,  *)
(* no trade, book or funding rate of OKX ever comes at all.                *)
FeedUnbroken ==
    \A t \in Topics :
        LET seen == buffers[t] \o queue
        IN  /\ t \notin twice =>
                  \A i, j \in Places(seen, t) : seen[i].final /\ (i < j => seen[i].n < seen[j].n)
            /\ t \notin twice \cup gaps =>
                  \E first \in 1 .. published[t] + 1 : Numbers(seen, t) = first .. published[t]
            /\ setup = "main" /\ t[2] = "swap" /\ buffers[t] # <<>> => t[1] = "kline"

=============================================================================
