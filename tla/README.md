# A verification project for the trading server

This directory holds TLA+ models of the trading framework in `src/cpp`, the TLC
configurations that check them, and theorems about them whose proofs TLAPS checks. The
models follow an order from the strategy's call to the exchange and back, the processes
and accounts the server manages, and a candle from the exchange's socket to the strategy's
ring of bars and to the store.

    tlasany OrderPath.tla                                  # parse
    tlc -workers 4 -config RiskView.cfg MCOrderPath        # check one run
    tlapm OrderPath_proofs.tla                             # check the proofs

`PROJECT.json` lists the components, the runs, a mutant for every property, the source
lines each definition models, the findings, the hazards and the theorems.

## 1. The system

The server (`server/trading_server_main.cpp`) is one process with several threads; each
strategy is a Python process of its own, with a C++ base class, that talks to it over
ZeroMQ. Recording and filling of candles are programs beside the server that share Redis.

| component | state it keeps | operations | used by |
|---|---|---|---|
| risk manager (`trading/risk_manager.h`) | position value per instrument, open-order count, daily result, order time stamps, equity peaks, limits; one mutex | `check_order_with_value`, `update_position`, `set_open_order_count`, `update_daily_pnl`, `update_account_equity`, `record_order_execution` | order thread, account monitor, frontend |
| order handlers (`server/handlers/order_processor.cpp`) | three counters; otherwise the request in service | place, batch, cancel, batch cancel, amend, register and unregister account, queries, leverage, heartbeat | the order thread, one request at a time |
| account monitor (`server/managers/account_monitor.h`) | the monitored accounts (raw API pointers), failure counts, last non-empty answers | a round every 10 s: balance, positions, open orders of each account | its own thread; registration from the order and frontend threads |
| exchange adapters (`adapters/okx`, `adapters/binance`) | keys, curl handles | one blocking REST call each; a call is refused, answered or throws (10 s, 30 s) | order thread, monitor, async batch groups |
| process manager (`server/managers/strategy_process_manager.h`) | per strategy: pid, status, last heartbeat | register, start (fork), stop (SIGTERM), heartbeat, time-out, removal by account, stop all | order thread, frontend thread, main loop, crash handler |
| account registry (`trading/account_registry.h`) | API objects by strategy and by account id (aliases), a default, status; account files | register, alias, unregister, look up, health check, load at start | order thread, frontend thread |
| strategy side (`strategies/core/*.h`) | active orders, account view, subscriptions, rings of market data, scheduled tasks | send orders, drain reports, ask for and receive market data, run tasks | the strategy's own process; one loop |
| ZeroMQ channels (`network/zmq_server.cpp`) | queues: requests (PUSH/PULL), reports and market data (PUB/SUB) | push, take, publish, receive | both sides |
| WebSocket clients (`network/ws_client.cpp`, `adapters/*/..websocket.cpp`) | connection, status flags, record of subscriptions, monitor and heartbeat threads | connect, subscribe, reconnect, resubscribe, disconnect | main, subscription thread, their own threads |
| subscription handler (`server/handlers/subscription_manager.cpp`) | what is listed, users per kline stream | subscribe, unsubscribe | the subscription thread |
| callbacks and the market-data channel (`server/callbacks/websocket_callbacks.cpp`, `strategies/core/market_data_module.h`) | which callbacks are set on which socket; one PUB queue per strategy; its buffers | dispatch, publish, drain into buffers | the sockets' threads, the strategy's loop |
| server recorder (`server/managers/redis_recorder.cpp`) | Redis connection, one mutex, `running_` | record, trim, reconnect, stop | the sockets' threads, main |
| history reader (`server/managers/redis_data_provider.cpp`) | Redis connection | klines of a range, latest bars and stamps, from bars or from minutes | strategies |
| kline store (`server/klinedata/*.cpp`) | sorted sets in Redis; the aggregator's period, the pipeline | record, aggregate, flush, reconnect; deduplicate, find gaps, fetch, aggregate again | recorder, gap filler, fast filler: three programs |
| frontend server, alarms, event engine, configuration, logger | sessions, peers, files | see `PROJECT.json` and section 7 | |

How they interact: a strategy pushes a request; the order thread runs the handler to its
end. `process_place_order` asks the risk manager, then makes a blocking REST call, then
publishes one report, which the strategy's loop drains in its next turn - or never, if the
report was dropped. Meanwhile the monitor reads balances, positions and open orders account
by account and hands them to the risk manager; the two threads meet only in the risk
manager's mutex. The frontend's thread and the order thread both change processes,
accounts and the monitor's list, one locked call at a time. Market data come over sockets
whose callbacks run in the client's threads, whose monitor thread reconnects, and whose
subscriptions a third thread changes.

What is hard: the risk table is old when it is used and is replaced row by row; reads fail
half-way; a REST call that times out may have arrived; a batch is several concurrent calls
of which some fail; a report is lost; handlers have many ways out; strategies, timeouts,
the frontend and late registrations race for the process table and for the accounts; old
connections speak for new ones; a tool rewrites the store beside the recorder.

What makes each part correct:

* risk manager: no order passes that breaks a cap, up to what it cannot know yet;
* order handlers: every order is answered once, truthfully, and counted once;
* monitor: what it hands over is what the exchange held when it was read; it never stops;
* process manager: what runs is what the table says runs; a strategy is not started beside
  itself; what is reported as stopped was told to end; a crash leaves nothing behind;
* registry: a strategy trades with the account it was told of; registry, monitor, files
  and strategies agree; what the monitor polls is what is registered;
* strategy side: what the table says of an order is so; a live order is known; a finished
  order stays finished; a refreshed position was really held; tasks run when due, once;
* sockets: after any drop the stream comes back and carries what was asked for; threads end;
* channels of a socket: what its owner wants and no longer gave up is what the connection
  carries, through drops, whatever a key or a name forgets of the ask;
* data feed: what a strategy asked for arrives, in order, once, closed candles only;
* rings: the last bars in order of time, each once;
* store: a bar is made of each of its minutes once; the store completes itself; what is read
  of it is made of closed minutes; what the server records is there, up to the trimming.

## 2. The modules

    RiskManager <- Exchange <- OrderProcessor \
                            <- AccountMonitor  > OrderPath <- MCOrderPath, OrderPath_proofs

    StrategyProcess <- MCStrategyProcess, StrategyProcess_proofs

    Channels <- OrderTable  \
             <- AccountView  > StrategyServer <- StrategyLoop <- StrategyLoop_proofs
                                                 (implements OrderLife)
    StrategyLoop, TaskScheduler <- MCStrategyLoop, StrategyLoop_proofs

    WsClient <- Reconnect <- Subscriptions <- Subscriptions_proofs (and of Reconnect)
    KlineRing (implements LastBars);  KlineStore <- GapFiller <- History
    Subscriptions, KlineRing, History <- MCMarketFeed

    AccountRegistry <- AccountRegistry_proofs
    AccountRegistry, OkxChannels, BinanceStreams, DataFeed, RedisTape, RiskMemory <- MCServices
    BinanceStreams, RiskMemory, OkxChannels, DataFeed <- Services_proofs
    KlineRing, RedisTape, History <- Stores_proofs

    Induction <- OrderPath_proofs, Services_proofs, Stores_proofs

### The order path

**RiskManager** - the state the check reads and the operations on it, each one step because each
holds the mutex for its whole body. `CheckOrder` is the conjunction of the checks that let an
order pass, with the position stored without a sign and the order added with one, as in the code.
What it is handed is the value the handler derived from the request (`CheckedValue` below), which
need not be what the order is worth. The verdict of the rate window is a parameter that the
composition chooses freely. `kill_switch_` is left out: no code under `src/` sets it.
**RiskMemory** - what the risk manager remembers besides the table: the stamps behind that
verdict, with the time between the check and the record, and the day's first and highest equity
behind the drawdown alarm.

**Exchange** - external: what the code can see of an exchange. Orders are accepted, fill in
parts, or are gone; a position is the net of fills. Two history variables, `sinceFetch` and
`unseen`, count what was filled since the monitor last read the positions and since the read
whose rows reached the risk manager. They are written by fills and polls and read by no guard.

**OrderProcessor** - the order thread. `pc` is where it is in a handler, `cur` the orders of the
request. `process_place_order` is `PlaceOrderRejected` or `PlaceOrderChecked`, then
`PlaceOrderNoAccount` or `PlaceOrderCall` and `PlaceOrderReply`: every return of the function is
an action or a disjunct. A request (`OrderData`) has a type, a price, a quantity, and may state
what it is worth (`told`, the field `order_value`) or a price to estimate a market order at
(`estimate`); `value` is what the exchange will fill. `CheckedValue` is what
order_processor.cpp:127-151 makes of these fields for the risk check: the stated worth, or the
price, estimated for a market order, times the quantity. The market orders of
trading_module.h:143-169, which grid_strategy_cpp.py:184, 347 and 366 sends, state neither and are
checked at 0; the quantity of an OKX order is a number of contracts. `process_batch_orders` is
`BatchTaken`, then per concurrent group `BatchAnswered` or `BatchGroupThrows`, for OKX
`BatchRefused` or `BatchThrows`, then `BatchReported`. `CancelOrders` and `AmendOrder` are the
calls that take effect; one that is refused or finds no order changes nothing here, and their
reports are not modelled. The REST adapters are modelled by what their `send_request` can come
back with: an answer, a refusal, or an exception before or after the request has arrived.

**AccountMonitor** - the polling thread in REST mode (the server switches the WebSocket mode
off). A read of positions is one step (`FetchPositions`), each row handed over another
(`ApplyPosition`); `SkipRead` is an answer with an error code, `PollFails` an exception, which
may come with half of the rows handed over.

**OrderPath** - the composition: any interleaving of the order thread, the monitor and fills.

### Strategy processes

**StrategyProcess** - `strategies_` of the process manager as `table`, and the processes that
really run as `life` (unborn, booting, up, left, dead; *left* has unregistered and runs on) and
`told` (got SIGTERM). Each operation of the manager is one operator, because it holds the mutex
to its end, the half second `start_strategy` waits included. The frontend's create and delete
call several of them, so they are several actions and `fe` says where the handler is. The order
thread takes from `mail`, one queue per process as with ZeroMQ, so messages outlive their
sender. `Crash` is the signal handler, which takes no lock; `End` is the end of `main` or the
second Ctrl-C; `Restart` loads every configuration as pending and knows no process.
`start_strategy` records the pid of `sh -c`; `Wrapped` says whether `sh` stays between, in which
case signals to that pid do not reach Python until its registration has replaced the pid
(`Missed`). Time is left out: `CheckHeartbeats` may find any running entry late, since the order
thread can be blocked in REST calls for longer than the 15 s. Pids are not used again.
Two history variables: `astray` holds the processes that the table does not know or has given
up (named at each operation that gives one up), `acked` the strategies reported as stopped.

### The strategy's side

**Channels** - the PUSH/PULL pair as a queue, the PUB/SUB pair as a queue that drops a report
while the subscription has not arrived (`joined`) and at the high-water mark.

**OrderTable** - `active_orders_` as `table`. A single order is pushed first and recorded after,
in two steps, because the server may answer in between; a batch is recorded first. The table
of words, `StatusOf`, is what `update_order_from_report` compares; any other word, Binance's
"submitted" and "new" among them, leaves the entry.

**AccountView** - one instrument's position as the strategy sees it, with the flags of the
query, and what was really held since `clear_positions`.

**StrategyServer** - the server as one strategy sees it: each request is taken, acted upon and
answered by at most one report. Handlers are single steps here (OrderProcessor has their
insides), except that `Crash` may lose the requests received and leave any part of the
one in hand at the exchange.

**StrategyLoop** - the composition. `at` is the place in the loop's turn; both drains take any
kind of report, but the second treats all as reports about orders, so an account report that
arrives in between is lost for the view.

**OrderLife** - the abstract specification: an order is sent once, arrives at most once and only
while it is shown as submitted; what is shown after that is true and is not taken back.

**TaskScheduler** - `scheduled_tasks_` and the stack of rounds that nest when a task calls
`poll_messages`; a task may schedule, unschedule, pause or resume any task, itself included.

### Market data

**WsClient** - one client and every connection it ever made, whose handlers write the same two
fields. **Reconnect** - the adapters on top: flags as separate steps (the code stores them
without a common lock), the monitor thread (`mon`), OKX's heartbeat thread (`hb`), the owner
(main and, for Binance, the health check that replaces a silent socket). `mishaps` names the
events after which nothing is promised; each is recorded where the code does it. A call sends
first and records after (`OkxSubscribes`, `OkxRecords`), and `resubscribe_all` is four kinds of
steps: `ResubscribeCopies` under the mutex, then for one message after the other, without it,
`ResubscribeSends` and `ResubscribeRecords`, and `ResubscribeEnds`; the socket counts as connected from
`MonitorStoresConnected` on, long before.

**Subscriptions** - the OKX subscription thread with its reference counts, the adapter's record
and what strategies want. A request is handled and sent in one step, and what was sent is recorded
or erased in another (`CallEnds`, `inHand` in between), so that drops and every step of the
monitor can fall between the two. `crossed` is a history variable: the streams that a
resubscription and a call had in hand at the same time. **KlineRing** - one instrument's candles
over the connections to the strategy's `KlineBuffer` with head and size; **LastBars** is the list
it implements.

**OkxChannels** - every `subscribe_*` and `unsubscribe_*` of the OKX adapter. An ask is a channel
with an instrument, a type and a detail; `RequestOf` is what is sent for it, `InstrumentKey`,
`TypeKey` and `WholeKey` the texts that `subscriptions_` keeps of it. A call is sent (`okxCall`)
and written down in two steps (`CallWritten`). After a drop the monitor connects (`ChannelsBack`),
copies the keys (`CopiesKeys`), and sends and records again what can be made of them, a message at
a time (`SendsAgain`, `RecordsAgain`); the owner's calls and further drops fall in between. A text
with colons is the sequence of its parts, so keys that run together are equal here as well.
`okxExcuse` gathers, at the code that does it, the asks of which nothing is promised: made or
given up without a connection, sent and not yet recorded when it broke, given up while a
resubscription had it in hand, given up by somebody else's request, or, after a drop, named by
more than an instrument. **BinanceStreams** - the same for Binance, where a call writes down first
and sends after (`MessageSent`): names made up by `subscribe_*`, other names made up by the
subscription thread to give them up, a URL that brings back its own streams and nothing else, and
after a drop `StreamsBack`, `CopiesNames` and `NamesSent` as three steps.

**DataFeed** - from a socket to a strategy. `hooks` is what main has installed on which socket by
when (`setup = "main"` is main's order; `"after"` the order that
`setup_websocket_callbacks` is written for); `Passes` is what a callback lets through and as
what it publishes it; `queue` the strategy's SUB socket, which drops what does not fit; then
the drain into its buffers. Three history variables hold what was published, missed and
brought by two sockets. **RedisTape** - the recorder inside the server, called on the sockets'
threads; `stuck` holds the threads that wait for ever for a mutex their own call holds.

### Store and accounts

**KlineStore** - the recorder: candle, sorted set, aggregation state, pipelined writes (torn when
the connection breaks), cold start and completion from Redis. A bar is the number of times it has
taken in each minute. `interval` is one of the kinds that the tools tell apart (`Intervals`): 5m
to 30m, 1h, 4h and 8h, 1d. **GapFiller** - the tools that run beside it, one Redis command a step:
the minutes are fetched, the bars of one hour are fetched too (`DetectsBars`, `FillsBars`), from
the first stored one on, the others but for those of one day are made of the minutes
(`Aggregates`), and those of one day, which the recorder writes (data_recorder.cpp:791-797), are
left alone (kline_gap_filler.cpp:53, 59-66). **History** - what the reader answers a strategy from
that store: the bars of a range, or bars made of minutes. A tool can leave two members of one
minute; a recorder that starts within such a period counts both, so that the count is full, and
the bar stored, before the period is over.

**AccountRegistry** - the registry, its aliases and default, the monitor's list, the account files
and `g_strategy_account_map` of one exchange, as two threads change them; each locked call is a
step, so requests of the operator and of strategies interleave in the middle. Objects have
identities, so a raw pointer the monitor keeps is told from the account's present object.
`upset` and `missed` name what may part the records, at the code that does it: an
unregistration by a strategy with an alias (order_processor.cpp:1167: the account's own row in
the monitor stays and points to the object that is freed), a failed second registration
(the roll-back removes the old account too), a new account that a strategy brings (it is
never monitored: `already_monitored` is computed after the registration that makes it true,
order_processor.cpp:1099), a file that cannot be written, and an account removed while an alias
for
it is made. Strategies' aliases stay on the old object when the operator registers an
account again. `AccountsAssumption` keeps the ids of accounts apart from those of strategies:
order_processor.cpp:1026 and 1040 compare the two ids of one request only, and that an operator
does not name an account after another strategy is not checked anywhere.

## 3. What is checked

| run | question | result |
|---|---|---|
| OrderReports | Do counters and reports survive every branch: refusal, exception with or without arrival, batches in groups, OKX refusing a batch, cancels and amends, with fills and polls in between? | holds |
| RiskView | How far is the risk table from the truth when reads fail and rows are handed over one by one? Do the caps hold up to that? | holds |
| OrderLiveness | Is every checked order answered, and does the table catch up? | holds |
| StrategyTable | Under every order of commands, late messages, time-outs, stops, crashes and restarts, what does the table know of the processes that run? | holds |
| StrategyLoop | Is what a strategy believes of its orders and its position so, with reports dropped, calls that throw and a restart of the server? Does it settle, and do orders follow OrderLife? Are tasks called when they should be? | holds |
| MarketFeed | Does a socket come back after drops, silence and late handshakes, carry what strategies want, and end at shutdown? Does the ring show the last bars? Are the recorder's bars whole, does the store complete itself, and is what is read of it true? | holds |
| Services | Do registry, monitor, files and strategies agree on the accounts? Do the channels of both adapters survive drops, does a strategy see an unbroken feed, what is on the server recorder's tape, and do rate limits and drawdown alarms follow what has happened? | holds |
| BatchUnvalidated | Is every order validated before it leaves (README.en.md:65)? | violated: batches are not |
| ShortUncapped | With a current table, does the per-symbol cap bind shorts (README.en.md:65)? | violated |
| RefusedBatch | Has a batch that is reported as accepted arrived? | violated: OKX refusing it whole |
| StopAcknowledged | Has a strategy that is reported as stopped been told to end (strategy_process_manager.h:110)? | violated: not if it was timed out |
| HeartbeatJoin | Does the join of OKX's heartbeat thread return (okx_websocket.cpp:254)? | violated |

The types of `OrderPath`, `StrategyProcess`, `StrategyLoop` and `Subscriptions` are proved (section 4)
and not checked again by a run.

Properties of the order path:

* `CountersBalance` - orders counted = succeeded + failed + in service, but for OKX batches
  refused as a whole, which the code counts as neither.
* `ReportsTruthful` - accepted, submitted or filled orders are at the exchange; a rejected one
  can be alive only if its call threw.
* `PassedIsAnswered`, `EventuallyAnswered` - no way out of `process_place_order` forgets its report.
* `RiskViewSound` - each table entry differs from the true position by at most the fills since the
  read it comes from, in the middle of a round and after a round that broke off too.
* `TotalCapUpToUnseen`, `LongCapUpToUnseen` - an order that passes keeps the total of all
  positions, and a long or flat position, within its cap up to unseen fills and up to what the
  check was wrong about: what the order is worth beyond `CheckedValue` for the total (`Untold`),
  the difference either way for a position (`Misjudged`). So the caps bind an order that states
  its worth; one that states neither worth nor price passes at any worth (only its quantity is
  limited), and the properties say just that. The restriction to long and flat is what the code
  achieves: `ShortUncapped` shows why it is needed.
* `ViewCatchesUp` - again and again the table is current.

Properties of the process table:

* `Tracked` - a live process that the table took in, never gave up and did not tell to end is the
  one its entry names as running. The ways of giving one up are a closed list: a time-out, a
  registration of another process, a removal, a signal that met only the shell, a restart.
* `NoTwins` - so two processes of one strategy run at the same time only after one of these.
* `CrashKillsTable` - after the crash handler nothing is alive that the table names by its own pid,
  late, stopped or replaced. (What `astray` holds, or a shell hides, does live on.)
* `PendingStays` - heartbeats of a process that outlived the last server do not turn a pending entry
  into a running one without a pid.
* `StatusSettles` - a strategy without a process is not shown as running for ever.
* `AliveIsShown` - a time-out that was wrong heals: a process that stays up is shown as running
  again and again, as long as the table knows its strategy.

Properties of the strategy's side:

* `ShownIsTrue` - what `active_orders_` says is so at the exchange, whichever reports were dropped;
  "rejected" is in doubt only where the REST call brought no answer.
* `LiveIsPending` - no order works unknown to the strategy, but for a call without an answer and an
  order of which Binance reported a part as filled (the report says "filled" when anything traded).
* `SubmittedExplained` - an entry that stands at "submitted" has one of a closed list of reasons.
* `RefreshedViewFresh` - after `clear_positions` with no query under way, a refresh that is done without
  error shows a position held since, unless the server answered from its cache.
* `LifeSpec` - the whole implements OrderLife. `SubmittedSettles` - an OKX order does not stand at
  "submitted" for ever unless its request or report was lost.
* `NotTooOften`, `CollectedIsCalled` - a task runs at most once per interval, however rounds nest, and
  one that was collected is called even if its neighbours throw or poll.

Properties of the market-data path:

* `StatusTrue` - when the monitor is at rest and the socket says connected, a connection is open or
  its loss is about to be told.
* `WantedIsKept` - a stream that a strategy wants stays listed and is asked for again after a drop,
  whoever else unsubscribes or dies; the exceptions are named in the property.
* `AtRestCarried` - with socket, monitor and subscription thread at rest the connection carries
  exactly what is recorded, but for streams that the last resubscription and a call had in hand
  at the same time (`crossed`): given up between the copy and the message, a stream is subscribed and
  recorded again, or carried and not recorded.
* `SocketFeedKept` (`FeedKept`) - once failures are over the configured stream flows for good
  (named mishaps apart).
* `DisconnectReturns` - the threads a shutdown joins end.
* `InOrder`, `RecentIsEnd`, `ShowsLastBars` - bars are in rising time, readers agree, and the ring
  implements the list of the last bars.
* `RecorderBarsWhole` - as long as no tool has run, every bar is made of each of its minutes once. With
  tools it may not be: the completion after a turn asks Redis for all minutes, and a minute that
  was filled as well counts as two.
* `StoreHeals` - with the gap filler run again and again, from some time on every closed minute is
  there once and every closed interval that is made of minutes (5m to 30m, 4h, 8h) has its bar, unless a
  tool died with the series deleted. Bars of one hour, which are fetched, heal if there is one
  to start from; those of one day never do: one that the recorder lost stays lost.
* `HistoryTrue` - whatever recorder, tools and failures left in the store, a strategy is answered
  with bars of closed periods of its range, but for a bar that has a minute twice; each minute is
  counted once as long as no tool has run, cut only by the range or by what is missing.

Properties of accounts, channels, feed, tape and limits:

* `OwnAccount` - between two requests a strategy trades with the account it was told of, with an API of
  its own, or with none.
* `AccountsAgree` - between two requests of the operator an account's file, its object and the object
  the monitor polls agree, up to `upset`.
* `OkxCarriesWanted`, `BinanceCarriesWanted` - a connection that is up carries every channel that is
  wanted and nothing else, after any number of drops, requests and unsubscriptions, once neither
  its owner nor its monitor is at work, but for the closed lists of exceptions (after a drop OKX's
  narrower channels do not come back as they were, and Binance's only those of a URL if there is
  one; a Binance kline cannot be given up; what is given up while the monitor has it in hand
  comes back). In between, the adapter is connected and carries nothing for a second and a half
  or longer (okx_websocket.cpp:403-456), and half a second on Binance (binance_websocket.cpp:366-374).
* `FeedUnbroken` - read from its buffer to the end of its queue, a topic that a strategy kept has
  every event published since it began, each once, in order and final, up to drops by a full
  queue and candles that two sockets bring; in main's order of setup no trade, book or funding
  rate of OKX comes at all.
* `TapeKept` - what was handed over is on the tape, trimmed to the newest, up to what Redis refused;
  nobody waits for ever while the connection to Redis holds, and the tape has no holes after it.
* `RiskMemoryTrue` - no second has more orders than its limit nor have sixty-one (cutting ages
  makes the minute that long), an order is refused for its rate only when one of the two is
  full, and the drawdown alarm is raised exactly when the equity is too far below the day's first
  or highest, as long as the account has something.

Bounds and why they suffice. *Orders:* two let one be in flight, or two in one batch, while the
other rests, fills or has filled; with `BatchSize = 1` two orders of a Binance batch are two
concurrent groups. One instrument per exchange makes the total cap differ from the per-symbol cap.
Values 1 to 3 against caps 2 and 3 (RiskView) or 3 and 4 make each check bind alone. In RiskView
the requests are a market order that states its worth, market orders that state a price to
estimate them at, one that states nothing and is worth more than a cap leaves, and a limit order
of contracts that hold two each. The amend run enlarges an order from 2 to 3. `PollMayFail` is
TRUE where safety under failing reads is the question and FALSE where it does not matter
(OrderReports) or where liveness is claimed. Orders are interchangeable in the safety runs
(symmetry); the liveness run uses none. *StrategyTable* has one strategy and two processes of it,
the smallest instance with twins, one message per process under way (so one late message of each),
and a shell that stays between. Strategies share nothing but their account: that a removal by
account treats its neighbours as itself is covered by the proofs, for any number of them.
*StrategyLoop* has one order on OKX and one on Binance, queues of two so that the high-water mark
drops a report, one restart, two tasks nested two deep; a behaviour has one focus (everything
about one order, both orders, registration, positions, tasks), because the parts share only the
channels. *MarketFeed* has four connections, enough for an old, a late and a new one with one
spare, and three failures; with the strategies' requests one stream at a time and one failure; a
ring of three bars and four candles wraps once; the store has bars of two minutes, three closed
minutes (a whole period, and the first half of the next) and two failures, a run of the fast
filler counted as one; for the intervals that the filler does not make of minutes one failure,
since there only what it does with the bars is new. *Services* looks at one part at a time, since
they share no state: two accounts with two sets of credentials and four requests; two different
asks of a behaviour among all channels of OKX (two are enough for keys to run together); every
stream of one Binance symbol, of three kinds at a time (`FewStreams`), with and without one in the
URL; two feeds that flow, two events each, and a queue of two, so that the third message is
dropped; a tape that holds two of three messages, so that it is trimmed, two hands at a time (the
same socket's or two threads') and one message that Redis refuses; orders in half seconds over a
"minute" of two seconds that is left again, at most two in a second and three in a minute; three
polls a day on two days, with equities on both sides of zero.

Fairness. `WF` on the steps of a request in service: every REST call has a time-out, so it ends.
`WF` on the monitor: its loop runs while the server does. Nothing is assumed of strategies or of
the exchange filling orders. In StrategyProcess: the order thread takes every message, the main
loop, which looks every 10 s, finds an entry late once no process is left to beat for it, a
process that is up beats every 5 s, and the frontend ends the command it began. That the server is
up is a premise of both liveness properties, not an assumption. `ViewCatchesUp` assumes reads that
succeed, one account on Binance, which also lists flat instruments; on OKX a closed position is no
longer listed and its entry may stay, so the property is not claimed there. In StrategyLoop the
strategy's loop turns (`while (running_)`) and the server serves; a task's method returns. In
Reconnect the threads run on and a handshake or close that meets no failure ends; the network is
not fair. `MCMarketFeed` states this fairness for the behaviours that look at a socket only:
stated of all, a socket that nobody looks at would make every other behaviour unfair and what is
claimed of the store empty. `SocketFeedKept` is `FeedKept` of these behaviours. In the store the
recorder's main loop flushes and reconnects, a tool that runs goes on, and
`run_gap_filler_loop.sh` starts the gap filler again three seconds after each run.

## 4. What is proved

Every proof has a lemma that the initial states satisfy the invariant, one that every action
preserves it, and a temporal step. Where TLC can evaluate them, the
inductive invariants were model-checked first. Every safety property and every action property
that a passing run checks is also a theorem.

Sums over sets, as of all positions, are folds of the community modules, whose definition is a
recursion; so are the flush of a pipeline and the drain of a queue. What they compute is proved
without an induction over data. `Induction` shows, from the well-foundedness of the strict
subsets of a finite set, that a set of parts that is closed under adding what all smaller parts
allow holds every part (`AllParts`), that a non-empty set of numbers has a greatest member
(`Greatest`), and that a fold has a function that satisfies its recursion. A fact about a fold is
then one about the set of parts for which it holds.

`OrderPath_proofs`, for any finite set of orders, any accounts, instruments, requests and limits
that satisfy the named assumptions of the modules:

* `TypeCorrect`: `Spec => []TypeOK`, with the fact that what is left of an order never exceeds its
  value.
* `Answered`: `[]PassedIsAnswered`, by an invariant (`ServiceInv`) that ties `pc`, `cur` and `passed`
  together: only the order in service may be checked and unanswered.
* `Truthful`: `[]ReportsTruthful`, by `ReplyInv`: what the REST call came back with says whether the
  order can be at the exchange, and an order not yet sent is not there.
* `Balanced`: `[]CountersBalance`; cardinalities of the requests in service under each action.
* `RiskViewCorrect`: `DisjointBooks /\ Spec => []RiskViewSound`. The invariant `RowsSound` adds the rows
  that are read and not yet handed over: each differs from the true position by at most
  `sinceFetch`. `DisjointBooks` (no instrument belongs to two accounts) is needed: the table is
  keyed by instrument only.
* `LongCap`: `DisjointBooks /\ Spec => LongCapUpToUnseen`, from `RiskViewSound` and the check of
  `CheckedValue`, whose distance from the order's worth is `Misjudged`.
* `TotalCap`: `DisjointBooks /\ Spec => TotalCapUpToUnseen`, up to `Untold`, which is nothing for an
  order that states at least what it is worth. The check adds up its table by
  instrument, the exchanges' positions are added up by account and then by instrument; `AllBooks`
  goes over sets of accounts from the empty one to all, with the four facts about sums
  (`SumTakes`, `SumBound`, `SumDisjoint`, `SumPart`), each proved from `AllParts`.

`StrategyProcess_proofs`, for any strategies, accounts and processes, with or without the shell:

* `TypeCorrect`: `[]TypeOK`, inductive alone.
* `ProcessesTracked`: `[]Tracked`, inductive with the types: each operation either tells the
  process its entry names, or gives it up, or leaves it named; a start needs an entry that is
  not running, hence nobody on track. `NeverTwins` (`[]NoTwins`) follows.
* `CrashKills`: `[]CrashKillsTable`. Not inductive: a process might be launched after the
  crash under a pid the table names. `Born` excludes it: what the table names, and what has
  sent a message, was launched before.
* `PendingStaysPending`: `PendingStays`, from the invariant `OnDisk`: an entry that is pending has a
  configuration on disk, so the frontend cannot create it anew.

`StrategyLoop_proofs`, for any orders, queue bounds, positions and numbers of restarts:

* `TypeCorrect`; `TableTrue` (`ShownIsTrue`), `LiveKnown` (`LiveIsPending`), `SubmittedReasons`
  (`SubmittedExplained`) and `LifeImplemented` (`Spec => LifeSpec`), all from `OrdersInv`: an
  order is in one place at a time - a request, a waiting report, or the table - and each place
  says what may be true at the exchange. `ExplainedInv` adds the reasons. The refinement shows
  each step of strategy, channels and server to be a step of OrderLife or a stutter.
* `ViewFresh` (`RefreshedViewFresh`) from `ViewInv`: while no query was under way at
  `clear_positions`, every answer in the queue was held since.

Also there, about TaskScheduler: `NeverTooOften` (`NotTooOften`), from `TaskInv`: the next run
time of a task is at least its first plus one interval for each call collected.

`Subscriptions_proofs`: `StatusCorrect` (`StatusTrue`), from `StatusInv`: a client that is up has
an open or closing connection (`UpIsOpen`), no monitor before the first connect (`NoMonitor`),
callbacks are in place whenever the flags say connected (`Hooked`), and a lost connection leaves
its mark (`Noticed`).

In the same module `SubTypeCorrect`, `WantedStays` (`WantedIsKept`) and `RestCarried`
(`AtRestCarried`); the users counted of a stream are at least the strategies that want it.
`AtRestCarried` is strengthened to the moments at which a call is in hand or the monitor asks
again: what is carried, or about to be asked for, is recorded or about to be (`CarriedKnown`), and
once the record is copied for a connection the reverse (`KnownCarried`), but for what is
`crossed`.

`Stores_proofs`, about what is kept of the market's data:

* `RingImplements` (`RingSpec => ShowsLastBars`), `OrderedOverOne` (`InOrder`), `RecentOfAll`
  (`RecentIsEnd`), for any capacity; `OrderInv` says that a single connection's next candle is
  later than the last bar.
* `TapeIsKept` (`TapeKept`), for any room and any number of messages. `TapeInv`: a thread that is in a
  call hands over what is newest, every key holds the last of what Redis took (`InRedis`), the trades
  are in falling order without holes, and in each phase of the shutdown it is known which threads
  may still be in a call.
* `RecorderMakesWholeBars` (`RecorderBarsWhole`) and `HistoryIsTrue` (`HistoryTrue`), for any
  length of a bar, any number of minutes and failures. `KlineInv`: what is stored, and what waits
  in the pipeline, is of minutes that are over, and until a tool runs it is the recorder's own,
  and whole (`SafeMembers`, `SafeBars`); the aggregator's bar is the sum of a set of members, as
  many as it counts, of one period (`Gathered`), hence whole when the count is full and no two are
  of one minute; and what a tool keeps from one Redis command to the next is as safe (`ToolInv`).
  That the invariant survives a torn pipeline is a fact about the fold over its writes.

`AccountRegistry_proofs`: `TradesOwn` (`OwnAccount`) and `PlacesAgree` (`AccountsAgree`), for any
accounts, strategies and credentials. The invariant has six parts: where an object can be
(`Shape`), what the order thread holds (`OrderKey`), what a strategy's key leads to (`OwnObject`),
what it was told (`KeepsPromise`), where the operator's request is (`FrontKey`) and what has to
agree then (`AgreeInv`).

`Services_proofs`, about channels, feed and limits:

* `BinanceCarries` (`BinanceCarriesWanted`), for any symbols. What is wanted is carried, or in the
  message under way, or copied by the monitor, or recorded and not yet copied (`CarriedSoon`);
  what is carried or copied is wanted or excused, but for what is just being given up
  (`NothingElse`). What a connection that is down will carry again is what is written down
  (`RecordAgrees`) or, with streams in its URL, only these, so that in its drop all that is wanted
  becomes an exception (`DropExcuses`). It uses that no name the subscription thread gives up is
  in a URL (`UrlAssumption`): `main` puts continuous klines there, and tickers for the frontend
  (trading_server_main.cpp:866-870), and the thread has no name for either.
* `OkxCarries` (`OkxCarriesWanted`), for any asks that the adapter's calls can make
  (`AsksAssumption`: a channel has the parameters its `subscribe_*` has). `OkxInv`: what is wanted
  under an instrument alone is in the record, or about to be (`Remembered`), and carried or on its
  way back (`CarriedOrDue`); and each key of the record and each request carried goes back to an
  ask that is wanted or excused (`KeyOf`, `Explained`). The keys of two asks may be equal; the
  proof shows in which cases they are, and that `okxExcuse` has them.
* `FeedIsUnbroken` (`FeedUnbroken`), for any length of queue and buffers. `FeedInv`: each topic
  has one feed (`Counted`), its messages stand in order in the buffer, in the queue, and from one
  to the other (`OnTheWay`), and are without a hole from the first on (`Unbroken`); the drain
  takes a part off the queue's front and leaves both so.
* `MemoryTrue` (`RiskMemoryTrue`), for any limits, times and equities. The stamps are the orders but for
  the first, which are too old to count (`StampsAfter`), so that what the code compares with its
  limits are numbers of orders; an order that passed still fits when it is recorded, however much
  later (`Roomy`); and as long as the equities of a day have one sign, the stored peak and first
  value are those of this day (`PeakTrue`).

The proof of `HistoryTrue` failed in the form it first had, that every bar answered is of a closed
period. With bars of two minutes, as in the run, that is so; with three minutes TLC finds the bar
described under *History* above: the count is full with two members of one minute and one of
another. The property now excepts a bar that has a minute twice; TLC checked it, with the
inductive invariant, for bars of three minutes and seven minutes too (1.1 million states, longer
than a run of this project should take), and the theorem covers every length.

Only model-checked: the liveness properties `EventuallyAnswered`, `ViewCatchesUp`, `StatusSettles`,
`AliveIsShown`, `SubmittedSettles`, `CollectedIsCalled`, `SocketFeedKept`, `DisconnectReturns` and
`StoreHeals`, since what happens under fairness is out of the prover's reach; and the five violations
of section 5, which are single behaviours.

## 5. Findings

Five runs show the code doing other than its documents or comments say; `PROJECT.json` quotes
the lines. Batches skip the risk check. A short position is stored without its sign, so a sell
that enlarges it looks like a sell that reduces a long, and the per-symbol cap does not bind. An
OKX batch that is refused as a whole is reported as accepted with no results. A strategy that
was timed out, as happens when it takes longer than 15 s to start, is reported as stopped
without a signal and trades on. OKX's monitor sets `is_running_` although a callback of an old
connection has asked for a reconnect meanwhile, and then joins a heartbeat thread that
nothing ends.

Disagreements seen while modelling for which there is no run, because no line of the
repository states the opposite as plainly, or because the model starts behind them:

* The caps bind what a request says it is worth. A market order of `send_swap_market_order`
  (trading_module.h:143-169) says nothing and is checked at value 0 (order_processor.cpp:127-151),
  so it passes `max_order_value`, the position cap and the total cap whatever it is worth; an OKX
  limit order without `order_value` is checked at price times contracts, whatever a contract
  holds.
* A bar of one day that the recorder loses is never completed; a bar of one hour is, from the
  first stored one on (kline_gap_filler.cpp:53, 59-66).
* `resubscribe_all` of both adapters copies under the mutex and sends without it, so a channel that is
  given up in between comes back; on OKX it may be recorded again as well
  (okx_websocket.cpp:538-613, 742-746, 814-818; binance_websocket.cpp:1454-1475).
* `main` calls `setup_websocket_callbacks` (trading_server_main.cpp:571) before the public socket of
  OKX exists (:632, which sets its ticker callback only), so OKX trades, books and funding rates
  reach no strategy. In DataFeed this is `setup = "main"`.
* The kline callback of Binance's market socket publishes candles that are not closed and doubles
  those of the batch socket; nobody sets a depth callback there. Requests of strategies carry no
  "exchange" and so always go to OKX. A strategy's socket listens to every topic, so tickers
  nobody asked for can push its candles out of the queue.
* `RedisRecorder` and `RedisDataProvider` call `reconnect()` with their mutex held, and it takes the
  mutex again (redis_recorder.cpp:152-155, 126; redis_data_provider.cpp:138-141, 85): after a lost
  connection the socket's thread, and main's join at shutdown, never return.
* The aggregation of the server's recorder throws before it stores anything
  (redis_recorder.cpp:410), so it writes no bars of longer intervals.
* An OKX account whose equities sum to less than zero turns the sign of the drawdown
  (risk_manager.h:549): a loss is not told, a gain may be.
* Giving up a Binance kline names another stream than the one subscribed
  (subscription_manager.cpp:57).

## 6. Plan: done and left

Done: the order path, the process table, the strategy's loop with its channels and its
refinement, scheduled tasks, sockets with subscriptions, the channels of both adapters, the way
of market data to a strategy, rings of bars, the stand-alone recorder with its tools and the
history read of it, the recorder inside the server, the accounts, the risk manager's memory; the
proofs above. Left: the alarms.

## 7. Not modelled

Login of the WebSocket adapters, orders sent over a socket and Binance's user stream (the server
switches them off or never calls them; the private channels of OKX are in OkxChannels, as asks),
parsing and request building, the getters, bindings and logging: they hold no protocol state, and
they are most of the source the map does not cover. Expiry in the store,
two tools at once. Binance's markets in the
registry and `update_*_account`, which nothing calls. Authentication and sessions, the frontend's
copies of reports, e-mail and Lark alarms, the event engine (not used by the order path),
configuration, the console and scripts. Prices that move: positions change by fills only, so
what the properties call unseen is fills; a moving mark would add its drift.
