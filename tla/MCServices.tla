------------------------------ MODULE MCServices ------------------------------
(***************************************************************************)
(* Services around the orders' path on a small instance: the accounts      *)
(* under a few requests, the channels of the adapters through drops, the   *)
(* way of what the exchanges push to a strategy, the server's own recorder,*)
(* and what the risk manager remembers.  They share no state, so the run   *)
(* looks at one at a time.                                                 *)
(***************************************************************************)
EXTENDS AccountRegistry, OkxChannels, BinanceStreams, DataFeed, RedisTape, RiskMemory

CONSTANTS
    MaxRequests         \* bound: requests for accounts, restarts included

VARIABLES
    focus,              \* "accounts", "okx", "binance", "data", "tape", "rate", "equity"
    requests            \* requests so far

serviceVars == <<accountVars, okxVars, bnVars, dataVars, tapeVars, memoryVars, focus, requests>>

-----------------------------------------------------------------------------
(* Constants: an ask for every channel, with and without what narrows it;  *)
(* and the one stream that a Binance URL may name.                         *)

Instrument == <<"i">>
Type == <<"SWAP">>
Detail == <<"d">>

AllAsks ==
    {OkxAsk(c, Instrument, Empty, Empty) :
        c \in {"tickers", "trades", "candle1m", "candle1h", "mark-price"}} \cup
    {OkxAsk("tickers", Empty, Type, Empty)} \cup
    {OkxAsk(c, i, Type, d) : c \in ByType, i \in {Instrument, Empty}, d \in {Detail, Empty}} \cup
    {OkxAsk(c, Empty, Empty, d) : c \in Whole \ {"balance_and_position"}, d \in {Detail, Empty}} \cup
    {OkxAsk("balance_and_position", Empty, Empty, Empty)}

FewEquities == {-2, -1, 0, 1, 2, 3}

InUrl == <<"btc", "perpetual", "continuousKline_1m">>

-----------------------------------------------------------------------------
MCInit ==
    /\ AccountInit /\ OkxInit /\ BinanceInit /\ DataInit /\ TapeInit /\ MemoryInit
    /\ focus \in {"accounts", "okx", "binance", "data", "tape", "rate", "equity"} /\ requests = 0
    /\ focus = "okx" \/ cast = {OkxAsk("balance_and_position", Empty, Empty, Empty)}
    /\ focus = "binance" \/ bnUrl = {}
    /\ focus = "equity" \/ mode = "daily_peak"
    /\ focus = "data" \/ (setup = "main" /\ flowing = {Feed("business", "candle", "swap", "1m")})

Begins ==
    \/ front = Idle /\ front' # Idle
    \/ order = Idle /\ order' # Idle
    \/ default' # default
    \/ ServerRestarts

(* A default account comes first if at all, the operator's first account   *)
(* is "a", and strategies bring one set of credentials.                    *)
FewRequests ==
    /\ requests' = requests + (IF Begins THEN 1 ELSE 0) /\ requests' =< MaxRequests
    /\ default' \in {default, NoApi} \/ requests = 0
    /\ requests = 0 => front'.key # "b"
    /\ order = Idle => order'.cred # "d"

(* Two of the hands at a time, of which Redis refuses a message at most. *)
FewHands ==
    /\ recording => Cardinality(refused') =< 1
    /\ Cardinality({h \in Hands : handed'[h] > 0}) =< 2

(* Three kinds of streams at a time, of all. *)
FewStreams == Cardinality({c[1] : c \in bnWanted' \cup bnExcuse'}) =< 3

MCNext ==
    /\ UNCHANGED focus
    /\ \/ /\ focus = "accounts"
          /\ AccountNext /\ FewRequests
          /\ UNCHANGED <<okxVars, bnVars, dataVars, tapeVars, memoryVars>>
       \/ /\ focus = "okx"
          /\ OkxNext /\ UNCHANGED <<accountVars, requests, bnVars, dataVars, tapeVars, memoryVars>>
       \/ /\ focus = "binance"
          /\ BinanceNext /\ FewStreams
          /\ UNCHANGED <<accountVars, requests, okxVars, dataVars, tapeVars, memoryVars>>
       \/ /\ focus = "data"
          /\ DataNext /\ UNCHANGED <<accountVars, requests, okxVars, bnVars, tapeVars, memoryVars>>
       \/ /\ focus = "tape"
          /\ TapeNext /\ FewHands
          /\ UNCHANGED <<accountVars, requests, okxVars, bnVars, dataVars, memoryVars>>
       \/ /\ focus = "rate"
          /\ RateNext /\ UNCHANGED <<accountVars, requests, okxVars, bnVars, dataVars, tapeVars>>
       \/ /\ focus = "equity"
          /\ EquityNext /\ UNCHANGED <<accountVars, requests, okxVars, bnVars, dataVars, tapeVars>>

MCSpec == MCInit /\ [][MCNext]_serviceVars

=============================================================================
