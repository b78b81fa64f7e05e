------------------------------ MODULE OkxChannels ------------------------------
(***************************************************************************)
(* The channels of the OKX adapter (okx_websocket.cpp): what its owner     *)
(* asks for, what the adapter writes down under which key, and what it     *)
(* asks for again, from the keys alone, when a connection was lost.  A     *)
(* text that holds colons is the sequence of its parts; Empty is "".       *)
(***************************************************************************)
EXTENDS Sequences, Functions

CONSTANTS
    Asks                \* what an owner may ask for

Empty == <<"">>

ByInstrument == {"tickers", "trades", "trades-all", "books5", "bbo-tbt", "candle1m",
                 "candle1h", "open-interest", "mark-price", "funding-rate"}
ByType == {"orders", "positions", "orders-algo", "algo-advance"}
Whole == {"account", "balance_and_position", "sprd-orders", "sprd-trades"}

(* An ask: a channel, an instrument, an instrument type, and the family,   *)
(* algo order, currency or spread that the channel may be narrowed to.     *)
OkxAsk(channel, inst, type, detail) ==
    [channel |-> channel, inst |-> inst, type |-> type, detail |-> detail]

(* What the calls of the adapter have parameters for. *)
ASSUME AsksAssumption ==
    \A a \in Asks :
        /\ a = OkxAsk(a.channel, a.inst, a.type, a.detail)
        /\ a.channel \in ByInstrument \cup ByType \cup Whole
        /\ {a.inst, a.type, a.detail} \subseteq Seq(STRING) \ {<<>>}
        /\ a.channel \in ByInstrument => a.detail = Empty /\ Empty \in {a.inst, a.type}
        /\ a.channel \in ByType => a.type # Empty
        /\ a.channel \in Whole => a.inst = Empty /\ a.type = Empty
        /\ a.channel = "balance_and_position" => a.detail = Empty

VARIABLES
    cast,               \* bound of the model: the two asks of a behaviour
    okxUp,              \* is_connected_
    okxRecord,          \* the keys of subscriptions_
    okxCall,            \* the owner's call that was sent and not yet written down
    okxDue,             \* a new connection, and the record not yet copied
    okxCopy,            \* the keys copied that resubscribe_all has yet to send
    okxSent,            \* the keys it sent and has yet to record
    okxCarried,         \* what the exchange sends on the connection
    okxWanted,          \* history: asks made and not given up
    okxExcuse           \* history: asks about which nothing is promised

monitorOkxVars == <<okxDue, okxCopy, okxSent>>
okxVars == <<cast, okxUp, okxRecord, okxCall, monitorOkxVars, okxCarried, okxWanted, okxExcuse>>

OkxInit ==
    /\ cast \in {{a, b} : a \in Asks, b \in Asks}
    /\ okxUp = TRUE
    /\ okxDue = FALSE /\ okxCopy = {} /\ okxSent = {} /\ okxCall = {}
    /\ okxRecord = {} /\ okxCarried = {} /\ okxWanted = {} /\ okxExcuse = {}

-----------------------------------------------------------------------------
(* string_to_kline_interval: a bar it does not know is one minute. *)
ChannelName(channel) == IF channel = "candle1h" THEN "candle1m" ELSE channel

(* The field of a request that holds the detail. *)
DetailField(channel) ==
    CASE channel = "algo-advance" -> "algoId"
      [] channel = "account" -> "ccy"
      [] channel \in {"sprd-orders", "sprd-trades"} -> "sprdId"
      [] OTHER -> "instFamily"

(* A request is the function from its fields to their values. *)
Request(channel, fields) ==
    [f \in {"channel"} \cup DOMAIN fields |-> IF f = "channel" THEN <<channel>> ELSE fields[f]]

Optional(field, value) == [f \in IF value = Empty THEN {} ELSE {field} |-> value]
Joined(f, g) == [x \in DOMAIN f \cup DOMAIN g |-> IF x \in DOMAIN f THEN f[x] ELSE g[x]]

RequestOf(a) ==
    Request(ChannelName(a.channel),
            Joined(Optional("instId", a.inst),
                   Joined(Optional("instType", a.type),
                          Optional(DetailField(a.channel), a.detail))))

(* External: OKX needs an instrument or a type where the channel has one,  *)
(* refuses a bar it does not know, and may or may not overlook a field     *)
(* that the channel does not have.                                         *)
OwnFields(channel) ==
    {"channel"} \cup
    (CASE channel \in ByInstrument -> {"instId", "instType"}
       [] channel \in ByType -> {"instId", "instType", DetailField(channel)}
       [] channel = "balance_and_position" -> {}
       [] OTHER -> {DetailField(channel)})

Taken(r, overlooks) ==
    LET channel == r["channel"][1]
        own == DOMAIN r \cap OwnFields(channel)
        named == "instId" \in DOMAIN r => Len(r["instId"]) = 1 /\ r["instId"] # Empty
    IN  IF \/ channel = "candle1h"
           \/ channel \in ByInstrument /\ (own = {"channel"} \/ ~ named)
           \/ channel \in ByType /\ "instType" \notin own
           \/ own # DOMAIN r /\ ~ overlooks
          THEN {} ELSE {Restrict(r, own)}

-----------------------------------------------------------------------------
(* Calls of the owner: a request is sent, and when it was, its key is      *)
(* recorded or erased under the lock in a step of its own.  Without a      *)
(* connection send_message sends nothing, and nothing is written down.     *)

Calls(asked) ==
    /\ okxCall = {} /\ okxWanted' = asked
    /\ UNCHANGED <<cast, okxUp, okxRecord, monitorOkxVars>>

Call(op, a, key) == [op |-> op, ask |-> a, key |-> key]
Underway(op) == {c \in okxCall : c.op = op}
AsksOf(calls) == {c.ask : c \in calls}
KeysOf(calls) == {c.key : c \in calls}

Subscribe(a, request, key) ==
    /\ Calls(okxWanted \cup {a})
    /\ IF okxUp
         THEN /\ okxCarried' = okxCarried \cup Taken(request, TRUE)
              /\ okxCall' = {Call("record", a, key)}
              /\ okxExcuse' = okxExcuse \ {a}
         ELSE okxExcuse' = okxExcuse \cup {a} /\ UNCHANGED <<okxCall, okxCarried>>

(* What others want under the same request is gone with it; what           *)
(* resubscribe_all has in hand it asks for again, or records again.        *)
Unsubscribe(a, key) ==
    LET returns == ~ okxUp \/ a.channel = "account" \/ key \in okxCopy \cup okxSent
    IN  /\ Calls(okxWanted \ {a})
        /\ okxExcuse' = okxExcuse \cup {b \in okxWanted \ {a} : RequestOf(b) = RequestOf(a)}
                                  \cup (IF returns THEN {a} ELSE {})
        /\ IF okxUp
             THEN /\ okxCarried' = okxCarried \ Taken(RequestOf(a), TRUE)
                  /\ okxCall' = {Call("erase", a, key)}
             ELSE UNCHANGED <<okxCall, okxCarried>>

CallWritten ==
    /\ okxCall # {} /\ okxCall' = {}
    /\ okxRecord' = (okxRecord \ KeysOf(Underway("erase"))) \cup KeysOf(Underway("record"))
    /\ UNCHANGED <<cast, okxUp, monitorOkxVars, okxCarried, okxWanted, okxExcuse>>

PartOf(text) == IF text = Empty THEN <<>> ELSE text
InstrumentKey(a) == <<ChannelName(a.channel)>> \o a.inst
TypeKey(a) == <<a.channel>> \o a.type \o PartOf(a.inst)
WholeKey(a) == <<a.channel>> \o PartOf(a.detail)

SubscribeInstrument(a) ==
    /\ a.channel \in ByInstrument /\ a.inst # Empty
    /\ Subscribe(a, RequestOf(a), InstrumentKey(a))

SubscribeTickersByType(a) ==
    /\ a.channel = "tickers" /\ a.inst = Empty
    /\ Subscribe(a, RequestOf(a), InstrumentKey(a))

UnsubscribeInstrument(a) ==
    a.channel \in ByInstrument /\ a.inst # Empty /\ Unsubscribe(a, InstrumentKey(a))

Batched == {"tickers", "trades", "books5", "bbo-tbt", "candle1m"}

(* A batch names its bar itself; its caller names one that OKX knows. *)
SubscribeBatched(a) ==
    /\ a.channel \in Batched /\ a.inst # Empty
    /\ Subscribe(a, Request(a.channel, Optional("instId", a.inst)), <<a.channel>> \o a.inst)

(* orders leaves the family out of its key ... *)
SubscribeOrders(a) == a.channel = "orders" /\ Subscribe(a, RequestOf(a), TypeKey(a))
UnsubscribeOrders(a) == a.channel = "orders" /\ Unsubscribe(a, TypeKey(a))

(* ... positions only when it unsubscribes ... *)
SubscribePositions(a) ==
    a.channel = "positions" /\ Subscribe(a, RequestOf(a), TypeKey(a) \o PartOf(a.detail))
UnsubscribePositions(a) == a.channel = "positions" /\ Unsubscribe(a, TypeKey(a))

(* ... and algo orders never. *)
SubscribeOrdersAlgo(a) ==
    a.channel = "orders-algo" /\ Subscribe(a, RequestOf(a), TypeKey(a) \o PartOf(a.detail))
UnsubscribeOrdersAlgo(a) ==
    a.channel = "orders-algo" /\ Unsubscribe(a, TypeKey(a) \o PartOf(a.detail))
SubscribeAlgoAdvance(a) ==
    a.channel = "algo-advance" /\ Subscribe(a, RequestOf(a), TypeKey(a) \o PartOf(a.detail))
UnsubscribeAlgoAdvance(a) ==
    a.channel = "algo-advance" /\ Unsubscribe(a, TypeKey(a) \o PartOf(a.detail))

(* unsubscribe_account erases nothing, or a key nothing was recorded under. *)
SubscribeAccount(a) == a.channel = "account" /\ Subscribe(a, RequestOf(a), WholeKey(a))
UnsubscribeAccount(a) == a.channel = "account" /\ Unsubscribe(a, <<"account">> \o Empty)

SubscribeBalanceAndPosition(a) ==
    a.channel = "balance_and_position" /\ Subscribe(a, RequestOf(a), WholeKey(a))

(* Erased, whether the request was sent or not. *)
UnsubscribeBalanceAndPosition(a) ==
    /\ a.channel = "balance_and_position"
    /\ Calls(okxWanted \ {a})
    /\ okxCall' = {Call("erase", a, WholeKey(a))}
    /\ okxCarried' = okxCarried \ Taken(RequestOf(a), TRUE)
    /\ UNCHANGED okxExcuse

SubscribeSprdOrders(a) == a.channel = "sprd-orders" /\ Subscribe(a, RequestOf(a), WholeKey(a))
UnsubscribeSprdOrders(a) == a.channel = "sprd-orders" /\ Unsubscribe(a, WholeKey(a))
SubscribeSprdTrades(a) == a.channel = "sprd-trades" /\ Subscribe(a, RequestOf(a), WholeKey(a))
UnsubscribeSprdTrades(a) == a.channel = "sprd-trades" /\ Unsubscribe(a, WholeKey(a))

OwnerCalls(a) ==
    \/ SubscribeInstrument(a) \/ SubscribeTickersByType(a) \/ UnsubscribeInstrument(a)
    \/ SubscribeBatched(a)
    \/ SubscribeOrders(a) \/ UnsubscribeOrders(a)
    \/ SubscribePositions(a) \/ UnsubscribePositions(a)
    \/ SubscribeOrdersAlgo(a) \/ UnsubscribeOrdersAlgo(a)
    \/ SubscribeAlgoAdvance(a) \/ UnsubscribeAlgoAdvance(a)
    \/ SubscribeAccount(a) \/ UnsubscribeAccount(a)
    \/ SubscribeBalanceAndPosition(a) \/ UnsubscribeBalanceAndPosition(a)
    \/ SubscribeSprdOrders(a) \/ UnsubscribeSprdOrders(a)
    \/ SubscribeSprdTrades(a) \/ UnsubscribeSprdTrades(a)

-----------------------------------------------------------------------------
ChannelsLost ==
    /\ okxUp
    /\ okxUp' = FALSE /\ okxCarried' = {}
    /\ okxExcuse' = okxExcuse \cup {a \in okxWanted : a.channel \notin ByInstrument \/ a.inst = Empty}
                              \cup AsksOf(Underway("record"))
    /\ UNCHANGED <<cast, okxRecord, okxCall, monitorOkxVars, okxWanted>>

MonitorRests == ~ okxDue /\ okxCopy = {} /\ okxSent = {}

(* The monitor thread connects, and waits for a second and a half. *)
ChannelsBack ==
    /\ ~ okxUp /\ MonitorRests
    /\ okxUp' = TRUE /\ okxDue' = TRUE
    /\ UNCHANGED <<cast, okxRecord, okxCall, okxCopy, okxSent, okxCarried, okxWanted, okxExcuse>>

(* Mutant: only the channels that are asked for in batches. *)
BatchedOnly == {k \in okxRecord : Len(k) > 1 /\ k[1] \in Batched}

(* What resubscribe_all copies under the lock: a key without a colon is    *)
(* passed over.                                                            *)
Copied == {k \in okxRecord : Len(k) > 1}

(* It still copies the key of what was given up and is not yet erased. *)
CopiesKeys ==
    /\ okxDue /\ okxDue' = FALSE
    /\ okxCopy' = Copied
    /\ okxExcuse' = okxExcuse \cup AsksOf(Underway("erase"))
    /\ UNCHANGED <<cast, okxUp, okxRecord, okxCall, okxSent, okxCarried, okxWanted>>

(* What follows the first colon of a key is the instrument to ask for.     *)
(* The keys of a channel go out in one message, or one by one.             *)
TakenAgain(keys, overlooks) ==
    UNION {Taken(Request(k[1], [f \in {"instId"} |-> Tail(k)]), overlooks) : k \in keys}

SendsAgain ==
    /\ okxSent = {}
    /\ \E k \in okxCopy, overlooks \in BOOLEAN :
          LET keys == IF k[1] \in Batched THEN {l \in okxCopy : l[1] = k[1]} ELSE {k}
          IN  /\ okxCopy' = okxCopy \ keys
              /\ IF okxUp
                   THEN okxCarried' = okxCarried \cup TakenAgain(keys, overlooks) /\ okxSent' = keys
                   ELSE UNCHANGED <<okxCarried, okxSent>>
    /\ UNCHANGED <<cast, okxUp, okxRecord, okxCall, okxDue, okxWanted, okxExcuse>>

RecordsAgain ==
    /\ okxSent # {} /\ okxSent' = {}
    /\ okxRecord' = okxRecord \cup okxSent
    /\ UNCHANGED <<cast, okxUp, okxCall, okxDue, okxCopy, okxCarried, okxWanted, okxExcuse>>

OkxNext ==
    \/ \E a \in cast : OwnerCalls(a)
    \/ CallWritten
    \/ ChannelsLost \/ ChannelsBack
    \/ CopiesKeys \/ SendsAgain \/ RecordsAgain

OkxSpec == OkxInit /\ [][OkxNext]_okxVars

-----------------------------------------------------------------------------
(* When neither its owner nor its monitor is at work, a connected adapter  *)
(* carries what its owner wants, through any number of drops and whatever  *)
(* was asked for, given up or given up twice in between - and nothing      *)
(* else.  The exceptions are closed: what was asked for without a          *)
(* connection, or was sent and not yet recorded when it broke, is not      *)
(* asked for later; after a drop only channels named by an instrument      *)
(* alone come back, a currency's or a spread's perhaps as the whole        *)
(* channel; what was given up without a connection, or while               *)
(* resubscribe_all had it in hand, and an account's channel, may return;   *)
(* and one ask takes another's stream away that went out as the same       *)
(* request, as a bar OKX does not know goes out as one minute.             *)
OkxCarriesWanted ==
    okxUp /\ MonitorRests /\ okxCall = {} =>
        /\ \A a \in okxWanted \ okxExcuse : Taken(RequestOf(a), TRUE) \subseteq okxCarried
        /\ \A r \in okxCarried :
              \/ \E a \in okxWanted \cup okxExcuse : r \in Taken(RequestOf(a), TRUE)
              \/ \E a \in cast : a.channel \in Whole /\ a.detail # Empty /\ r["channel"] = <<a.channel>>

=============================================================================
