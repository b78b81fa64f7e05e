---------------------------- MODULE BinanceStreams ----------------------------
(***************************************************************************)
(* The streams of the Binance adapter (binance_websocket.cpp): each        *)
(* subscribe_* makes up a name, writes it down and then sends it; after a  *)
(* drop the monitor copies the names and then asks for them again - unless *)
(* the connection was made with streams in its URL, which then come back   *)
(* alone.  The subscription thread (subscription_manager.cpp) makes up the *)
(* names to give up.  The parts of a name between its separators are a     *)
(* sequence here.                                                          *)
(***************************************************************************)
EXTENDS Sequences

CONSTANTS BinanceSymbols, UrlStream \* a stream that the URL may name

(* The URLs that main makes hold continuous klines and tickers, for which  *)
(* the subscription thread has no name.                                    *)
ASSUME UrlAssumption ==
    \A s \in BinanceSymbols : UrlStream \notin {<<s, "trade">>, <<s, "kline_1m">>, <<s, "depth20">>}

Kinds == {"trade", "kline", "depth", "depth 100ms", "markPrice", "ticker", "miniTicker",
          "bookTicker"}

VARIABLES
    bnUp,               \* is_connected_
    bnUrl,              \* the streams in ws_url_, if use_combined_stream_url_
    bnRecord,           \* subscriptions_
    bnCall,             \* the owner's call that is written down and not yet sent
    bnDue,              \* a new connection, and the record not yet copied
    bnCopy,             \* the names copied that resubscribe_all has yet to send
    bnCarried,          \* what the exchange sends on the connection
    bnWanted,           \* history: kinds and symbols asked for, not given up
    bnExcuse            \* history: those about which nothing is promised

bnVars == <<bnUp, bnUrl, bnRecord, bnCall, bnDue, bnCopy, bnCarried, bnWanted, bnExcuse>>

BinanceInit ==
    /\ bnUp = TRUE
    /\ bnUrl \in {{}, {UrlStream}} /\ bnRecord = bnUrl /\ bnCarried = bnUrl
    /\ bnCall = {} /\ bnDue = FALSE /\ bnCopy = {}
    /\ bnWanted = {} /\ bnExcuse = {}

-----------------------------------------------------------------------------
StreamName(kind, s) ==
    CASE kind = "kline" -> <<s, "perpetual", "continuousKline_1m">>
      [] kind = "depth" -> <<s, "depth20">>
      [] kind = "depth 100ms" -> <<s, "depth20", "100ms">>
      [] OTHER -> <<s, kind>>

NameOf(c) == StreamName(c[1], c[2])

(* The record is changed under the lock, and then the message is sent. *)
Message(method, calls, names) == [method |-> method, calls |-> calls, names |-> names]

AskFor(calls) ==
    LET names == {NameOf(c) : c \in calls}
    IN  /\ bnCall = {} /\ bnCall' = {Message("SUBSCRIBE", calls, names)}
        /\ bnRecord' = bnRecord \cup names
        /\ bnWanted' = bnWanted \cup calls
        /\ UNCHANGED <<bnUp, bnUrl, bnDue, bnCopy, bnCarried, bnExcuse>>

SubscribeTrade(s) == AskFor({<<"trade", s>>})
SubscribeBinanceKline(s) == AskFor({<<"kline", s>>})
SubscribeMiniTicker(s) == AskFor({<<"miniTicker", s>>})
SubscribeTicker(s) == AskFor({<<"ticker", s>>})
SubscribeDepth(s) == \E kind \in {"depth", "depth 100ms"} : AskFor({<<kind, s>>})
SubscribeBookTicker(s) == AskFor({<<"bookTicker", s>>})
SubscribeMarkPrice(s) == AskFor({<<"markPrice", s>>})

(* subscribe_trades_batch, _klines_batch and _depths_batch: one message. *)
SubscribeStreamsBatch ==
    \E kind \in {"trade", "kline", "depth 100ms"} :
        AskFor({<<kind, s>> : s \in BinanceSymbols})

(* The names the subscription thread gives up: a kline's is of another     *)
(* family than the one it asks for, a depth's has no speed.                *)
GivenUpName(kind, s) ==
    CASE kind = "trade" -> <<s, "trade">>
      [] kind = "kline" -> <<s, "kline_1m">>
      [] OTHER -> <<s, "depth20">>

(* Erased by its name, whether there is one or not. *)
GiveUpStream(kind, s) ==
    LET name == GivenUpName(kind, s)
    IN  /\ kind \in {"trade", "kline", "depth"}
        /\ bnCall = {} /\ bnCall' = {Message("UNSUBSCRIBE", {<<kind, s>>}, {name})}
        /\ bnRecord' = bnRecord \ {name}
        /\ bnWanted' = bnWanted \ {<<kind, s>>}
        /\ bnExcuse' = IF name = NameOf(<<kind, s>>) THEN bnExcuse ELSE bnExcuse \cup {<<kind, s>>}
        /\ UNCHANGED <<bnUp, bnUrl, bnDue, bnCopy, bnCarried>>

(* In URL mode nobody asks again for what is asked without a connection;   *)
(* what resubscribe_all has copied it asks for again.                      *)
MessageSent ==
    \E m \in bnCall :
        /\ bnCall' = {}
        /\ \/ /\ m.method = "SUBSCRIBE"
              /\ bnCarried' = IF bnUp THEN bnCarried \cup m.names ELSE bnCarried
              /\ bnExcuse' = IF bnUp THEN bnExcuse \ m.calls
                             ELSE IF bnUrl = {} THEN bnExcuse ELSE bnExcuse \cup m.calls
           \/ /\ m.method = "UNSUBSCRIBE"
              /\ bnCarried' = IF bnUp THEN bnCarried \ m.names ELSE bnCarried
              /\ bnExcuse' = IF bnUp /\ m.names \subseteq bnCopy THEN bnExcuse \cup m.calls
                             ELSE bnExcuse
        /\ UNCHANGED <<bnUp, bnUrl, bnRecord, bnDue, bnCopy, bnWanted>>

StreamsLost ==
    /\ bnUp
    /\ bnUp' = FALSE /\ bnCarried' = {}
    /\ bnExcuse' = IF bnUrl = {} THEN bnExcuse ELSE bnExcuse \cup bnWanted
    /\ UNCHANGED <<bnUrl, bnRecord, bnCall, bnDue, bnCopy, bnWanted>>

StreamsRest == ~ bnDue /\ bnCopy = {}

(* The monitor thread connects with the old URL, and waits for half a second. *)
StreamsBack ==
    /\ ~ bnUp /\ StreamsRest
    /\ bnUp' = TRUE /\ bnDue' = TRUE
    /\ bnCarried' = bnUrl
    /\ UNCHANGED <<bnUrl, bnRecord, bnCall, bnCopy, bnWanted, bnExcuse>>

(* Mutant: only streams in the URL are asked for again. *)
AskedByUrl == bnUrl

(* What resubscribe_all copies under the lock. *)
AskedAgain == IF bnUrl = {} THEN bnRecord ELSE {}

CopiesNames ==
    /\ bnDue /\ bnDue' = FALSE
    /\ bnCopy' = AskedAgain
    /\ UNCHANGED <<bnUp, bnUrl, bnRecord, bnCall, bnCarried, bnWanted, bnExcuse>>

NamesSent ==
    /\ bnCopy # {} /\ bnCopy' = {}
    /\ bnCarried' = IF bnUp THEN bnCarried \cup bnCopy ELSE bnCarried
    /\ UNCHANGED <<bnUp, bnUrl, bnRecord, bnCall, bnDue, bnWanted, bnExcuse>>

BinanceNext ==
    \/ \E s \in BinanceSymbols :
          \/ SubscribeTrade(s) \/ SubscribeBinanceKline(s) \/ SubscribeMiniTicker(s)
          \/ SubscribeTicker(s) \/ SubscribeDepth(s) \/ SubscribeBookTicker(s)
          \/ SubscribeMarkPrice(s)
          \/ \E kind \in Kinds : GiveUpStream(kind, s)
    \/ SubscribeStreamsBatch
    \/ MessageSent
    \/ StreamsLost \/ StreamsBack \/ CopiesNames \/ NamesSent

BinanceSpec == BinanceInit /\ [][BinanceNext]_bnVars

-----------------------------------------------------------------------------
(* When neither its owner nor its monitor is at work, the Binance          *)
(* connection carries what was asked for and not given up, also what was   *)
(* asked for without a connection, and nothing else - but for three        *)
(* things: with streams in its URL only these come back after a drop; a    *)
(* kline that was given up flows on, since the name that is given up is    *)
(* not the name that was asked for; and so does a stream that was given up *)
(* between the copy of resubscribe_all and its message.                    *)
BinanceCarriesWanted ==
    bnUp /\ StreamsRest /\ bnCall = {} =>
        /\ bnUrl \cup {NameOf(c) : c \in bnWanted \ bnExcuse} \subseteq bnCarried
        /\ bnCarried \subseteq bnUrl \cup {NameOf(c) : c \in bnWanted \cup bnExcuse}

=============================================================================
