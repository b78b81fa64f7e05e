------------------------------- MODULE Reconnect -------------------------------
(***************************************************************************)
(* A market-data socket of OKX (okx_websocket.cpp) or Binance              *)
(* (binance_websocket.cpp), the thread that reconnects it, OKX's heartbeat *)
(* thread, and the owner: main, which connects, subscribes and shuts down, *)
(* and for Binance the health check, which replaces a socket that has      *)
(* brought no kline for two minutes (trading_server_main.cpp).             *)
(***************************************************************************)
EXTENDS WsClient

CONSTANTS Venues, Main  \* the exchanges of the instance; the stream main asks for

ASSUME VenueAssumption == Venues \subseteq {"okx", "binance"} /\ Main \in Streams

VARIABLES
    venue,              \* the exchange
    connected,          \* is_connected_
    running,            \* is_running_, which keeps the heartbeat thread going
    need,               \* need_reconnect_
    enabled,            \* reconnect_enabled_
    mon,                \* where the monitor thread is; "none" before it starts
    hb,                 \* the heartbeat thread: none, alive, ended
    owner,              \* where the owner is
    leaving,            \* the server shuts down
    recorded,           \* subscriptions_
    copied,             \* what resubscribe_all has copied of it and not yet sent
    resent,             \* what it has sent and not yet recorded again
    mishaps             \* history: the events after which nothing is promised

flagVars == <<connected, running, need, enabled>>
recordVars == <<recorded, copied, resent>>
vars == <<clientVars, venue, flagVars, mon, hb, owner, leaving, recordVars, mishaps>>

Init ==
    /\ ClientInit
    /\ venue \in Venues
    /\ connected = FALSE /\ running = FALSE /\ need = FALSE /\ enabled = TRUE
    /\ mon = "none" /\ hb = "none"
    /\ owner = "start" /\ leaving = FALSE
    /\ recorded = {} /\ copied = {} /\ resent = {} /\ mishaps = {}

Okx == venue = "okx"
(* Binance's streams are in the URL; OKX's are asked for. *)
UrlStreams == IF Okx THEN {} ELSE {Main}

-----------------------------------------------------------------------------
(* The first connection, by the owner. *)

OwnerHooks ==
    /\ owner = "start"
    /\ SetCallbacks
    /\ owner' = "connect"
    /\ UNCHANGED <<venue, flagVars, mon, hb, leaving, recordVars, mishaps>>

OwnerConnects ==
    /\ owner = "connect"
    /\ \E c \in Conns : BeginConnect(c, UrlStreams)
    /\ owner' = "connecting"
    /\ recorded' = recorded \cup UrlStreams
    /\ UNCHANGED <<hooked, faults, venue, flagVars, mon, hb, leaving, copied, resent, mishaps>>

OwnerConnected(result) ==
    /\ owner = "connecting" /\ (Okx \/ result)
    /\ ConnectReturns(result)
    /\ owner' = IF result THEN "store" ELSE "failed"
    /\ UNCHANGED <<conn, current, up, hooked, carried, silent>>
    /\ UNCHANGED <<venue, flagVars, mon, hb, leaving, recordVars, mishaps>>

(* OKX stores the result in two flags and clears the wish to reconnect,    *)
(* one after the other, whatever a callback has written in between.        *)
OkxStoresConnected ==
    /\ Okx /\ owner = "store"
    /\ connected' = TRUE
    /\ owner' = "storeRunning"
    /\ UNCHANGED <<clientVars, venue, running, need, enabled, mon, hb, leaving, recordVars, mishaps>>

OkxStoresRunning ==
    /\ owner = "storeRunning"
    /\ running' = TRUE
    /\ owner' = "clear"
    /\ UNCHANGED <<clientVars, venue, connected, need, enabled, mon, hb, leaving, recordVars, mishaps>>

(* A callback that came before is forgotten. *)
OkxClearsNeed ==
    /\ owner = "clear"
    /\ need' = FALSE
    /\ mishaps' = IF need THEN mishaps \cup {"drop forgotten"} ELSE mishaps
    /\ hb' = "alive" /\ mon' = "watch"
    /\ owner' = "subscribe"
    /\ UNCHANGED <<clientVars, venue, connected, running, enabled, leaving, recordVars>>

(* send_subscribe records what it could send, after it has sent it. *)
OkxSubscribes ==
    /\ owner = "subscribe"
    /\ IF connected /\ Reaches
         THEN /\ carried' = [carried EXCEPT ![current] = @ \cup {Main}]
              /\ owner' = "record"
              /\ UNCHANGED mishaps
         ELSE /\ owner' = "ready"
              /\ mishaps' = mishaps \cup {"not sent"}
              /\ UNCHANGED carried
    /\ UNCHANGED <<conn, current, up, hooked, silent, faults, venue, flagVars, mon, hb, leaving, recordVars>>

OkxRecords ==
    /\ owner = "record"
    /\ recorded' = recorded \cup {Main}
    /\ owner' = "ready"
    /\ UNCHANGED <<clientVars, venue, flagVars, mon, hb, leaving, copied, resent, mishaps>>

BinanceStoresConnected ==
    /\ ~ Okx /\ owner = "store"
    /\ connected' = TRUE /\ running' = TRUE
    /\ mon' = "watch" /\ owner' = "ready"
    /\ UNCHANGED <<clientVars, venue, need, enabled, hb, leaving, recordVars, mishaps>>

(* The socket is destroyed; the health check will make another. *)
BinanceFailed ==
    /\ ~ Okx /\ owner = "connecting"
    /\ ConnectReturns(FALSE)
    /\ conn' = [c \in Conns |-> "gone"] /\ current' = NoConn
    /\ hooked' = FALSE
    /\ owner' = "failed"
    /\ UNCHANGED <<up, carried, silent, venue, flagVars, mon, hb, leaving, recordVars, mishaps>>

-----------------------------------------------------------------------------
(* The callbacks, in the client's thread. *)

Lost(c) ==
    /\ Closed(c) \/ Failed(c)
    /\ IF hooked
         THEN connected' = FALSE /\ running' = FALSE /\ need' = (need \/ enabled)
         ELSE UNCHANGED <<connected, running, need>>
    /\ UNCHANGED <<venue, enabled, mon, hb, owner, leaving, recordVars, mishaps>>

Network ==
    \E c \in Conns :
        \/ Lost(c)
        \/ (Open(c) \/ GoSilent(c))
             /\ UNCHANGED <<venue, flagVars, mon, hb, owner, leaving, recordVars, mishaps>>

-----------------------------------------------------------------------------
(* The monitor thread. *)

MonitorEnds ==
    /\ mon = "watch" /\ ~ enabled
    /\ mon' = "ended"
    /\ UNCHANGED <<clientVars, venue, flagVars, hb, owner, leaving, recordVars, mishaps>>

NeedSeen ==
    /\ mon = "watch" /\ enabled /\ need
    /\ need' = FALSE
    /\ mon' = "unhook"
    /\ UNCHANGED <<clientVars, venue, connected, running, enabled, hb, owner, leaving, recordVars, mishaps>>

MonitorUnhooks ==
    /\ mon = "unhook"
    /\ ClearCallbacks
    /\ mon' = "hook"
    /\ UNCHANGED <<venue, flagVars, hb, owner, leaving, recordVars, mishaps>>

MonitorHooks ==
    /\ mon = "hook"
    /\ SetCallbacks
    /\ mon' = "connect"
    /\ UNCHANGED <<venue, flagVars, hb, owner, leaving, recordVars, mishaps>>

MonitorConnects ==
    /\ mon = "connect"
    /\ \E c \in Conns : BeginConnect(c, UrlStreams)
    /\ mon' = "connecting"
    /\ UNCHANGED <<hooked, faults, venue, flagVars, hb, owner, leaving, recordVars, mishaps>>

(* Mutant: the result of connect is not looked at. *)
ConnectedUnseen ==
    /\ mon = "connecting"
    /\ \E result \in BOOLEAN : ConnectReturns(result)
    /\ mon' = "store"
    /\ UNCHANGED <<conn, current, up, hooked, carried, silent>>
    /\ UNCHANGED <<venue, flagVars, hb, owner, leaving, recordVars, mishaps>>

MonitorConnected ==
    /\ mon = "connecting"
    /\ ConnectReturns(TRUE)
    /\ mon' = "store"
    /\ UNCHANGED <<conn, current, up, hooked, carried, silent>>
    /\ UNCHANGED <<venue, flagVars, hb, owner, leaving, recordVars, mishaps>>

MonitorStoresConnected ==
    /\ mon = "store"
    /\ connected' = TRUE
    /\ mon' = "join"
    /\ UNCHANGED <<clientVars, venue, running, need, enabled, hb, owner, leaving, recordVars, mishaps>>

(* Mutant: a connect that failed is not tried again. *)
MonitorGivesUp ==
    /\ mon = "connecting"
    /\ ConnectReturns(FALSE)
    /\ mon' = "watch"
    /\ UNCHANGED <<conn, current, up, hooked, carried, silent>>
    /\ UNCHANGED <<venue, flagVars, hb, owner, leaving, recordVars, mishaps>>

MonitorFailed ==
    /\ mon = "connecting"
    /\ ConnectReturns(FALSE)
    /\ need' = TRUE
    /\ mon' = "watch"
    /\ UNCHANGED <<conn, current, up, hooked, carried, silent>>
    /\ UNCHANGED <<venue, connected, running, enabled, hb, owner, leaving, recordVars, mishaps>>

(* Half a second later OKX waits for the old heartbeat thread, which ends  *)
(* when is_running_ is false, and starts a new one.                        *)
SetRunning ==
    /\ mon = "join" /\ hb # "alive"
    /\ running' = TRUE
    /\ hb' = IF Okx THEN "alive" ELSE hb
    /\ mon' = "resubscribe"
    /\ mishaps' = mishaps \cup (IF Okx /\ need THEN {"running again"} ELSE {})
                          \cup (IF Okx /\ ~ enabled THEN {"revived"} ELSE {})
    /\ UNCHANGED <<clientVars, venue, connected, need, enabled, owner, leaving, recordVars>>

(* resubscribe_all copies the record of an OKX socket under its mutex; the *)
(* streams of a Binance socket are in its URL.  What was sent on an older  *)
(* connection and is recorded only after the copy is not asked for again.  *)
CopiesRecord(streams) ==
    /\ mon = "resubscribe"
    /\ copied' = streams
    /\ mon' = "send"
    /\ mishaps' = IF owner = "record" /\ current \in Conns /\ Main \notin carried[current]
                    THEN mishaps \cup {"recorded late"} ELSE mishaps
    /\ UNCHANGED <<clientVars, venue, flagVars, hb, owner, leaving, recorded, resent>>

(* Mutant: only the configured stream is asked for again. *)
ResubscribeMain == CopiesRecord(IF Okx THEN recorded \cap {Main} ELSE {})

ResubscribeCopies == CopiesRecord(IF Okx THEN recorded ELSE {})

(* Without the mutex: the streams of one channel go out in a message, or   *)
(* one does, and are then recorded again.                                  *)
ResubscribeSends ==
    /\ mon = "send" /\ resent = {}
    /\ \E message \in (SUBSET copied) \ {{}} :
          /\ copied' = copied \ message
          /\ IF connected /\ Reaches
               THEN /\ carried' = [carried EXCEPT ![current] = @ \cup message]
                    /\ resent' = message
                    /\ UNCHANGED mishaps
               ELSE /\ mishaps' = IF need THEN mishaps ELSE mishaps \cup {"not sent"}
                    /\ UNCHANGED <<carried, resent>>
    /\ UNCHANGED <<conn, current, up, hooked, silent, faults>>
    /\ UNCHANGED <<venue, flagVars, mon, hb, owner, leaving, recorded>>

ResubscribeRecords ==
    /\ resent # {}
    /\ recorded' = recorded \cup resent
    /\ resent' = {}
    /\ UNCHANGED <<clientVars, venue, flagVars, mon, hb, owner, leaving, copied, mishaps>>

ResubscribeEnds ==
    /\ mon = "send" /\ copied = {} /\ resent = {}
    /\ mon' = "watch"
    /\ UNCHANGED <<clientVars, venue, flagVars, hb, owner, leaving, recordVars, mishaps>>

HeartbeatEnds ==
    /\ hb = "alive" /\ ~ running
    /\ hb' = "ended"
    /\ UNCHANGED <<clientVars, venue, flagVars, mon, owner, leaving, recordVars, mishaps>>

Monitor ==
    \/ MonitorEnds \/ NeedSeen \/ MonitorUnhooks \/ MonitorHooks \/ MonitorConnects
    \/ MonitorConnected \/ MonitorStoresConnected \/ MonitorFailed \/ SetRunning
    \/ ResubscribeCopies \/ ResubscribeSends \/ ResubscribeRecords \/ ResubscribeEnds

-----------------------------------------------------------------------------
(* disconnect, called at shutdown and by the health check. *)

(* Mutant: the monitor is not told to end. *)
DisconnectsEnabled ==
    /\ need' = FALSE /\ running' = FALSE /\ connected' = FALSE
    /\ owner' = "joinMonitor"
    /\ UNCHANGED <<clientVars, venue, enabled, mon, hb, recordVars, mishaps>>

Disconnects ==
    /\ enabled' = FALSE /\ need' = FALSE /\ running' = FALSE /\ connected' = FALSE
    /\ owner' = "joinMonitor"
    /\ UNCHANGED <<clientVars, venue, mon, hb, recordVars, mishaps>>

ShutsDown ==
    /\ owner = "ready"
    /\ leaving' = TRUE
    /\ Disconnects

(* No kline for 120 s; looked at every 30 s. *)
HealthCheck ==
    /\ ~ Okx /\ owner = "ready" /\ ~ Flowing(Main)
    /\ UNCHANGED leaving
    /\ Disconnects

MonitorJoined ==
    /\ owner = "joinMonitor" /\ mon = "ended"
    /\ owner' = "joinHeartbeat"
    /\ UNCHANGED <<clientVars, venue, flagVars, mon, hb, leaving, recordVars, mishaps>>

Destroyed ==
    /\ owner = "joinHeartbeat" /\ hb # "alive"
    /\ Shutdown
    /\ owner' = IF leaving THEN "stopped" ELSE "failed"
    /\ UNCHANGED <<venue, flagVars, mon, hb, leaving, recordVars, mishaps>>

(* The health check makes a new socket. *)
Replaced ==
    /\ ~ Okx /\ owner = "failed" /\ ~ leaving
    /\ Shutdown
    /\ connected' = FALSE /\ running' = FALSE /\ need' = FALSE /\ enabled' = TRUE
    /\ mon' = "none" /\ recorded' = {}
    /\ owner' = "start"
    /\ UNCHANGED <<venue, hb, leaving, copied, resent, mishaps>>

Owner ==
    \/ OwnerHooks \/ OwnerConnects
    \/ \E result \in BOOLEAN : OwnerConnected(result)
    \/ OkxStoresConnected \/ OkxStoresRunning \/ OkxClearsNeed \/ OkxSubscribes \/ OkxRecords
    \/ BinanceStoresConnected \/ BinanceFailed
    \/ HealthCheck \/ MonitorJoined \/ Destroyed \/ Replaced

Next == Network \/ Monitor \/ HeartbeatEnds \/ Owner \/ ShutsDown

(* The threads run on; a handshake or a close that meets no failure ends. *)
Fairness ==
    /\ WF_vars(Monitor) /\ WF_vars(HeartbeatEnds) /\ WF_vars(Owner)
    /\ \A c \in Conns :
          /\ WF_vars(Open(c) /\ UNCHANGED <<venue, flagVars, mon, hb, owner, leaving, recordVars, mishaps>>)
          /\ WF_vars(Lost(c) /\ conn[c] = "closing")

Spec == Init /\ [][Next]_vars /\ Fairness

-----------------------------------------------------------------------------
(* Every variable has its type. *)
TypeOK ==
    /\ conn \in [Conns -> {"gone", "opening", "open", "closing"}]
    /\ current \in Conns \cup {NoConn} /\ up \in BOOLEAN /\ hooked \in BOOLEAN
    /\ carried \in [Conns -> SUBSET Streams]
    /\ silent \subseteq Conns /\ faults \in 0 .. MaxFaults
    /\ venue \in Venues
    /\ connected \in BOOLEAN /\ running \in BOOLEAN /\ need \in BOOLEAN /\ enabled \in BOOLEAN
    /\ mon \in {"none", "watch", "unhook", "hook", "connect", "connecting", "store", "join",
                "resubscribe", "send", "ended"}
    /\ hb \in {"none", "alive", "ended"}
    /\ owner \in {"start", "connect", "connecting", "store", "storeRunning", "clear", "subscribe",
                  "record", "ready", "failed", "joinMonitor", "joinHeartbeat", "stopped"}
    /\ leaving \in BOOLEAN
    /\ recorded \subseteq Streams /\ copied \subseteq Streams /\ resent \subseteq Streams
    /\ mishaps \subseteq {"drop forgotten", "not sent", "recorded late", "running again", "revived"}

(* When the monitor sees nothing to do and the socket says it is           *)
(* connected, a connection is open - or is about to be reported as lost.   *)
StatusTrue ==
    owner = "ready" /\ mon = "watch" /\ connected /\ ~ need =>
        \/ \E c \in Conns : conn[c] = "open"
        \/ "drop forgotten" \in mishaps

(* Whatever drops, late handshakes and silent connections there were, the  *)
(* configured stream flows for good once they are over, unless the server  *)
(* shuts down.  For OKX there are named mishaps after which it may not: a  *)
(* drop during the first connect, a subscription that met no connection or *)
(* was recorded too late for the next one, is_running_ set with a drop     *)
(* pending, and silence, which nobody notices.                             *)
FeedRecovers ==
    \/ <>[] Flowing(Main)
    \/ <> leaving
    \/ <> (Okx /\ (mishaps # {} \/ silent # {} \/ owner = "failed"))

(* disconnect returns: the threads it waits for end, unless OKX's monitor  *)
(* was about to start the heartbeat again.                                 *)
DisconnectReturns ==
    owner = "joinMonitor" ~> owner \in {"stopped", "failed"} \/ "revived" \in mishaps

(* okx_websocket.cpp:254: is_running_ is cleared when a connection is lost *)
(* so that join does not block when reconnecting.                          *)
JoinReturns == mon = "join" ~> mon # "join"

=============================================================================
