------------------------- MODULE Subscriptions_proofs -------------------------
(***************************************************************************)
(* Proofs about Reconnect and Subscriptions, for every value of their      *)
(* constants.                                                              *)
(*                                                                         *)
(* StatusTrue is not inductive: it speaks of the moments at which the      *)
(* monitor rests, and what it says then depends on what happened while the *)
(* monitor worked.  Noticed says the same of every moment between the      *)
(* return of a connect and the next one: a connection is open, or its end  *)
(* has set need_reconnect_, or the one place that overwrites the flag has  *)
(* forgotten it.  It needs that the callbacks are set then (Hooked), that  *)
(* reconnecting is enabled, and that the client is up only with an open    *)
(* connection (UpIsOpen).                                                  *)
(*                                                                         *)
(* WantedIsKept is strengthened by what the subscription thread relies on  *)
(* when it sends nothing: a listed stream has been asked for (ListedKept), *)
(* and a count is at least the number of strategies that want the stream   *)
(* (UsersCounted), so that the user who takes it to zero is the last.      *)
(* AtRestCarried is strengthened to moments at which calls are in hand and *)
(* the monitor asks again: what is carried or about to be asked for again  *)
(* is recorded or about to be (CarriedKnown), on a new connection without  *)
(* exception until the record is copied for it; and after the copy the     *)
(* reverse (KnownCarried).  Most steps touch none of this (QuietRest).     *)
(***************************************************************************)
EXTENDS Subscriptions, FiniteSetTheorems, TLAPS

ConnStates == {"gone", "opening", "open", "closing"}
MonStates == {"none", "watch", "unhook", "hook", "connect", "connecting", "store", "join",
              "resubscribe", "send", "ended"}
OwnerStates == {"start", "connect", "connecting", "store", "storeRunning", "clear", "subscribe",
                "record", "ready", "failed", "joinMonitor", "joinHeartbeat", "stopped"}
Mishaps == {"drop forgotten", "not sent", "recorded late", "running again", "revived"}

-----------------------------------------------------------------------------
(* Types *)

(* The client's variables. *)
ClientTypes ==
    /\ conn \in [Conns -> ConnStates]
    /\ current \in Conns \cup {NoConn} /\ up \in BOOLEAN /\ hooked \in BOOLEAN
    /\ carried \in [Conns -> SUBSET Streams]
    /\ silent \subseteq Conns /\ faults \in 0 .. MaxFaults

(* The flags, the threads and the history. *)
SocketTypes ==
    /\ venue \in Venues
    /\ connected \in BOOLEAN /\ running \in BOOLEAN /\ need \in BOOLEAN /\ enabled \in BOOLEAN
    /\ mon \in MonStates /\ hb \in {"none", "alive", "ended"} /\ owner \in OwnerStates
    /\ leaving \in BOOLEAN /\ mishaps \subseteq Mishaps
    /\ recorded \subseteq Streams /\ copied \subseteq Streams /\ resent \subseteq Streams

LEMMA TypesSplit == TypeOK <=> ClientTypes /\ SocketTypes
  BY DEF TypeOK, ClientTypes, SocketTypes, ConnStates, MonStates, OwnerStates, Mishaps

LEMMA FaultType == faults \in 0 .. MaxFaults /\ Fault => faults' \in 0 .. MaxFaults
  BY ConnAssumption DEF Fault

LEMMA UrlType == UrlStreams \subseteq Streams
  BY VenueAssumption DEF UrlStreams

LEMMA InitTypes == Init => TypeOK
  <1> SUFFICES ASSUME Init PROVE ClientTypes /\ SocketTypes
    BY TypesSplit
  <1>1. ClientTypes
    <2>1. carried \in [Conns -> SUBSET Streams] /\ silent \subseteq Conns
      BY DEF Init, ClientInit
    <2>2. faults \in 0 .. MaxFaults
      BY ConnAssumption DEF Init, ClientInit
    <2>3. conn \in [Conns -> ConnStates] /\ current \in Conns \cup {NoConn} /\ up \in BOOLEAN /\ hooked \in BOOLEAN
      BY DEF Init, ClientInit, ConnStates
    <2>4. QED
      BY <2>1, <2>2, <2>3 DEF ClientTypes
  <1>2. SocketTypes
    BY DEF Init, SocketTypes, MonStates, OwnerStates
  <1>3. QED
    BY <1>1, <1>2

(* What the client's operations leave. *)
LEMMA BeginConnectType ==
  ASSUME ClientTypes, NEW c \in Conns, NEW S \in SUBSET Streams, BeginConnect(c, S),
         UNCHANGED <<hooked, faults>>
  PROVE  ClientTypes'
  BY DEF ClientTypes, BeginConnect, ConnStates

LEMMA ConnectReturnsType ==
  ASSUME ClientTypes, NEW result, ConnectReturns(result)
  PROVE  faults' \in 0 .. MaxFaults
  BY FaultType DEF ClientTypes, ConnectReturns

LEMMA HandlerType ==
  ASSUME ClientTypes, NEW c \in Conns, Closed(c) \/ Failed(c)
  PROVE  /\ ClientTypes'
         /\ conn' = [conn EXCEPT ![c] = "gone"] /\ up' = FALSE /\ current' = NoConn
         /\ UNCHANGED <<hooked, carried, silent>>
  BY FaultType DEF ClientTypes, Closed, Failed, HandlerRuns, ConnStates

LEMMA OpenType ==
  ASSUME ClientTypes, NEW c \in Conns, Open(c) \/ GoSilent(c)
  PROVE  ClientTypes'
  BY FaultType DEF ClientTypes, Open, GoSilent, ConnStates

LEMMA ShutdownType == ClientTypes /\ Shutdown => ClientTypes'
  BY DEF ClientTypes, Shutdown, ConnStates

LEMMA SetCallbacksType == ClientTypes /\ (SetCallbacks \/ ClearCallbacks) => ClientTypes'
  BY DEF ClientTypes, SetCallbacks, ClearCallbacks

LEMMA CarriedType ==
  ASSUME ClientTypes, NEW S \in SUBSET Streams,
         carried' = [carried EXCEPT ![current] = @ \cup S],
         UNCHANGED <<conn, current, up, hooked, silent, faults>>
  PROVE  ClientTypes'
  BY DEF ClientTypes

LEMMA NetworkTypes == TypeOK /\ Network => TypeOK'
  <1> SUFFICES ASSUME TypeOK, NEW c \in Conns,
                      \/ Lost(c)
                      \/ (Open(c) \/ GoSilent(c))
                           /\ UNCHANGED <<venue, flagVars, mon, hb, owner, leaving, recordVars, mishaps>>
               PROVE  TypeOK'
    BY DEF Network
  <1>0. ClientTypes /\ SocketTypes
    BY TypesSplit
  <1>1. CASE Lost(c)
    <2>1. ClientTypes'
      BY <1>0, <1>1, HandlerType DEF Lost
    <2>2. SocketTypes'
      BY <1>0, <1>1 DEF SocketTypes, Lost, recordVars
    <2>3. QED
      BY <2>1, <2>2, TypesSplit DEF TypeOK, ClientTypes, SocketTypes, ConnStates, MonStates, OwnerStates, Mishaps
  <1>2. CASE (Open(c) \/ GoSilent(c))
               /\ UNCHANGED <<venue, flagVars, mon, hb, owner, leaving, recordVars, mishaps>>
    <2>1. ClientTypes'
      BY <1>0, <1>2, OpenType
    <2>2. SocketTypes'
      BY <1>0, <1>2 DEF SocketTypes, flagVars, recordVars
    <2>3. QED
      BY <2>1, <2>2 DEF TypeOK, ClientTypes, SocketTypes, ConnStates, MonStates, OwnerStates, Mishaps
  <1>3. QED
    BY <1>1, <1>2

LEMMA MonitorTypes == TypeOK /\ Monitor => TypeOK'
  <1> SUFFICES ASSUME TypeOK, Monitor PROVE ClientTypes' /\ SocketTypes'
    BY DEF TypeOK, ClientTypes, SocketTypes, ConnStates, MonStates, OwnerStates, Mishaps
  <1>0. ClientTypes /\ SocketTypes
    BY TypesSplit
  <1> USE DEF flagVars, recordVars, clientVars
  <1>1. CASE MonitorEnds \/ NeedSeen \/ MonitorStoresConnected
    BY <1>0, <1>1 DEF MonitorEnds, NeedSeen, MonitorStoresConnected, ClientTypes, SocketTypes, MonStates
  <1>2. CASE MonitorUnhooks \/ MonitorHooks
    <2>1. ClientTypes'
      BY <1>0, <1>2, SetCallbacksType DEF MonitorUnhooks, MonitorHooks
    <2>2. SocketTypes'
      BY <1>0, <1>2 DEF MonitorUnhooks, MonitorHooks, SocketTypes, MonStates
    <2>3. QED
      BY <2>1, <2>2
  <1>3. CASE MonitorConnects
    <2>1. ClientTypes'
      BY <1>0, <1>3, UrlType, BeginConnectType DEF MonitorConnects
    <2>2. SocketTypes'
      BY <1>0, <1>3 DEF MonitorConnects, SocketTypes, MonStates
    <2>3. QED
      BY <2>1, <2>2
  <1>4. CASE MonitorConnected \/ MonitorFailed
    <2>1. faults' \in 0 .. MaxFaults
      BY <1>0, <1>4, ConnectReturnsType DEF MonitorConnected, MonitorFailed
    <2>2. QED
      BY <1>0, <1>4, <2>1 DEF MonitorConnected, MonitorFailed, ClientTypes, SocketTypes, MonStates
  <1>5. CASE SetRunning
    BY <1>0, <1>5 DEF SetRunning, ClientTypes, SocketTypes, MonStates, Mishaps
  <1>6. CASE ResubscribeCopies \/ ResubscribeSends \/ ResubscribeRecords \/ ResubscribeEnds
    <2>1. CASE ResubscribeCopies
      BY <1>0, <2>1 DEF ResubscribeCopies, CopiesRecord, ClientTypes, SocketTypes, MonStates, Mishaps
    <2>2. CASE ResubscribeSends
      <3>1. PICK message \in SUBSET Streams :
               /\ copied' = copied \ message
               /\ carried' \in {carried, [carried EXCEPT ![current] = @ \cup message]}
               /\ resent' \in {resent, message} /\ mishaps' \in {mishaps, mishaps \cup {"not sent"}}
        BY <1>0, <2>2 DEF ResubscribeSends, SocketTypes
      <3>2. ClientTypes'
        BY <1>0, <2>2, <3>1, CarriedType DEF ResubscribeSends, ClientTypes
      <3>3. SocketTypes'
        BY <1>0, <2>2, <3>1 DEF ResubscribeSends, SocketTypes, Mishaps
      <3>4. QED
        BY <3>2, <3>3
    <2>3. CASE ResubscribeRecords \/ ResubscribeEnds
      BY <1>0, <2>3 DEF ResubscribeRecords, ResubscribeEnds, ClientTypes, SocketTypes, MonStates
    <2>4. QED
      BY <1>6, <2>1, <2>2, <2>3
  <1>7. QED
    BY <1>1, <1>2, <1>3, <1>4, <1>5, <1>6 DEF Monitor

LEMMA OwnerTypes == TypeOK /\ (Owner \/ ShutsDown \/ HeartbeatEnds) => TypeOK'
  <1> SUFFICES ASSUME TypeOK, Owner \/ ShutsDown \/ HeartbeatEnds PROVE ClientTypes' /\ SocketTypes'
    BY DEF TypeOK, ClientTypes, SocketTypes, ConnStates, MonStates, OwnerStates, Mishaps
  <1>0. ClientTypes /\ SocketTypes
    BY TypesSplit
  <1> USE DEF flagVars, recordVars, clientVars
  <1>1. CASE OwnerHooks
    BY <1>0, <1>1, SetCallbacksType DEF OwnerHooks, SocketTypes, OwnerStates
  <1>2. CASE OwnerConnects
    <2>1. ClientTypes'
      BY <1>0, <1>2, UrlType, BeginConnectType DEF OwnerConnects
    <2>2. SocketTypes'
      BY <1>0, <1>2, UrlType DEF OwnerConnects, SocketTypes, OwnerStates
    <2>3. QED
      BY <2>1, <2>2
  <1>3. ASSUME NEW result \in BOOLEAN, OwnerConnected(result) PROVE ClientTypes' /\ SocketTypes'
    <2>1. faults' \in 0 .. MaxFaults
      BY <1>0, <1>3, ConnectReturnsType DEF OwnerConnected
    <2>2. QED
      BY <1>0, <1>3, <2>1 DEF OwnerConnected, ClientTypes, SocketTypes, OwnerStates
  <1>4. CASE OkxStoresConnected \/ OkxStoresRunning \/ BinanceStoresConnected \/ HeartbeatEnds
    <2>1. ClientTypes'
      BY <1>0, <1>4 DEF OkxStoresConnected, OkxStoresRunning, BinanceStoresConnected, HeartbeatEnds,
                        ClientTypes
    <2>2. CASE OkxStoresConnected \/ OkxStoresRunning
      BY <1>0, <2>1, <2>2 DEF OkxStoresConnected, OkxStoresRunning, SocketTypes, OwnerStates
    <2>3. CASE BinanceStoresConnected \/ HeartbeatEnds
      BY <1>0, <2>1, <2>3 DEF BinanceStoresConnected, HeartbeatEnds, SocketTypes, OwnerStates, MonStates
    <2>4. QED
      BY <1>4, <2>2, <2>3
  <1>5. CASE OkxClearsNeed
    BY <1>0, <1>5 DEF OkxClearsNeed, ClientTypes, SocketTypes, OwnerStates, MonStates, Mishaps
  <1>6. CASE OkxSubscribes
    <2>1. Main \in Streams
      BY VenueAssumption
    <2>2. ClientTypes'
      <3>1. CASE connected /\ Reaches
        <4>1. {Main} \in SUBSET Streams /\ carried' = [carried EXCEPT ![current] = @ \cup {Main}]
          BY <1>6, <2>1, <3>1 DEF OkxSubscribes
        <4>2. QED
          BY <1>0, <1>6, <4>1, CarriedType DEF OkxSubscribes
      <3>2. CASE ~ (connected /\ Reaches)
        BY <1>0, <1>6, <3>2 DEF OkxSubscribes, ClientTypes
      <3>3. QED
        BY <3>1, <3>2
    <2>3. SocketTypes'
      BY <1>0, <1>6, <2>1 DEF OkxSubscribes, SocketTypes, OwnerStates, Mishaps
    <2>4. QED
      BY <2>2, <2>3
  <1>7. CASE BinanceFailed
    <2>1. faults' \in 0 .. MaxFaults
      BY <1>0, <1>7, ConnectReturnsType DEF BinanceFailed
    <2>2. QED
      BY <1>0, <1>7, <2>1 DEF BinanceFailed, ClientTypes, SocketTypes, OwnerStates, ConnStates
  <1>8. CASE HealthCheck \/ ShutsDown
    BY <1>0, <1>8 DEF HealthCheck, ShutsDown, Disconnects, ClientTypes, SocketTypes, OwnerStates
  <1>9. CASE MonitorJoined
    BY <1>0, <1>9 DEF MonitorJoined, ClientTypes, SocketTypes, OwnerStates
  <1>10. CASE Destroyed \/ Replaced
    <2>1. ClientTypes'
      BY <1>0, <1>10, ShutdownType DEF Destroyed, Replaced
    <2>2. SocketTypes'
      BY <1>0, <1>10 DEF Destroyed, Replaced, SocketTypes, OwnerStates, MonStates
    <2>3. QED
      BY <2>1, <2>2
  <1>11. CASE OkxRecords
    BY <1>0, <1>11, VenueAssumption DEF OkxRecords, ClientTypes, SocketTypes, OwnerStates
  <1>12. QED
    BY <1>1, <1>2, <1>3, <1>4, <1>5, <1>6, <1>7, <1>8, <1>9, <1>10, <1>11 DEF Owner

LEMMA NextTypes == TypeOK /\ [Next]_vars => TypeOK'
  <1>1. TypeOK /\ UNCHANGED vars => TypeOK'
    <2> SUFFICES ASSUME TypeOK, UNCHANGED vars PROVE ClientTypes' /\ SocketTypes'
      BY DEF TypeOK, ClientTypes, SocketTypes, ConnStates, MonStates, OwnerStates, Mishaps
    <2>1. ClientTypes /\ SocketTypes
      BY TypesSplit
    <2>2. ClientTypes'
      BY <2>1 DEF vars, clientVars, ClientTypes
    <2>3. SocketTypes'
      BY <2>1 DEF vars, flagVars, recordVars, SocketTypes
    <2>4. QED
      BY <2>2, <2>3
  <1>2. QED
    BY <1>1, NetworkTypes, MonitorTypes, OwnerTypes DEF Next

(* Every variable of the socket keeps its type (okx_websocket.cpp,         *)
(* binance_websocket.cpp, ws_client.cpp).                                  *)
THEOREM TypeCorrect == Spec => []TypeOK
  BY InitTypes, NextTypes, PTL DEF Spec

-----------------------------------------------------------------------------
(* StatusTrue *)

IsOpen == \E c \in Conns : conn[c] = "open"

(* The client is up only with an open connection, not always the one it    *)
(* points to.                                                              *)
UpIsOpen == up => IsOpen

(* The owner before its first connect has returned, and until it closes.   *)
Early == owner \in {"start", "connect", "connecting", "store", "storeRunning", "clear"}
InUse == owner \in {"connect", "connecting", "store", "storeRunning", "clear", "subscribe", "record", "ready"}
Linked == owner \in {"store", "storeRunning", "clear", "subscribe", "record", "ready"}

(* The monitor does not run before the owner has started it. *)
NoMonitor == Early => mon = "none"

(* While the socket is in use reconnecting is enabled and the callbacks    *)
(* are set, but for the moment between clear_callbacks and their return.   *)
Hooked ==
    /\ owner = "start" => enabled
    /\ InUse => enabled /\ (mon # "hook" => hooked)

(* Between the return of a connect and the next one a lost connection is   *)
(* noticed.                                                                *)
Noticed ==
    Linked /\ mon \in {"none", "watch", "store", "join", "resubscribe", "send"} =>
        need \/ IsOpen \/ "drop forgotten" \in mishaps

StatusInv == UpIsOpen /\ NoMonitor /\ Hooked /\ Noticed

LEMMA InitStatus == Init => StatusInv
  BY DEF Init, ClientInit, StatusInv, UpIsOpen, NoMonitor, Hooked, Noticed, Early, InUse, Linked

LEMMA NetworkStatus == TypeOK /\ StatusInv /\ Network => StatusInv'
  <1> SUFFICES ASSUME TypeOK, StatusInv, NEW c \in Conns,
                      \/ Lost(c)
                      \/ (Open(c) \/ GoSilent(c))
                           /\ UNCHANGED <<venue, flagVars, mon, hb, owner, leaving, recordVars, mishaps>>
               PROVE  StatusInv'
    BY DEF Network
  <1>0. conn \in [Conns -> ConnStates] /\ ClientTypes /\ need \in BOOLEAN /\ enabled \in BOOLEAN
    BY DEF TypeOK, ClientTypes, ConnStates
  <1>1. CASE Lost(c)
    <2>1. ~ up' /\ hooked' = hooked
      BY <1>0, <1>1, HandlerType DEF Lost
    <2>2. CASE hooked
      BY <1>0, <1>1, <2>1, <2>2 DEF Lost, StatusInv, UpIsOpen, NoMonitor, Hooked, Noticed, Early, InUse, Linked
    <2>3. CASE ~ hooked
      BY <1>0, <1>1, <2>1, <2>3 DEF Lost, StatusInv, UpIsOpen, NoMonitor, Hooked, Noticed, Early, InUse, Linked
    <2>4. QED
      BY <2>2, <2>3
  <1>2. CASE (Open(c) \/ GoSilent(c))
               /\ UNCHANGED <<venue, flagVars, mon, hb, owner, leaving, recordVars, mishaps>>
    <2>1. (IsOpen => IsOpen') /\ (up' => IsOpen') /\ hooked' = hooked
      BY <1>0, <1>2 DEF Open, GoSilent, IsOpen, StatusInv, UpIsOpen
    <2>2. QED
      BY <1>2, <2>1 DEF flagVars, recordVars, StatusInv, UpIsOpen, NoMonitor, Hooked, Noticed, Early, InUse, Linked
  <1>3. QED
    BY <1>1, <1>2

LEMMA MonitorStatus == TypeOK /\ StatusInv /\ Monitor => StatusInv'
  <1> SUFFICES ASSUME TypeOK, StatusInv, Monitor PROVE StatusInv'
    OBVIOUS
  <1>0. /\ conn' = conn => (IsOpen' <=> IsOpen)
        /\ need \in BOOLEAN /\ enabled \in BOOLEAN /\ hooked \in BOOLEAN /\ up \in BOOLEAN
    BY DEF IsOpen, TypeOK
  <1> USE DEF StatusInv, UpIsOpen, NoMonitor, Hooked, Noticed, Early, InUse, Linked, flagVars, recordVars, clientVars
  <1>1. CASE MonitorEnds \/ NeedSeen \/ MonitorStoresConnected
    <2>1. CASE MonitorEnds
      BY <1>0, <2>1 DEF MonitorEnds
    <2>2. CASE NeedSeen
      BY <1>0, <2>2 DEF NeedSeen
    <2>3. CASE MonitorStoresConnected
      BY <1>0, <2>3 DEF MonitorStoresConnected
    <2>4. QED
      BY <1>1, <2>1, <2>2, <2>3
  <1>2. CASE MonitorUnhooks \/ MonitorHooks
    <2>1. CASE MonitorUnhooks
      BY <1>0, <2>1 DEF MonitorUnhooks, ClearCallbacks
    <2>2. CASE MonitorHooks
      BY <1>0, <2>2 DEF MonitorHooks, SetCallbacks
    <2>3. QED
      BY <1>2, <2>1, <2>2
  <1>3. CASE MonitorConnects
    BY <1>3 DEF MonitorConnects, BeginConnect
  <1>4. CASE MonitorConnected \/ MonitorFailed
    <2>1. CASE MonitorConnected
      BY <1>0, <2>1 DEF MonitorConnected, ConnectReturns
    <2>2. CASE MonitorFailed
      BY <1>0, <2>2 DEF MonitorFailed, ConnectReturns
    <2>3. QED
      BY <1>4, <2>1, <2>2
  <1>5. CASE SetRunning
    BY <1>0, <1>5 DEF SetRunning
  <1>6. CASE ResubscribeCopies \/ ResubscribeSends
    <2>1. CASE ResubscribeCopies
      BY <1>0, <2>1 DEF ResubscribeCopies, CopiesRecord
    <2>2. CASE ResubscribeSends
      BY <1>0, <2>2 DEF ResubscribeSends
    <2>3. QED
      BY <1>6, <2>1, <2>2
  <1>7. CASE ResubscribeRecords \/ ResubscribeEnds
    <2>1. CASE ResubscribeRecords
      BY <1>0, <2>1 DEF ResubscribeRecords
    <2>2. CASE ResubscribeEnds
      BY <1>0, <2>2 DEF ResubscribeEnds
    <2>3. QED
      BY <1>7, <2>1, <2>2
  <1>8. QED
    BY <1>1, <1>2, <1>3, <1>4, <1>5, <1>6, <1>7 DEF Monitor

LEMMA OwnerStatus == TypeOK /\ StatusInv /\ (Owner \/ ShutsDown \/ HeartbeatEnds) => StatusInv'
  <1> SUFFICES ASSUME TypeOK, StatusInv, Owner \/ ShutsDown \/ HeartbeatEnds PROVE StatusInv'
    OBVIOUS
  <1>0. /\ conn' = conn => (IsOpen' <=> IsOpen)
        /\ need \in BOOLEAN /\ enabled \in BOOLEAN /\ hooked \in BOOLEAN /\ up \in BOOLEAN
    BY DEF IsOpen, TypeOK
  <1> USE DEF StatusInv, UpIsOpen, NoMonitor, Hooked, Noticed, Early, InUse, Linked, flagVars, recordVars, clientVars
  <1>1. CASE OwnerHooks
    BY <1>0, <1>1 DEF OwnerHooks, SetCallbacks
  <1>2. CASE OwnerConnects
    BY <1>2 DEF OwnerConnects, BeginConnect
  <1>3. ASSUME NEW result \in BOOLEAN, OwnerConnected(result) PROVE StatusInv'
    BY <1>0, <1>3 DEF OwnerConnected, ConnectReturns
  <1>4. CASE OkxStoresConnected \/ OkxStoresRunning \/ OkxClearsNeed
    <2>1. CASE OkxStoresConnected
      BY <1>0, <2>1 DEF OkxStoresConnected
    <2>2. CASE OkxStoresRunning
      BY <1>0, <2>2 DEF OkxStoresRunning
    <2>3. CASE OkxClearsNeed
      BY <1>0, <2>3 DEF OkxClearsNeed
    <2>4. QED
      BY <1>4, <2>1, <2>2, <2>3
  <1>5. CASE OkxSubscribes \/ OkxRecords
    <2>1. CASE OkxSubscribes
      BY <1>0, <2>1 DEF OkxSubscribes
    <2>2. CASE OkxRecords
      BY <1>0, <2>2 DEF OkxRecords
    <2>3. QED
      BY <1>5, <2>1, <2>2
  <1>6. CASE BinanceStoresConnected \/ BinanceFailed
    <2>1. CASE BinanceStoresConnected
      BY <1>0, <2>1 DEF BinanceStoresConnected
    <2>2. CASE BinanceFailed
      BY <1>0, <2>2 DEF BinanceFailed, ConnectReturns
    <2>3. QED
      BY <1>6, <2>1, <2>2
  <1>7. CASE HealthCheck \/ ShutsDown \/ MonitorJoined
    <2>1. CASE HealthCheck
      BY <1>0, <2>1 DEF HealthCheck, Disconnects
    <2>2. CASE ShutsDown
      BY <1>0, <2>2 DEF ShutsDown, Disconnects
    <2>3. CASE MonitorJoined
      BY <1>0, <2>3 DEF MonitorJoined
    <2>4. QED
      BY <1>7, <2>1, <2>2, <2>3
  <1>8. CASE Destroyed \/ Replaced
    <2>1. CASE Destroyed
      BY <1>0, <2>1 DEF Destroyed, Shutdown
    <2>2. CASE Replaced
      BY <1>0, <2>2 DEF Replaced, Shutdown
    <2>3. QED
      BY <1>8, <2>1, <2>2
  <1>9. CASE HeartbeatEnds
    BY <1>0, <1>9 DEF HeartbeatEnds
  <1>10. QED
    BY <1>1, <1>2, <1>3, <1>4, <1>5, <1>6, <1>7, <1>8, <1>9 DEF Owner

LEMMA NextStatus == TypeOK /\ StatusInv /\ [Next]_vars => StatusInv'
  <1>1. StatusInv /\ UNCHANGED vars => StatusInv'
    <2> SUFFICES ASSUME StatusInv, UNCHANGED vars PROVE StatusInv'
      OBVIOUS
    <2> USE DEF vars, clientVars, flagVars, recordVars
    <2>1. IsOpen' <=> IsOpen
      BY DEF IsOpen
    <2>2. UpIsOpen' /\ NoMonitor'
      BY <2>1 DEF StatusInv, UpIsOpen, NoMonitor, Early
    <2>3. Hooked'
      BY DEF StatusInv, Hooked, InUse
    <2>4. Noticed'
      BY <2>1 DEF StatusInv, Noticed, Linked
    <2>5. QED
      BY <2>2, <2>3, <2>4 DEF StatusInv
  <1>2. QED
    BY <1>1, NetworkStatus, MonitorStatus, OwnerStatus DEF Next

(* is_connected_ means what it says: when the reconnect monitor sees       *)
(* nothing to do, a connection is open, or a drop during OKX's first       *)
(* connect was overwritten - after any number of drops, late handshakes    *)
(* and failed attempts, on any number of connections.                      *)
THEOREM StatusCorrect == Spec => []StatusTrue
  <1>1. StatusInv => StatusTrue
    BY DEF StatusInv, Noticed, Linked, IsOpen, StatusTrue
  <1>2. QED
    BY <1>1, InitTypes, NextTypes, InitStatus, NextStatus, PTL DEF Spec

-----------------------------------------------------------------------------
(* Subscriptions *)

(* The thread's own variables. *)
OwnTypes ==
    /\ wants \in [Strategies -> SUBSET Streams]
    /\ listed \subseteq Streams /\ unsent \subseteq Streams /\ taken \subseteq Streams
    /\ users \in [Streams -> 0 .. MaxUsers]
    /\ inHand \in [does : {"nothing", "record", "erase"}, stream : Streams] /\ crossed \subseteq Streams

LEMMA SubTypesSplit == SubTypeOK <=> ClientTypes /\ SocketTypes /\ OwnTypes
  BY TypesSplit DEF SubTypeOK, OwnTypes

LEMMA SubTypesPrimed == ClientTypes' /\ SocketTypes' /\ OwnTypes' => SubTypeOK'
  BY DEF SubTypeOK, OwnTypes, TypeOK, ClientTypes, SocketTypes, ConnStates, MonStates, OwnerStates, Mishaps

(* What a request sends, and what it leaves. *)
LEMMA SendSubscribeFacts ==
  ASSUME ClientTypes, SocketTypes, OwnTypes, NEW x \in Streams, SendSubscribe(x)
  PROVE  /\ carried' \in [Conns -> SUBSET Streams] /\ unsent' \subseteq Streams /\ crossed' \subseteq Streams
         /\ inHand' \in [does : {"nothing", "record", "erase"}, stream : Streams]
         /\ unsent \cup {x} \subseteq Recording' \cup unsent'
         /\ inHand' = inHand \/ Erasing' = {}
  BY DEF SendSubscribe, ClientTypes, SocketTypes, OwnTypes, Recording, Erasing

LEMMA SendUnsubscribeFacts ==
  ASSUME ClientTypes, SocketTypes, OwnTypes, NEW x \in Streams, SendUnsubscribe(x)
  PROVE  /\ carried' \in [Conns -> SUBSET Streams] /\ unsent' \subseteq Streams /\ crossed' \subseteq Streams
         /\ inHand' \in [does : {"nothing", "record", "erase"}, stream : Streams]
         /\ unsent' = unsent /\ (inHand' = inHand \/ Erasing' = {x})
  BY DEF SendUnsubscribe, ClientTypes, SocketTypes, OwnTypes, Erasing

LEMMA SendsNothingFacts ==
  ASSUME ClientTypes, SocketTypes, OwnTypes, SendsNothing
  PROVE  /\ carried' \in [Conns -> SUBSET Streams] /\ unsent' \subseteq Streams /\ crossed' \subseteq Streams
         /\ inHand' \in [does : {"nothing", "record", "erase"}, stream : Streams]
         /\ inHand' = inHand /\ unsent' = unsent
  BY DEF SendsNothing, ClientTypes, SocketTypes, OwnTypes

(* A request of one strategy about one stream. *)
Request(s, x) ==
    SubscribeKline(s, x) \/ UnsubscribeKline(s, x) \/ SubscribeOther(s, x) \/ UnsubscribeOther(s, x)

ThreadLeaves ==
    /\ UNCHANGED <<conn, current, up, hooked, silent, faults>>
    /\ UNCHANGED <<venue, flagVars, mon, hb, owner, leaving, recordVars, mishaps>>

LEMMA RequestTypes ==
  ASSUME ClientTypes, SocketTypes, OwnTypes, NEW s \in Strategies, NEW x \in Streams, Request(s, x)
  PROVE  carried' \in [Conns -> SUBSET Streams] /\ OwnTypes'
  <1>0. MaxUsers \in Nat \ {0, 1}
    BY CountedAssumption
  <1>1. CASE SubscribeKline(s, x)
    BY <1>0, <1>1, SendSubscribeFacts, SendsNothingFacts DEF SubscribeKline, Ask, OwnTypes
  <1>2. CASE UnsubscribeKline(s, x)
    BY <1>0, <1>2, SendUnsubscribeFacts, SendsNothingFacts DEF UnsubscribeKline, GiveUp, OwnTypes
  <1>3. CASE SubscribeOther(s, x)
    BY <1>3, SendSubscribeFacts, SendsNothingFacts DEF SubscribeOther, Ask, OwnTypes
  <1>4. CASE UnsubscribeOther(s, x)
    BY <1>4, SendUnsubscribeFacts, SendsNothingFacts DEF UnsubscribeOther, GiveUp, OwnTypes
  <1>5. QED
    BY <1>1, <1>2, <1>3, <1>4 DEF Request

(* What a step of the socket's threads leaves of the thread's variables. *)
SocketLeaves == UNCHANGED <<requestVars, inHand>> /\ (Crossing \/ UNCHANGED <<mon, crossed>>)

LEMMA SubStep ==
  ASSUME [SubNext]_<<vars, subVars>>
  PROVE  ([Next]_vars /\ SocketLeaves) \/ SubscriptionThread \/ CallEnds
  <1>1. CASE UNCHANGED <<vars, subVars>>
    BY <1>1 DEF SocketLeaves, subVars, vars
  <1>2. CASE SubNext
    BY <1>2 DEF SubNext, SocketLeaves
  <1>3. QED
    BY <1>1, <1>2

LEMMA CallEndsFacts ==
  ASSUME CallEnds
  PROVE  /\ recorded' = (recorded \cup Recording) \ Erasing /\ inHand' = NoCall
         /\ Recording' = {} /\ Erasing' = {}
         /\ UNCHANGED <<clientVars, venue, flagVars, mon, hb, owner, leaving, copied, resent, mishaps>>
         /\ UNCHANGED <<requestVars, crossed>>
  BY DEF CallEnds, NoCall, Recording, Erasing

LEMMA NextSubTypes == SubTypeOK /\ [SubNext]_<<vars, subVars>> => SubTypeOK'
  <1> SUFFICES ASSUME SubTypeOK, [SubNext]_<<vars, subVars>>
               PROVE  SubTypeOK'
    OBVIOUS
  <1>0. TypeOK /\ ClientTypes /\ SocketTypes /\ OwnTypes
    BY SubTypesSplit DEF SubTypeOK
  <1>1. CASE [Next]_vars /\ SocketLeaves
    <2>1. TypeOK'
      BY <1>0, <1>1, NextTypes
    <2>2. OwnTypes'
      BY <1>0, <1>1 DEF SocketLeaves, Crossing, Recording, Erasing, requestVars, OwnTypes
    <2>3. QED
      BY <2>1, <2>2 DEF SubTypeOK, OwnTypes
  <1>2. CASE SubscriptionThread
    <2>1. carried' \in [Conns -> SUBSET Streams] /\ OwnTypes'
      <3>1. ASSUME NEW s \in Strategies, StrategyDies(s)
            PROVE  carried' \in [Conns -> SUBSET Streams] /\ OwnTypes'
        BY <1>0, <3>1 DEF StrategyDies, OwnTypes, ClientTypes, SocketTypes
      <3>2. QED
        BY <1>0, <1>2, <3>1, RequestTypes DEF SubscriptionThread, Request
    <2>2. ThreadLeaves
      BY <1>2 DEF SubscriptionThread, ThreadLeaves
    <2>3. ClientTypes'
      BY <1>0, <2>1, <2>2 DEF ThreadLeaves, ClientTypes
    <2>4. SocketTypes'
      BY <1>0, <2>1, <2>2 DEF ThreadLeaves, flagVars, recordVars, SocketTypes
    <2>5. QED
      BY <2>1, <2>3, <2>4, SubTypesPrimed
  <1>3. CASE CallEnds
    <2>1. ClientTypes'
      BY <1>0, <1>3 DEF CallEnds, clientVars, ClientTypes
    <2>2. recorded' \subseteq Streams
      BY <1>0, <1>3 DEF CallEnds, Recording, SocketTypes, OwnTypes
    <2>3. SocketTypes'
      BY <1>0, <1>3, <2>2 DEF CallEnds, flagVars, SocketTypes
    <2>4. OwnTypes'
      BY <1>0, <1>3, VenueAssumption DEF CallEnds, NoCall, requestVars, OwnTypes
    <2>5. QED
      BY <2>1, <2>3, <2>4, SubTypesPrimed
  <1>4. QED
    BY <1>1, <1>2, <1>3, SubStep

LEMMA InitSubTypes == SubInit => SubTypeOK
  <1>1. SubInit => OwnTypes
    BY CountedAssumption, VenueAssumption DEF SubInit, OwnTypes, NoCall
  <1>2. QED
    BY <1>1, InitTypes DEF SubInit, SubTypeOK, OwnTypes

(* Every variable of the subscriptions has its type; in particular no      *)
(* count of g_okx_kline_ref_count falls below zero (subscription_manager). *)
THEOREM SubTypeCorrect == SubSpec => []SubTypeOK
  BY InitSubTypes, NextSubTypes, PTL DEF SubSpec

-----------------------------------------------------------------------------
(* WantedIsKept *)

Serving == {"ready", "joinMonitor", "joinHeartbeat"}
Served == Serving \cup {"stopped", "failed"}

(* What the socket's own threads do to the record: OKX's only grows. *)
LEMMA BaseStep ==
  ASSUME SocketTypes, NoMonitor, [Next]_vars
  PROVE  /\ venue' = venue /\ mishaps \subseteq mishaps'
         /\ Okx => recorded \subseteq recorded'
         /\ Okx /\ owner \in Served => owner' \in Served
         /\ Okx /\ owner' \in Serving =>
              \/ owner \in Serving
              \/ owner \notin Served /\ (Main \in recorded' \/ "not sent" \in mishaps')
  <1> USE DEF flagVars, recordVars, clientVars, Okx, Serving, Served
  <1>1. CASE Network
    BY <1>1 DEF Network, Lost
  <1>2. CASE Monitor \/ HeartbeatEnds
    BY <1>2 DEF Monitor, MonitorEnds, NeedSeen, MonitorUnhooks, MonitorHooks, MonitorConnects,
                MonitorConnected, MonitorStoresConnected, MonitorFailed, SetRunning, ResubscribeCopies,
                CopiesRecord, ResubscribeSends, ResubscribeRecords, ResubscribeEnds, HeartbeatEnds
  <1>3. CASE Owner \/ ShutsDown
    <2>1. CASE OwnerHooks \/ OwnerConnects \/ \E result \in BOOLEAN : OwnerConnected(result)
      BY <2>1 DEF OwnerHooks, OwnerConnects, OwnerConnected, UrlStreams
    <2>2. CASE OkxStoresConnected \/ OkxStoresRunning \/ OkxClearsNeed \/ OkxSubscribes \/ OkxRecords
      BY <2>2 DEF OkxStoresConnected, OkxStoresRunning, OkxClearsNeed, OkxSubscribes, OkxRecords
    <2>3. CASE BinanceStoresConnected \/ BinanceFailed
      BY <2>3 DEF BinanceStoresConnected, BinanceFailed
    <2>4. CASE HealthCheck \/ ShutsDown \/ MonitorJoined \/ Destroyed \/ Replaced
      BY <2>4 DEF HealthCheck, ShutsDown, Disconnects, MonitorJoined, Destroyed, Replaced
    <2>5. QED
      BY <1>3, <2>1, <2>2, <2>3, <2>4 DEF Owner
  <1>4. CASE UNCHANGED vars
    BY <1>4 DEF vars
  <1>5. QED
    BY <1>1, <1>2, <1>3, <1>4 DEF Next

(* What the record holds once the call in hand has ended. *)
ToRecord == (recorded \ Erasing) \cup Recording

(* A stream that is asked for again after a drop, or may be missing for a  *)
(* reason.                                                                 *)
Kept(x) == x \in ToRecord \cup unsent \cup taken \/ (x = Main /\ "not sent" \in mishaps)

OnlyOkx == \A s \in Strategies : wants[s] # {} => Okx /\ owner \in Served
MainListed == owner \notin Served \/ ~ Okx => listed = {Main} /\ inHand = NoCall
ListedKept == Okx /\ owner \in Serving => \A x \in listed : Kept(x)
WantedKept == \A s \in Strategies : \A x \in wants[s] : Kept(x)
WantedListed == \A s \in Strategies : \A x \in wants[s] : x \in listed \cup taken

Wanting(x) == {s \in Strategies : x \in wants[s]}
UsersListed == \A x \in Counted : users[x] > 0 => x \in listed
UsersCounted == \A x \in Counted \ taken : Cardinality(Wanting(x)) =< users[x]

KeptInv == OnlyOkx /\ MainListed /\ ListedKept /\ WantedKept
CountInv == WantedListed /\ UsersListed /\ UsersCounted

LEMMA WantingFinite ==
  ASSUME NEW x
  PROVE  IsFiniteSet(Wanting(x)) /\ Cardinality(Wanting(x)) \in Nat
  <1>1. Wanting(x) \in SUBSET Strategies
    BY DEF Wanting
  <1>2. QED
    BY <1>1, CountedAssumption, FS_Subset, FS_CardinalityType

(* A request of s about x changes who wants x, and of no other stream. *)
LEMMA AskWanting ==
  ASSUME OwnTypes, NEW s \in Strategies, NEW x \in Streams, Ask(s, x)
  PROVE  /\ Cardinality(Wanting(x)') =< Cardinality(Wanting(x)) + 1
         /\ \A y : y # x => Wanting(y)' = Wanting(y)
         /\ \A t \in Strategies : wants'[t] \subseteq wants[t] \cup {x}
         /\ taken' = taken
  <1>1. Wanting(x)' = Wanting(x) \cup {s}
    BY DEF OwnTypes, Ask, Wanting
  <1>2. Cardinality(Wanting(x)') =< Cardinality(Wanting(x)) + 1
    <2>1. IsFiniteSet(Wanting(x)) /\ Cardinality(Wanting(x)) \in Nat
      BY WantingFinite
    <2>2. Cardinality(Wanting(x) \cup {s}) = IF s \in Wanting(x) THEN Cardinality(Wanting(x))
                                             ELSE Cardinality(Wanting(x)) + 1
      BY <2>1, FS_AddElement
    <2>3. QED
      BY <1>1, <2>1, <2>2
  <1>3. \A y : y # x => Wanting(y)' = Wanting(y)
    BY DEF OwnTypes, Ask, Wanting
  <1>4. QED
    BY <1>2, <1>3 DEF OwnTypes, Ask

LEMMA GiveUpWanting ==
  ASSUME OwnTypes, NEW s \in Strategies, NEW x \in Streams, GiveUp(s, x)
  PROVE  /\ x \notin taken' => Cardinality(Wanting(x)') = Cardinality(Wanting(x)) - 1
         /\ x \notin taken' /\ x \notin Counted => Wanting(x)' = {}
         /\ \A y : y # x => Wanting(y)' = Wanting(y)
         /\ \A t \in Strategies : wants'[t] \subseteq wants[t]
         /\ taken \subseteq taken' /\ taken' \subseteq taken \cup {x}
  <1>1. Wanting(x)' = Wanting(x) \ {s}
    BY DEF OwnTypes, GiveUp, Wanting
  <1>2. x \notin taken' => s \in Wanting(x)
    BY DEF GiveUp, Wanting
  <1>3. Cardinality(Wanting(x) \ {s}) = IF s \in Wanting(x) THEN Cardinality(Wanting(x)) - 1
                                        ELSE Cardinality(Wanting(x))
    BY WantingFinite, FS_RemoveElement
  <1>4. x \notin taken' /\ x \notin Counted => Wanting(x)' = {}
    BY <1>1 DEF GiveUp, Wanting
  <1>5. \A y : y # x => Wanting(y)' = Wanting(y)
    BY DEF OwnTypes, GiveUp, Wanting
  <1>6. QED
    BY <1>1, <1>2, <1>3, <1>4, <1>5 DEF OwnTypes, GiveUp

LEMMA DiesWanting ==
  ASSUME OwnTypes, NEW s \in Strategies, StrategyDies(s)
  PROVE  /\ \A y : Wanting(y)' \subseteq Wanting(y) /\ Cardinality(Wanting(y)') =< Cardinality(Wanting(y))
         /\ \A t \in Strategies : wants'[t] \subseteq wants[t]
  <1>1. \A t \in Strategies : wants'[t] \subseteq wants[t]
    BY DEF OwnTypes, StrategyDies
  <1>2. ASSUME NEW y PROVE Wanting(y)' \subseteq Wanting(y)
    BY <1>1 DEF Wanting
  <1>3. ASSUME NEW y PROVE Cardinality(Wanting(y)') =< Cardinality(Wanting(y))
    BY <1>2, WantingFinite, FS_Subset
  <1>4. QED
    BY <1>1, <1>2, <1>3

(* The counts, request by request. *)
LEMMA RequestCounts ==
  ASSUME OwnTypes, CountInv, NEW s \in Strategies, NEW x \in Streams, Request(s, x)
  PROVE  CountInv'
  <1> USE DEF CountInv
  <1>0. MaxUsers \in Nat \ {0, 1} /\ Counted \subseteq Streams
    BY CountedAssumption
  <1>1. CASE SubscribeKline(s, x)
    <2>1. Ask(s, x) /\ x \in Counted /\ listed' = listed \cup {x}
            /\ users' = [users EXCEPT ![x] = IF @ = 0 /\ x \in listed THEN 2 ELSE @ + 1]
      BY <1>1 DEF SubscribeKline
    <2>2. WantedListed'
      BY <2>1, AskWanting DEF WantedListed
    <2>3. UsersListed'
      BY <1>0, <2>1 DEF UsersListed, OwnTypes
    <2>4. UsersCounted'
      <3> SUFFICES ASSUME NEW y \in Counted, y \notin taken' PROVE Cardinality(Wanting(y)') =< users'[y]
        BY DEF UsersCounted
      <3>1. Cardinality(Wanting(y)) =< users[y]
        BY <2>1, AskWanting DEF UsersCounted
      <3>2. CASE y # x
        BY <1>0, <2>1, <3>1, <3>2, AskWanting DEF OwnTypes
      <3>3. CASE y = x
        <4>1. users'[x] >= users[x] + 1 /\ users[x] \in Nat /\ users'[x] \in Nat
          BY <1>0, <2>1 DEF OwnTypes
        <4>2. Cardinality(Wanting(x)') =< Cardinality(Wanting(x)) + 1
          BY <2>1, AskWanting
        <4>3. Cardinality(Wanting(x)') \in Nat /\ Cardinality(Wanting(x)) \in Nat
          <5>1. IsFiniteSet(Wanting(x)')
            BY CountedAssumption, FS_Subset DEF Wanting
          <5>2. QED
            BY <5>1, WantingFinite, FS_CardinalityType
        <4>4. QED
          BY <3>1, <3>3, <4>1, <4>2, <4>3
      <3>4. QED
        BY <3>2, <3>3
    <2>5. QED
      BY <2>2, <2>3, <2>4
  <1>2. CASE UnsubscribeKline(s, x)
    <2>1. /\ GiveUp(s, x) /\ x \in Counted
          /\ users' = [users EXCEPT ![x] = IF @ = 0 THEN 0 ELSE @ - 1]
          /\ listed' = IF users[x] = 1 THEN listed \ {x} ELSE listed
      BY <1>2 DEF UnsubscribeKline
    <2>2. UsersListed'
      BY <1>0, <2>1 DEF UsersListed, OwnTypes
    <2>3. UsersCounted'
      <3> SUFFICES ASSUME NEW y \in Counted, y \notin taken' PROVE Cardinality(Wanting(y)') =< users'[y]
        BY DEF UsersCounted
      <3>1. Cardinality(Wanting(y)) =< users[y]
        BY <2>1, GiveUpWanting DEF UsersCounted
      <3>2. CASE y # x
        BY <1>0, <2>1, <3>1, <3>2, GiveUpWanting DEF OwnTypes
      <3>3. CASE y = x
        <4>1. Cardinality(Wanting(x)') = Cardinality(Wanting(x)) - 1
          <5>1. x \notin taken'
            BY <3>3
          <5>2. QED
            BY <2>1, <5>1, GiveUpWanting
        <4>2. Cardinality(Wanting(x)) \in Nat
          BY WantingFinite
        <4>3. users[x] \in Nat /\ users'[x] = IF users[x] = 0 THEN 0 ELSE users[x] - 1
          BY <1>0, <2>1 DEF OwnTypes
        <4>4. QED
          BY <3>1, <3>3, <4>1, <4>2, <4>3
      <3>4. QED
        BY <3>2, <3>3
    <2>4. WantedListed'
      <3> SUFFICES ASSUME NEW t \in Strategies, NEW y \in wants'[t], y \notin taken' PROVE y \in listed'
        BY DEF WantedListed
      <3>1. y \in wants[t] /\ y \notin taken /\ y \in listed
        BY <2>1, GiveUpWanting DEF WantedListed
      <3>2. CASE y # x
        BY <2>1, <3>1, <3>2
      <3>3. CASE y = x
        <4>1. t \in Wanting(x)'
          BY <3>3 DEF Wanting
        <4>2. IsFiniteSet(Wanting(x)') /\ Cardinality(Wanting(x)') # 0
          <5>1. IsFiniteSet(Wanting(x)')
            BY CountedAssumption, FS_Subset DEF Wanting
          <5>2. QED
            BY <4>1, <5>1, FS_EmptySet
        <4>3. Cardinality(Wanting(x)') \in Nat
          BY <4>2, FS_CardinalityType
        <4>4. Cardinality(Wanting(x)') =< users'[x]
          BY <2>1, <2>3, <3>3 DEF UsersCounted
        <4>5. users'[x] > 0 /\ x \in Counted
          <5>1. users'[x] \in Nat
            BY <1>0, <2>1 DEF OwnTypes
          <5>2. QED
            BY <2>1, <4>2, <4>3, <4>4, <5>1
        <4>6. QED
          BY <2>2, <3>3, <4>5 DEF UsersListed
      <3>4. QED
        BY <3>2, <3>3
    <2>5. QED
      BY <2>2, <2>3, <2>4
  <1>3. CASE SubscribeOther(s, x)
    <2>1. Ask(s, x) /\ x \notin Counted /\ listed' = listed \cup {x} /\ users' = users
      BY <1>3 DEF SubscribeOther
    <2>2. WantedListed' /\ UsersListed'
      BY <2>1, AskWanting DEF WantedListed, UsersListed
    <2>3. UsersCounted'
      BY <2>1, AskWanting DEF UsersCounted
    <2>4. QED
      BY <2>2, <2>3
  <1>4. CASE UnsubscribeOther(s, x)
    <2>1. GiveUp(s, x) /\ x \notin Counted /\ listed' = listed \ {x} /\ users' = users
      BY <1>4 DEF UnsubscribeOther
    <2>2. WantedListed'
      <3> SUFFICES ASSUME NEW t \in Strategies, NEW y \in wants'[t], y \notin taken' PROVE y \in listed'
        BY DEF WantedListed
      <3>1. y \in wants[t] /\ y \in listed
        BY <2>1, GiveUpWanting DEF WantedListed
      <3>2. y # x
        <4> SUFFICES ASSUME y = x PROVE FALSE
          OBVIOUS
        <4>1. x \notin taken' /\ t \in Wanting(x)'
          BY DEF Wanting
        <4>2. Wanting(x)' = {}
          BY <2>1, <4>1, GiveUpWanting
        <4>3. QED
          BY <4>1, <4>2
      <3>3. QED
        BY <2>1, <3>1, <3>2
    <2>3. UsersListed'
      BY <2>1 DEF UsersListed
    <2>4. UsersCounted'
      BY <2>1, GiveUpWanting DEF UsersCounted
    <2>5. QED
      BY <2>2, <2>3, <2>4
  <1>5. QED
    BY <1>1, <1>2, <1>3, <1>4 DEF Request

(* What is asked for again, request by request. *)
LEMMA RequestKept ==
  ASSUME ClientTypes, SocketTypes, OwnTypes, KeptInv, CountInv, CountInv',
         Okx, owner \in Serving, ThreadLeaves, inHand = NoCall,
         NEW s \in Strategies, NEW x \in Streams, Request(s, x)
  PROVE  KeptInv'
  <1>0. /\ venue' = venue /\ owner' = owner /\ mishaps' = mishaps /\ Okx' /\ recorded' = recorded
        /\ Recording = {} /\ Erasing = {}
    BY DEF ThreadLeaves, recordVars, Okx, NoCall, Recording, Erasing
  <1>1. OnlyOkx' /\ MainListed'
    BY <1>0 DEF OnlyOkx, MainListed, Served
  <1>2. CASE SubscribeKline(s, x) \/ SubscribeOther(s, x)
    <2>1. Ask(s, x) /\ listed' = listed \cup {x} /\ (SendSubscribe(x) \/ (SendsNothing /\ x \in listed))
      <3>1. CASE SubscribeKline(s, x)
        <4>1. x \in Counted /\ users[x] \in Nat /\ (users[x] # 0 => x \in listed)
          BY <3>1, CountedAssumption DEF SubscribeKline, CountInv, UsersListed, OwnTypes
        <4>2. QED
          BY <3>1, <4>1 DEF SubscribeKline
      <3>2. CASE SubscribeOther(s, x)
        BY <3>2 DEF SubscribeOther
      <3>3. QED
        BY <1>2, <3>1, <3>2
    <2>2. recorded \subseteq ToRecord' /\ unsent \subseteq ToRecord' \cup unsent'
      <3>1. CASE SendSubscribe(x)
        <4>1. Erasing' = {} /\ unsent \cup {x} \subseteq Recording' \cup unsent'
          BY <1>0, <3>1, SendSubscribeFacts DEF Erasing
        <4>2. QED
          BY <1>0, <4>1 DEF ToRecord
      <3>2. CASE SendsNothing
        BY <1>0, <3>2, SendsNothingFacts DEF ToRecord, Erasing
      <3>3. QED
        BY <2>1, <3>1, <3>2
    <2>3. taken' = taken /\ \A t \in Strategies : wants'[t] \subseteq wants[t] \cup {x}
      BY <2>1, AskWanting
    <2>4. \A y : Kept(y) => Kept(y)'
      BY <1>0, <2>2, <2>3 DEF Kept, ToRecord
    <2>5. Kept(x)'
      <3>1. CASE SendSubscribe(x)
        BY <3>1, SendSubscribeFacts DEF Kept, ToRecord
      <3>2. CASE x \in listed
        BY <2>4, <3>2 DEF KeptInv, ListedKept
      <3>3. QED
        BY <2>1, <3>1, <3>2
    <2>6. ListedKept'
      BY <2>1, <2>4, <2>5 DEF KeptInv, ListedKept
    <2>7. WantedKept'
      BY <2>3, <2>4, <2>5 DEF KeptInv, WantedKept
    <2>8. QED
      BY <1>1, <2>6, <2>7 DEF KeptInv
  <1>3. CASE UnsubscribeKline(s, x) \/ UnsubscribeOther(s, x)
    <2>1. GiveUp(s, x) /\ listed' \subseteq listed /\ (SendsNothing \/ (SendUnsubscribe(x) /\ x \notin listed'))
      BY <1>3 DEF UnsubscribeKline, UnsubscribeOther
    <2>2. taken \subseteq taken' /\ \A t \in Strategies : wants'[t] \subseteq wants[t]
      BY <2>1, GiveUpWanting
    <2>3. \A y : Kept(y) /\ (y = x => x \in listed' \cup taken') => Kept(y)'
      <3> SUFFICES ASSUME NEW y, Kept(y), y = x => x \in listed' \cup taken' PROVE Kept(y)'
        OBVIOUS
      <3>1. CASE SendsNothing
        BY <1>0, <2>2, <3>1, SendsNothingFacts DEF Kept, ToRecord, Recording, Erasing
      <3>2. CASE SendUnsubscribe(x) /\ x \notin listed' /\ y # x
        <4>1. unsent' = unsent /\ Erasing' \subseteq {x}
          BY <1>0, <3>2, SendUnsubscribeFacts DEF Erasing
        <4>2. QED
          BY <1>0, <2>2, <3>2, <4>1 DEF Kept, ToRecord
      <3>3. CASE y = x /\ x \notin listed'
        BY <3>3 DEF Kept
      <3>4. QED
        BY <2>1, <3>1, <3>2, <3>3
    <2>4. ListedKept'
      BY <2>1, <2>3 DEF KeptInv, ListedKept
    <2>5. WantedKept'
      <3>1. \A t \in Strategies : \A y \in wants'[t] : y \in listed' \cup taken'
        BY DEF CountInv, WantedListed
      <3>2. QED
        BY <2>2, <2>3, <3>1 DEF KeptInv, WantedKept
    <2>6. QED
      BY <1>1, <2>4, <2>5 DEF KeptInv
  <1>4. QED
    BY <1>2, <1>3 DEF Request

LEMMA InitKept == SubInit => KeptInv /\ CountInv
  <1> SUFFICES ASSUME SubInit PROVE KeptInv /\ CountInv
    OBVIOUS
  <1>1. KeptInv
    BY DEF SubInit, Init, KeptInv, OnlyOkx, MainListed, ListedKept, WantedKept, Serving
  <1>2. \A x : Wanting(x) = {}
    BY DEF SubInit, Wanting
  <1>3. \A x : Cardinality(Wanting(x)) = 0
    BY <1>2, FS_EmptySet
  <1>4. CountInv
    BY <1>3, CountedAssumption DEF SubInit, CountInv, WantedListed, UsersListed, UsersCounted
  <1>5. QED
    BY <1>1, <1>4

(* A step of the socket's threads. *)
LEMMA SocketKept ==
  ASSUME SubTypeOK, NoMonitor, KeptInv, CountInv, [Next]_vars, SocketLeaves
  PROVE  KeptInv' /\ CountInv'
  <1>0. SocketTypes
    BY SubTypesSplit
  <1>a. UNCHANGED <<requestVars, inHand>>
    BY DEF SocketLeaves
  <1>1. CountInv'
    BY <1>a DEF requestVars, CountInv, WantedListed, UsersListed, UsersCounted, Wanting
  <1>2. Okx' <=> Okx
    BY <1>0, BaseStep DEF Okx
  <1>3. Okx => \A y : Kept(y) => Kept(y)'
    BY <1>0, <1>a, BaseStep DEF requestVars, Kept, ToRecord, Recording, Erasing
  <1>4. OnlyOkx' /\ MainListed'
    BY <1>0, <1>a, <1>2, BaseStep DEF requestVars, KeptInv, OnlyOkx, MainListed
  <1>5. WantedKept'
    BY <1>a, <1>3 DEF requestVars, KeptInv, OnlyOkx, WantedKept
  <1>6. ListedKept'
    <2> SUFFICES ASSUME Okx, owner' \in Serving, NEW x \in listed PROVE Kept(x)'
      BY <1>a, <1>2 DEF requestVars, ListedKept
    <2>1. CASE owner \in Serving
      BY <1>3, <2>1 DEF KeptInv, ListedKept
    <2>2. CASE owner \in Served \ Serving
      BY <1>0, <2>2, BaseStep
    <2>3. CASE owner \notin Served
      <3>1. x = Main /\ inHand' = NoCall
        BY <1>a, <2>3 DEF KeptInv, MainListed
      <3>2. Erasing' = {}
        BY <3>1 DEF NoCall, Erasing
      <3>3. QED
        BY <1>0, <2>3, <3>1, <3>2, BaseStep DEF Kept, ToRecord, Served
    <2>4. QED
      BY <2>1, <2>2, <2>3
  <1>7. QED
    BY <1>1, <1>4, <1>5, <1>6 DEF KeptInv

LEMMA NextKept ==
  ASSUME SubTypeOK, NoMonitor, KeptInv, CountInv, [SubNext]_<<vars, subVars>>
  PROVE  KeptInv' /\ CountInv'
  <1>0. ClientTypes /\ SocketTypes /\ OwnTypes
    BY SubTypesSplit
  <1>1. CASE [Next]_vars /\ SocketLeaves
    BY <1>1, SocketKept
  <1>2. CASE SubscriptionThread
    <2>1. Okx /\ owner \in Serving /\ ThreadLeaves
      BY <1>2 DEF SubscriptionThread, ThreadLeaves, Serving
    <2>2. ASSUME NEW s \in Strategies, NEW x \in Streams, inHand = NoCall, Request(s, x)
          PROVE  KeptInv' /\ CountInv'
      <3>1. CountInv'
        BY <1>0, <2>2, RequestCounts
      <3>2. QED
        BY <1>0, <2>1, <2>2, <3>1, RequestKept
    <2>3. ASSUME NEW s \in Strategies, StrategyDies(s) PROVE KeptInv' /\ CountInv'
      <3>1. /\ \A t \in Strategies : wants'[t] \subseteq wants[t]
            /\ \A y : Cardinality(Wanting(y)') =< Cardinality(Wanting(y))
        BY <1>0, <2>3, DiesWanting
      <3>2. UNCHANGED <<listed, users, unsent, taken, inHand>>
        BY <2>3 DEF StrategyDies
      <3>a. Okx' = Okx /\ \A y : Kept(y) => Kept(y)'
        BY <2>1, <3>2 DEF ThreadLeaves, recordVars, Okx, Kept, ToRecord, Recording, Erasing
      <3>3. KeptInv'
        BY <2>1, <3>1, <3>2, <3>a DEF ThreadLeaves, KeptInv, OnlyOkx, MainListed, ListedKept, WantedKept
      <3>4. WantedListed' /\ UsersListed'
        BY <3>1, <3>2 DEF CountInv, WantedListed, UsersListed
      <3>5. UsersCounted'
        <4> SUFFICES ASSUME NEW y \in Counted, y \notin taken PROVE Cardinality(Wanting(y)') =< users[y]
          BY <3>2 DEF UsersCounted
        <4>1. Cardinality(Wanting(y)') \in Nat
          <5>1. IsFiniteSet(Wanting(y)')
            BY CountedAssumption, FS_Subset DEF Wanting
          <5>2. QED
            BY <5>1, FS_CardinalityType
        <4>2. Cardinality(Wanting(y)) \in Nat /\ users[y] \in Nat
          BY <1>0, CountedAssumption, WantingFinite DEF OwnTypes
        <4>3. QED
          BY <3>1, <4>1, <4>2 DEF CountInv, UsersCounted
      <3>6. QED
        BY <3>3, <3>4, <3>5 DEF CountInv
    <2>4. QED
      BY <1>2, <2>2, <2>3 DEF SubscriptionThread, Request
  <1>3. CASE CallEnds
    <2>1. UNCHANGED <<requestVars, venue, owner, mishaps>>
      BY <1>3, CallEndsFacts
    <2>2. Recording \cap Erasing = {}
      BY DEF Recording, Erasing
    <2>3. ToRecord' = ToRecord
      BY <1>3, <2>2, CallEndsFacts DEF ToRecord
    <2>4. Okx' = Okx /\ \A y : Kept(y) => Kept(y)'
      BY <2>1, <2>3 DEF requestVars, Okx, Kept
    <2>5. inHand' = NoCall
      BY <1>3, CallEndsFacts
    <2>6. KeptInv'
      BY <2>1, <2>4, <2>5 DEF requestVars, KeptInv, OnlyOkx, MainListed, ListedKept, WantedKept
    <2>7. CountInv'
      BY <2>1 DEF requestVars, CountInv, WantedListed, UsersListed, UsersCounted, Wanting
    <2>8. QED
      BY <2>6, <2>7
  <1>4. QED
    BY <1>1, <1>2, <1>3, SubStep

(* The facts of the socket hold beside the subscription thread as well. *)
LEMMA SubStatus == SubTypeOK /\ StatusInv /\ [SubNext]_<<vars, subVars>> => StatusInv'
  <1> SUFFICES ASSUME SubTypeOK, StatusInv, [SubNext]_<<vars, subVars>> PROVE StatusInv'
    OBVIOUS
  <1>1. CASE [Next]_vars
    BY <1>1, NextStatus DEF SubTypeOK
  <1>2. CASE SubscriptionThread
    <2>1. ThreadLeaves
      BY <1>2 DEF SubscriptionThread, ThreadLeaves
    <2>2. IsOpen' <=> IsOpen
      BY <2>1 DEF ThreadLeaves, IsOpen
    <2>3. UpIsOpen' /\ NoMonitor'
      BY <2>1, <2>2 DEF ThreadLeaves, StatusInv, UpIsOpen, NoMonitor, Early
    <2>4. Hooked'
      BY <2>1 DEF ThreadLeaves, flagVars, recordVars, StatusInv, Hooked, InUse
    <2>5. Noticed'
      BY <2>1, <2>2 DEF ThreadLeaves, flagVars, recordVars, StatusInv, Noticed, Linked
    <2>6. QED
      BY <2>3, <2>4, <2>5 DEF StatusInv
  <1>3. CASE CallEnds
    <2>1. UNCHANGED <<clientVars, venue, flagVars, mon, hb, owner, leaving, mishaps>>
      BY <1>3, CallEndsFacts
    <2>2. IsOpen' <=> IsOpen
      BY <2>1 DEF clientVars, IsOpen
    <2>3. UpIsOpen' /\ NoMonitor'
      BY <2>1, <2>2 DEF clientVars, StatusInv, UpIsOpen, NoMonitor, Early
    <2>4. Hooked'
      BY <2>1 DEF clientVars, flagVars, StatusInv, Hooked, InUse
    <2>5. Noticed'
      BY <2>1, <2>2 DEF clientVars, flagVars, StatusInv, Noticed, Linked
    <2>6. QED
      BY <2>3, <2>4, <2>5 DEF StatusInv
  <1>4. QED
    BY <1>1, <1>2, <1>3, SubStep

(* What a strategy wants stays subscribed, also over a reconnect, for any  *)
(* number of strategies and streams (handle_subscription, resubscribe_all).*)
THEOREM WantedStays == SubSpec => []WantedIsKept
  <1>1. KeptInv /\ CountInv => WantedIsKept
    BY DEF KeptInv, CountInv, WantedKept, WantedListed, Kept, ToRecord, WantedIsKept
  <1>2. StatusInv => NoMonitor
    BY DEF StatusInv
  <1>3. SubInit => StatusInv
    BY InitStatus DEF SubInit
  <1>4. QED
    BY <1>1, <1>2, <1>3, InitSubTypes, NextSubTypes, InitKept, NextKept, SubStatus, PTL DEF SubSpec

-----------------------------------------------------------------------------
(* AtRestCarried *)

(* What the record holds once the owner's first call has ended as well. *)
Known == ToRecord \cup (IF owner = "record" THEN {Main} ELSE {})

Carrying == IF current \in Conns THEN carried[current] ELSE {}

(* Before the first subscription nothing is recorded. *)
NothingYet ==
    Okx /\ owner \notin Served =>
        inHand = NoCall /\ (owner # "record" => recorded = {} /\ copied = {} /\ resent = {})

(* Only while it asks again, and only OKX's, has the monitor streams in    *)
(* hand.                                                                   *)
SendsOnly == mon # "send" \/ ~ Okx => copied = {} /\ resent = {}

Connecting == {"connecting", "store", "join", "resubscribe"}

(* The connection in use carries nothing, and the monitor asks again for   *)
(* nothing, that is not recorded or soon will be - a new connection, until *)
(* the record is copied for it, without exception.                         *)
CarriedKnown ==
    Okx => /\ (Carrying \cup copied \cup resent) \ crossed \subseteq Known
           /\ mon \in Connecting => Carrying \subseteq Known

(* After the copy what is recorded is carried or about to be, or the       *)
(* monitor will see that it is needed, or nothing can be sent for good.    *)
KnownCarried ==
    Okx /\ mon \in {"send", "watch"} /\ mishaps = {} =>
        \/ need \/ ~ connected \/ current \notin Conns
        \/ Known \ crossed \subseteq Carrying \cup copied

RestInv == NothingYet /\ SendsOnly /\ CarriedKnown /\ KnownCarried

LEMMA NoConnFact == NoConn \notin Conns
  BY ConnAssumption DEF NoConn

LEMMA InitRest == SubInit => RestInv
  BY NoConnFact DEF SubInit, Init, ClientInit, RestInv, NothingYet, SendsOnly, CarriedKnown, KnownCarried,
                    Known, ToRecord, Recording, Erasing, Carrying, NoCall

(* A step that changes neither what is in hand or recorded, nor what the   *)
(* connection in use carries - but it may be lost -, keeps all this.       *)
Quiet ==
    /\ UNCHANGED <<venue, recordVars, inHand, crossed>>
    /\ current' \in {current, NoConn} /\ carried' = carried
    /\ mishaps \subseteq mishaps'
    /\ \/ mon' = mon /\ (need => need' \/ ~ connected') /\ (connected' => connected \/ mon = "none")
       \/ mon # "send" /\ mon' = "watch" /\ need'
       \/ mon # "send" /\ mon' \notin {"send", "watch"} /\ (mon' \in Connecting => mon \in Connecting)

LEMMA QuietRest ==
  ASSUME RestInv, Quiet, owner' = owner \/ (owner # "record" /\ owner' # "record"),
         Okx /\ owner' \notin Served => owner \notin Served
  PROVE  RestInv'
  <1> USE DEF Quiet, recordVars, Okx
  <1>1. NothingYet' /\ SendsOnly'
    BY DEF RestInv, NothingYet, SendsOnly
  <1>2. Carrying' \subseteq Carrying /\ (current' \in Conns => Carrying' = Carrying)
    BY NoConnFact DEF Carrying
  <1>3. Known' = Known
    BY DEF Known, ToRecord, Recording, Erasing
  <1>4. CarriedKnown'
    <2>1. Okx => (Carrying' \cup copied' \cup resent') \ crossed' \subseteq Known'
      BY <1>2, <1>3 DEF RestInv, CarriedKnown
    <2>2. Okx /\ mon' \in Connecting => Carrying' \subseteq Known'
      BY <1>2, <1>3 DEF RestInv, CarriedKnown, Connecting
    <2>3. QED
      BY <2>1, <2>2 DEF CarriedKnown
  <1>5. KnownCarried'
    <2>1. current' \in Conns => current \in Conns
      BY NoConnFact
    <2>2. QED
      BY <1>2, <1>3, <2>1 DEF RestInv, KnownCarried
  <1>6. QED
    BY <1>1, <1>4, <1>5 DEF RestInv

(* Only a copy of the record changes what is crossed. *)
LEMMA CrossedSame ==
  ASSUME SocketLeaves, mon # "resubscribe" \/ mon' # "send"
  PROVE  crossed' = crossed /\ inHand' = inHand
  BY DEF SocketLeaves, Crossing

LEMMA NetworkRest == TypeOK /\ RestInv /\ Network /\ SocketLeaves => RestInv'
  <1> SUFFICES ASSUME TypeOK, RestInv, SocketLeaves, NEW c \in Conns,
                      \/ Lost(c)
                      \/ (Open(c) \/ GoSilent(c))
                           /\ UNCHANGED <<venue, flagVars, mon, hb, owner, leaving, recordVars, mishaps>>
               PROVE  RestInv'
    BY DEF Network
  <1>0. ClientTypes /\ SocketTypes
    BY TypesSplit
  <1>1. mon' = mon /\ owner' = owner
    BY DEF Lost
  <1>2. crossed' = crossed /\ inHand' = inHand
    BY <1>1, CrossedSame
  <1>3. Quiet
    <2>1. CASE Lost(c)
      BY <1>0, <1>1, <1>2, <2>1, HandlerType DEF Lost, Quiet
    <2>2. CASE (Open(c) \/ GoSilent(c))
                 /\ UNCHANGED <<venue, flagVars, mon, hb, owner, leaving, recordVars, mishaps>>
      BY <1>1, <1>2, <2>2 DEF Open, GoSilent, flagVars, recordVars, Quiet
    <2>3. QED
      BY <2>1, <2>2
  <1>4. QED
    BY <1>1, <1>3, QuietRest

(* The copy: what is in the record is now in the monitor's hand, but for   *)
(* the call in hand, which is crossed.                                     *)
LEMMA CopyRest ==
  ASSUME ClientTypes, SocketTypes, OwnTypes, RestInv, SocketLeaves, ResubscribeCopies
  PROVE  RestInv'
  <1>1. /\ mon = "resubscribe" /\ mon' = "send" /\ copied' = (IF Okx THEN recorded ELSE {})
        /\ UNCHANGED <<clientVars, venue, flagVars, owner, recorded, resent>> /\ inHand' = inHand
        /\ mishaps' = IF owner = "record" /\ current \in Conns /\ Main \notin carried[current]
                        THEN mishaps \cup {"recorded late"} ELSE mishaps
        /\ copied = {} /\ resent = {}
    BY DEF ResubscribeCopies, CopiesRecord, SocketLeaves, RestInv, SendsOnly
  <1>2. crossed' = IF current \in Conns /\ Recording \subseteq carried[current]
                     THEN Erasing ELSE Recording \cup Erasing
    BY <1>1 DEF SocketLeaves, Crossing, clientVars
  <1>3. Known' = Known /\ Carrying' = Carrying
    BY <1>1 DEF clientVars, Known, ToRecord, Recording, Erasing, Carrying
  <1>4. NothingYet' /\ SendsOnly'
    BY <1>1 DEF RestInv, NothingYet, SendsOnly, Okx
  <1>5. Okx => Carrying \subseteq Known /\ recorded \ Erasing \subseteq Known
    BY <1>1 DEF RestInv, CarriedKnown, Connecting, Known, ToRecord
  <1>6. CarriedKnown'
    BY <1>1, <1>2, <1>3, <1>5 DEF CarriedKnown, Connecting, Okx
  <1>7. KnownCarried'
    <2> SUFFICES ASSUME Okx, mishaps' = {}, current \in Conns
                 PROVE  Known \ crossed' \subseteq Carrying \cup recorded
      BY <1>1, <1>3 DEF KnownCarried, clientVars, Okx
    <2>1. owner = "record" => Main \in carried[current]
      BY <1>1
    <2>2. Recording \ crossed' \subseteq carried[current]
      BY <1>2
    <2>3. QED
      BY <2>1, <2>2 DEF Known, ToRecord, Carrying
  <1>8. QED
    BY <1>4, <1>6, <1>7 DEF RestInv

LEMMA SendsRest ==
  ASSUME ClientTypes, SocketTypes, RestInv, SocketLeaves, ResubscribeSends
  PROVE  RestInv'
  <1>0. mon = "send" /\ mon' = "send" /\ resent = {}
    BY DEF ResubscribeSends
  <1>1. PICK message \in (SUBSET copied) \ {{}} :
          /\ copied' = copied \ message
          /\ IF connected /\ Reaches
               THEN /\ carried' = [carried EXCEPT ![current] = @ \cup message]
                    /\ resent' = message
                    /\ UNCHANGED mishaps
               ELSE /\ mishaps' = IF need THEN mishaps ELSE mishaps \cup {"not sent"}
                    /\ UNCHANGED <<carried, resent>>
    BY DEF ResubscribeSends
  <1>2. UNCHANGED <<conn, current, up, venue, connected, need, owner, recorded>>
    BY DEF ResubscribeSends, flagVars
  <1>3. inHand' = inHand /\ crossed' = crossed
    BY <1>0, CrossedSame
  <1>4. Known' = Known
    BY <1>2, <1>3 DEF Known, ToRecord, Recording, Erasing
  <1>5. Okx /\ (owner \notin Served => owner = "record")
    <2>1. copied # {}
      <3>1. message \subseteq copied /\ message # {}
        BY <1>1
      <3>2. QED
        BY <3>1
    <2>2. QED
      BY <2>1 DEF RestInv, NothingYet, SendsOnly
  <1>6. NothingYet' /\ SendsOnly'
    BY <1>0, <1>2, <1>3, <1>5 DEF RestInv, NothingYet, SendsOnly, Okx
  <1>7. (Carrying \cup copied) \ crossed \subseteq Known
    BY <1>5 DEF RestInv, CarriedKnown
  <1>8. CASE connected /\ Reaches
    <2>1. current \in Conns
      BY <1>8 DEF Reaches, ClientTypes
    <2>2. Carrying' = Carrying \cup message
      BY <1>1, <1>2, <1>8, <2>1 DEF Carrying, ClientTypes
    <2>3. CarriedKnown'
      <3>1. (Carrying' \cup copied' \cup resent') \ crossed' \subseteq Known'
        BY <1>1, <1>3, <1>4, <1>7, <1>8, <2>2
      <3>2. QED
        BY <1>0, <3>1 DEF CarriedKnown, Connecting
    <2>4. KnownCarried'
      BY <1>0, <1>1, <1>2, <1>3, <1>4, <1>5, <1>8, <2>2 DEF RestInv, KnownCarried, Okx
    <2>5. QED
      BY <1>6, <2>3, <2>4 DEF RestInv
  <1>9. CASE ~ (connected /\ Reaches)
    <2>1. Carrying' = Carrying
      BY <1>1, <1>2, <1>9 DEF Carrying
    <2>2. CarriedKnown'
      BY <1>0, <1>1, <1>3, <1>4, <1>7, <1>9, <2>1 DEF CarriedKnown, Connecting
    <2>3. KnownCarried'
      BY <1>1, <1>2, <1>9 DEF KnownCarried
    <2>4. QED
      BY <1>6, <2>2, <2>3 DEF RestInv
  <1>10. QED
    BY <1>8, <1>9

LEMMA RecordsRest ==
  ASSUME ClientTypes, SocketTypes, RestInv, SocketLeaves, ResubscribeRecords
  PROVE  RestInv'
  <1>1. /\ resent # {} /\ recorded' = recorded \cup resent /\ resent' = {}
        /\ UNCHANGED <<clientVars, venue, flagVars, mon, owner, copied, mishaps>>
    BY DEF ResubscribeRecords
  <1>2. inHand' = inHand /\ crossed' = crossed
    BY <1>1, CrossedSame
  <1>3. Okx /\ (owner \notin Served => owner = "record") /\ mon = "send"
    BY <1>1 DEF RestInv, NothingYet, SendsOnly
  <1>4. resent \ crossed \subseteq Known
    BY <1>3 DEF RestInv, CarriedKnown
  <1>5. Known \subseteq Known' /\ Known' \subseteq Known \cup resent
    BY <1>1, <1>2 DEF Known, ToRecord, Recording, Erasing
  <1>6. Carrying' = Carrying
    BY <1>1 DEF clientVars, Carrying
  <1>7. NothingYet' /\ SendsOnly'
    BY <1>1, <1>2, <1>3 DEF RestInv, NothingYet, SendsOnly, Okx
  <1>8. CarriedKnown'
    BY <1>1, <1>2, <1>3, <1>5, <1>6 DEF RestInv, CarriedKnown, Connecting
  <1>9. KnownCarried'
    <2>1. Known' \ crossed \subseteq Known \ crossed
      BY <1>4, <1>5
    <2>2. QED
      BY <1>1, <1>2, <1>3, <1>6, <2>1 DEF clientVars, flagVars, RestInv, KnownCarried, Okx
  <1>10. QED
    BY <1>7, <1>8, <1>9 DEF RestInv

LEMMA MonitorRest ==
  ASSUME TypeOK, OwnTypes, RestInv, SocketLeaves, Monitor
  PROVE  RestInv'
  <1>0. ClientTypes /\ SocketTypes
    BY TypesSplit
  <1>1. CASE \/ MonitorEnds \/ NeedSeen \/ MonitorUnhooks \/ MonitorHooks \/ MonitorConnected
             \/ MonitorStoresConnected \/ MonitorFailed \/ SetRunning
    <2>1. /\ mon \notin {"send"} /\ mon' # "send" /\ owner' = owner
          /\ UNCHANGED <<venue, recordVars, current, carried>> /\ mishaps \subseteq mishaps'
          /\ \/ mon' = "watch" /\ need'
             \/ mon' # "watch" /\ (mon' \in Connecting => mon \in Connecting)
      BY <1>1 DEF MonitorEnds, NeedSeen, MonitorUnhooks, MonitorHooks, MonitorConnected,
                  MonitorStoresConnected, MonitorFailed, SetRunning, ClearCallbacks, SetCallbacks,
                  clientVars, Connecting
    <2>2. crossed' = crossed /\ inHand' = inHand
      BY <2>1, CrossedSame
    <2>3. Quiet
      BY <2>1, <2>2 DEF Quiet
    <2>4. QED
      BY <2>1, <2>3, QuietRest
  <1>2. CASE MonitorConnects
    <2>1. PICK c \in Conns : BeginConnect(c, UrlStreams)
      BY <1>2 DEF MonitorConnects
    <2>2. mon = "connect" /\ mon' = "connecting" /\ UNCHANGED <<venue, owner, recordVars, mishaps>>
      BY <1>2 DEF MonitorConnects
    <2>3. crossed' = crossed /\ inHand' = inHand
      BY <2>2, CrossedSame
    <2>4. copied = {} /\ resent = {}
      BY <2>2 DEF RestInv, SendsOnly
    <2>5. Okx => Carrying' = {}
      BY <1>0, <2>1 DEF BeginConnect, UrlStreams, Carrying, ClientTypes
    <2>6. NothingYet' /\ SendsOnly'
      BY <2>2, <2>3, <2>4 DEF recordVars, RestInv, NothingYet, SendsOnly, Okx
    <2>7. CarriedKnown' /\ KnownCarried'
      BY <2>2, <2>4, <2>5 DEF recordVars, CarriedKnown, KnownCarried, Okx
    <2>8. QED
      BY <2>6, <2>7 DEF RestInv
  <1>3. CASE ResubscribeCopies \/ ResubscribeSends \/ ResubscribeRecords
    BY <1>0, <1>3, CopyRest, SendsRest, RecordsRest
  <1>4. CASE ResubscribeEnds
    <2>1. /\ mon = "send" /\ mon' = "watch" /\ copied = {} /\ resent = {}
          /\ UNCHANGED <<clientVars, venue, flagVars, owner, recordVars, mishaps>>
      BY <1>4 DEF ResubscribeEnds
    <2>2. crossed' = crossed /\ inHand' = inHand
      BY <2>1, CrossedSame
    <2>3. Known' = Known /\ Carrying' = Carrying
      BY <2>1, <2>2 DEF clientVars, recordVars, Known, ToRecord, Recording, Erasing, Carrying
    <2>4. NothingYet' /\ SendsOnly'
      BY <2>1, <2>2 DEF recordVars, RestInv, NothingYet, SendsOnly, Okx
    <2>5. CarriedKnown'
      BY <2>1, <2>2, <2>3 DEF recordVars, RestInv, CarriedKnown, Connecting, Okx
    <2>6. KnownCarried'
      BY <2>1, <2>2, <2>3 DEF clientVars, recordVars, flagVars, RestInv, KnownCarried, Okx
    <2>7. QED
      BY <2>4, <2>5, <2>6 DEF RestInv
  <1>5. QED
    BY <1>1, <1>2, <1>3, <1>4 DEF Monitor

LEMMA OwnerRest ==
  ASSUME TypeOK, NoMonitor, RestInv, SocketLeaves, Owner \/ ShutsDown \/ HeartbeatEnds
  PROVE  RestInv'
  <1>0. ClientTypes /\ SocketTypes
    BY TypesSplit
  <1> USE DEF Served, Serving
  <1>1. CASE \/ OwnerHooks \/ (\E result \in BOOLEAN : OwnerConnected(result)) \/ OkxStoresConnected
             \/ OkxStoresRunning \/ (OkxSubscribes /\ owner' = "ready") \/ ShutsDown \/ MonitorJoined
             \/ Destroyed \/ HeartbeatEnds
    <2>1. /\ mon' = mon /\ UNCHANGED <<venue, recordVars, carried>> /\ current' \in {current, NoConn}
          /\ mishaps \subseteq mishaps' /\ (need => need' \/ ~ connected')
          /\ (connected' => connected \/ mon = "none")
          /\ owner' = owner \/ (owner # "record" /\ owner' # "record")
          /\ Okx /\ owner' \notin Served => owner \notin Served
      <3>1. CASE OwnerHooks \/ (\E result \in BOOLEAN : OwnerConnected(result)) \/ OkxStoresConnected
                   \/ OkxStoresRunning
        BY <1>0, <3>1 DEF OwnerHooks, OwnerConnected, SetCallbacks, OkxStoresConnected, OkxStoresRunning,
                          clientVars, flagVars, NoMonitor, Early
      <3>2. CASE OkxSubscribes /\ owner' = "ready"
        BY <1>0, <3>2 DEF OkxSubscribes, flagVars
      <3>3. CASE ShutsDown \/ MonitorJoined \/ Destroyed \/ HeartbeatEnds
        BY <1>0, <3>3 DEF ShutsDown, Disconnects, MonitorJoined, Destroyed, Shutdown, HeartbeatEnds,
                          clientVars, flagVars
      <3>4. QED
        BY <1>1, <3>1, <3>2, <3>3
    <2>2. crossed' = crossed /\ inHand' = inHand
      BY <2>1, CrossedSame
    <2>3. Quiet
      BY <2>1, <2>2 DEF Quiet
    <2>4. QED
      BY <2>1, <2>3, QuietRest
  <1>2. CASE OwnerConnects
    <2>1. PICK c \in Conns : BeginConnect(c, UrlStreams)
      BY <1>2 DEF OwnerConnects
    <2>2. /\ owner = "connect" /\ owner' = "connecting" /\ mon = "none" /\ mon' = mon
          /\ recorded' = recorded \cup UrlStreams /\ UNCHANGED <<venue, copied, resent, mishaps>>
      BY <1>2 DEF OwnerConnects, NoMonitor, Early
    <2>3. crossed' = crossed /\ inHand' = inHand
      BY <2>2, CrossedSame
    <2>4. copied = {} /\ resent = {}
      BY <2>2 DEF RestInv, SendsOnly
    <2>5. Okx => Carrying' = {} /\ recorded' = recorded
      BY <1>0, <2>1, <2>2 DEF BeginConnect, UrlStreams, Carrying, ClientTypes
    <2>6. NothingYet' /\ SendsOnly'
      BY <2>2, <2>3, <2>4, <2>5 DEF RestInv, NothingYet, SendsOnly, Okx
    <2>7. CarriedKnown' /\ KnownCarried'
      BY <2>2, <2>4, <2>5 DEF CarriedKnown, KnownCarried, Okx
    <2>8. QED
      BY <2>6, <2>7 DEF RestInv
  <1>3. CASE OkxClearsNeed
    <2>1. /\ owner = "clear" /\ owner' = "subscribe" /\ mon = "none" /\ mon' = "watch"
          /\ UNCHANGED <<clientVars, venue, recordVars>>
      BY <1>3 DEF OkxClearsNeed, NoMonitor, Early
    <2>2. crossed' = crossed /\ inHand' = inHand
      BY <2>1, CrossedSame
    <2>3. Okx => inHand = NoCall /\ recorded = {}
      BY <2>1 DEF RestInv, NothingYet
    <2>4. Known' = Known /\ Carrying' = Carrying
      BY <2>1, <2>2 DEF clientVars, recordVars, Known, ToRecord, Recording, Erasing, Carrying
    <2>5. Okx => Known = {}
      BY <2>1, <2>3 DEF Known, ToRecord, Recording, NoCall
    <2>6. NothingYet' /\ SendsOnly'
      BY <2>1, <2>2 DEF recordVars, RestInv, NothingYet, SendsOnly, Okx
    <2>7. CarriedKnown'
      BY <2>1, <2>2, <2>4 DEF recordVars, RestInv, CarriedKnown, Connecting, Okx
    <2>8. KnownCarried'
      BY <2>1, <2>4, <2>5 DEF KnownCarried, Okx
    <2>9. QED
      BY <2>6, <2>7, <2>8 DEF RestInv
  <1>4. CASE OkxSubscribes /\ owner' # "ready"
    <2>1. /\ owner = "subscribe" /\ owner' = "record" /\ Reaches
          /\ carried' = [carried EXCEPT ![current] = @ \cup {Main}]
          /\ UNCHANGED <<conn, current, venue, connected, need, mon, recordVars, mishaps>>
      BY <1>4 DEF OkxSubscribes, flagVars
    <2>2. crossed' = crossed /\ inHand' = inHand
      BY <2>1, CrossedSame
    <2>3. Carrying' = Carrying \cup {Main} /\ (current' \in Conns <=> current \in Conns)
      BY <1>0, <2>1 DEF Carrying, Reaches, ClientTypes
    <2>4. Known' = Known \cup {Main}
      BY <2>1, <2>2 DEF recordVars, Known, ToRecord, Recording, Erasing
    <2>5. NothingYet' /\ SendsOnly'
      BY <2>1, <2>2 DEF recordVars, RestInv, NothingYet, SendsOnly, Okx
    <2>6. CarriedKnown'
      BY <2>1, <2>2, <2>3, <2>4 DEF recordVars, RestInv, CarriedKnown, Connecting, Okx
    <2>7. KnownCarried'
      BY <2>1, <2>2, <2>3, <2>4 DEF recordVars, RestInv, KnownCarried, Okx
    <2>8. QED
      BY <2>5, <2>6, <2>7 DEF RestInv
  <1>5. CASE OkxRecords
    <2>1. /\ owner = "record" /\ owner' = "ready" /\ recorded' = recorded \cup {Main}
          /\ UNCHANGED <<clientVars, venue, flagVars, mon, copied, resent, mishaps>>
      BY <1>5 DEF OkxRecords
    <2>2. crossed' = crossed /\ inHand' = inHand
      BY <2>1, CrossedSame
    <2>3. Okx => inHand = NoCall
      BY <2>1 DEF RestInv, NothingYet
    <2>4. Carrying' = Carrying /\ (Okx => Known' = Known)
      BY <2>1, <2>2, <2>3 DEF clientVars, Carrying, Known, ToRecord, Recording, Erasing, NoCall
    <2>5. NothingYet' /\ SendsOnly'
      BY <2>1, <2>2 DEF RestInv, NothingYet, SendsOnly, Okx
    <2>6. CarriedKnown'
      BY <2>1, <2>2, <2>4 DEF RestInv, CarriedKnown, Connecting, Okx
    <2>7. KnownCarried'
      BY <2>1, <2>2, <2>4 DEF clientVars, flagVars, RestInv, KnownCarried, Okx
    <2>8. QED
      BY <2>5, <2>6, <2>7 DEF RestInv
  <1>6. CASE BinanceStoresConnected \/ BinanceFailed \/ HealthCheck \/ Replaced
    <2>1. ~ Okx /\ ~ Okx' /\ UNCHANGED <<copied, resent>>
      BY <1>6 DEF BinanceStoresConnected, BinanceFailed, HealthCheck, Disconnects, Replaced, recordVars, Okx
    <2>2. QED
      BY <2>1 DEF RestInv, NothingYet, SendsOnly, CarriedKnown, KnownCarried
  <1>7. owner' = "ready" \/ owner' # "ready"
    OBVIOUS
  <1>8. QED
    BY <1>1, <1>2, <1>3, <1>4, <1>5, <1>6, <1>7 DEF Owner

(* A request is carried and known at once; one that takes away a stream    *)
(* the monitor has in hand crosses it.                                     *)
LEMMA RequestRest ==
  ASSUME ClientTypes, SocketTypes, OwnTypes, RestInv, Okx, owner \in Serving, ThreadLeaves,
         inHand = NoCall, NEW x \in Streams, SendSubscribe(x) \/ SendUnsubscribe(x), Sends
  PROVE  RestInv'
  <1>1. /\ UNCHANGED <<conn, current, venue, connected, need, mon, owner, recordVars, mishaps>>
        /\ current \in Conns /\ Okx'
    BY DEF ThreadLeaves, flagVars, Sends, Reaches, ClientTypes, Okx
  <1>2. Known = recorded
    BY DEF Known, ToRecord, Recording, Erasing, NoCall, Serving
  <1>3. NothingYet' /\ SendsOnly'
    BY <1>1 DEF recordVars, RestInv, NothingYet, SendsOnly, Okx, Served
  <1>4. CASE SendSubscribe(x)
    <2>1. /\ carried' = [carried EXCEPT ![current] = @ \cup {x}] /\ crossed' = crossed \ {x}
          /\ Recording' = {x} /\ Erasing' = {}
      BY <1>4 DEF SendSubscribe, Recording, Erasing
    <2>2. Carrying' = Carrying \cup {x} /\ Known' = Known \cup {x}
      BY <1>1, <1>2, <2>1 DEF Carrying, ClientTypes, recordVars, Known, ToRecord, Serving
    <2>3. CarriedKnown'
      BY <1>1, <2>1, <2>2 DEF recordVars, RestInv, CarriedKnown, Connecting, Okx
    <2>4. KnownCarried'
      BY <1>1, <2>1, <2>2 DEF recordVars, RestInv, KnownCarried, Okx
    <2>5. QED
      BY <1>3, <2>3, <2>4 DEF RestInv
  <1>5. CASE SendUnsubscribe(x)
    <2>1. /\ carried' = [carried EXCEPT ![current] = @ \ {x}]
          /\ crossed' = IF x \in copied \cup resent THEN crossed \cup {x} ELSE crossed \ {x}
          /\ Recording' = {} /\ Erasing' = {x}
      BY <1>5 DEF SendUnsubscribe, Recording, Erasing
    <2>2. Carrying' = Carrying \ {x} /\ Known' = Known \ {x}
      BY <1>1, <1>2, <2>1 DEF Carrying, ClientTypes, recordVars, Known, ToRecord, Serving
    <2>3. CarriedKnown'
      BY <1>1, <2>1, <2>2 DEF recordVars, RestInv, CarriedKnown, Connecting, Okx
    <2>4. KnownCarried'
      BY <1>1, <2>1, <2>2 DEF recordVars, RestInv, KnownCarried, Okx
    <2>5. QED
      BY <1>3, <2>3, <2>4 DEF RestInv
  <1>6. QED
    BY <1>4, <1>5

LEMMA ThreadRest ==
  ASSUME ClientTypes, SocketTypes, OwnTypes, RestInv, SubscriptionThread
  PROVE  RestInv'
  <1>1. ThreadLeaves /\ Okx /\ owner \in Serving /\ mon' = mon
    BY DEF SubscriptionThread, ThreadLeaves, Serving
  <1>2. ASSUME UNCHANGED <<carried, inHand, crossed>> PROVE RestInv'
    <2>1. Quiet /\ owner' = owner /\ Okx'
      BY <1>1, <1>2 DEF ThreadLeaves, flagVars, Quiet, Okx
    <2>2. QED
      BY <2>1, QuietRest
  <1>3. ASSUME NEW s \in Strategies, StrategyDies(s) PROVE RestInv'
    BY <1>2, <1>3 DEF StrategyDies
  <1>4. ASSUME NEW s \in Strategies, NEW x \in Streams, inHand = NoCall, Request(s, x) PROVE RestInv'
    <2>1. SendsNothing \/ SendSubscribe(x) \/ SendUnsubscribe(x)
      BY <1>4 DEF Request, SubscribeKline, UnsubscribeKline, SubscribeOther, UnsubscribeOther
    <2>2. CASE SendsNothing \/ ~ Sends
      BY <1>2, <2>1, <2>2 DEF SendsNothing, SendSubscribe, SendUnsubscribe
    <2>3. CASE Sends /\ ~ SendsNothing
      BY <1>1, <1>4, <2>1, <2>3, RequestRest
    <2>4. QED
      BY <2>2, <2>3
  <1>5. QED
    BY <1>3, <1>4 DEF SubscriptionThread, Request

LEMMA CallEndsRest ==
  ASSUME RestInv, MainListed, CallEnds
  PROVE  RestInv'
  <1>1. /\ UNCHANGED <<clientVars, venue, flagVars, mon, owner, copied, resent, mishaps, crossed>>
        /\ recorded' = (recorded \cup Recording) \ Erasing /\ inHand' = NoCall
        /\ Recording' = {} /\ Erasing' = {}
    BY CallEndsFacts
  <1>2. Okx /\ owner \in Served
    BY DEF CallEnds, MainListed
  <1>3. Carrying' = Carrying /\ Known' = Known
    <2>1. Recording \cap Erasing = {}
      BY DEF Recording, Erasing
    <2>2. QED
      BY <1>1, <2>1 DEF clientVars, Carrying, Known, ToRecord
  <1>4. NothingYet' /\ SendsOnly'
    BY <1>1, <1>2 DEF RestInv, NothingYet, SendsOnly, Okx
  <1>5. CarriedKnown' /\ KnownCarried'
    BY <1>1, <1>2, <1>3 DEF clientVars, flagVars, RestInv, CarriedKnown, KnownCarried, Okx
  <1>6. QED
    BY <1>4, <1>5 DEF RestInv

LEMMA NextRest ==
  SubTypeOK /\ NoMonitor /\ KeptInv /\ RestInv /\ [SubNext]_<<vars, subVars>> => RestInv'
  <1> SUFFICES ASSUME SubTypeOK, NoMonitor, KeptInv, RestInv, [SubNext]_<<vars, subVars>>
               PROVE  RestInv'
    OBVIOUS
  <1>0. TypeOK /\ ClientTypes /\ SocketTypes /\ OwnTypes
    BY SubTypesSplit DEF SubTypeOK
  <1>1. CASE [Next]_vars /\ SocketLeaves
    <2>1. CASE Next
      BY <1>0, <1>1, <2>1, NetworkRest, MonitorRest, OwnerRest DEF Next
    <2>2. CASE UNCHANGED vars
      <3>1. mon' = mon /\ owner' = owner /\ Okx' = Okx
        BY <2>2 DEF vars, Okx
      <3>2. crossed' = crossed /\ inHand' = inHand
        BY <1>1, <3>1, CrossedSame
      <3>3. Quiet
        BY <2>2, <3>2 DEF vars, clientVars, flagVars, Quiet
      <3>4. QED
        BY <3>1, <3>3, QuietRest
    <2>3. QED
      BY <1>1, <2>1, <2>2
  <1>2. CASE SubscriptionThread
    BY <1>0, <1>2, ThreadRest
  <1>3. CASE CallEnds
    BY <1>3, CallEndsRest DEF KeptInv
  <1>4. QED
    BY <1>1, <1>2, <1>3, SubStep

(* At rest the connection carries what is recorded, neither less nor more, *)
(* after any sequence of drops, reconnects and requests, as long as none   *)
(* of the mishaps happened - but for the streams that the last             *)
(* resubscription and a call had in hand at once (okx_websocket.cpp).      *)
THEOREM RestCarried == SubSpec => []AtRestCarried
  <1>1. SubTypeOK /\ RestInv => AtRestCarried
    <2> SUFFICES ASSUME SubTypeOK, RestInv, Okx, mon = "watch", owner # "record", inHand = NoCall,
                        ~ need, connected, Reaches, mishaps = {}
                 PROVE  carried[current] \ crossed \subseteq recorded /\ recorded \ crossed \subseteq carried[current]
      BY DEF AtRestCarried
    <2>1. current \in Conns /\ Carrying = carried[current] /\ copied = {}
      BY NoConnFact DEF SubTypeOK, TypeOK, Reaches, Carrying, RestInv, SendsOnly
    <2>2. Known = recorded
      BY DEF Known, ToRecord, Recording, Erasing, NoCall
    <2>3. QED
      BY <2>1, <2>2 DEF RestInv, CarriedKnown, KnownCarried
  <1>2. StatusInv => NoMonitor
    BY DEF StatusInv
  <1>3. SubInit => StatusInv
    BY InitStatus DEF SubInit
  <1>4. QED
    BY <1>1, <1>2, <1>3, InitSubTypes, NextSubTypes, InitKept, NextKept, SubStatus, InitRest, NextRest, PTL
       DEF SubSpec

=============================================================================
