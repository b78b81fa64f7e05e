---------------------------- MODULE Subscriptions ----------------------------
(***************************************************************************)
(* Streams that strategies ask for while the OKX socket comes and goes:    *)
(* the subscription thread (handle_subscription in                         *)
(* subscription_manager.cpp), which counts the users of each kline stream  *)
(* and only lists the other channels, and the strategies' own record       *)
(* (market_data_module.h).  A request is handled in the step that sends    *)
(* it, since requests of one strategy keep their order, but the adapter    *)
(* writes its own record only after that.                                  *)
(***************************************************************************)
EXTENDS Reconnect, Integers

CONSTANTS
    Strategies,
    Counted,            \* kline streams, whose users are counted
    Depth,              \* order books; the rest are trades and funding rates
    MaxUsers            \* bound of the model: users counted of one stream

ASSUME CountedAssumption ==
    /\ Counted \cup Depth \subseteq Streams /\ Main \in Counted /\ MaxUsers \in Nat \ {0, 1}
    /\ IsFiniteSet(Strategies)

VARIABLES
    wants,              \* subscribed_klines_, subscribed_trades_ of each strategy
    listed,             \* g_subscribed_klines, g_subscribed_trades, ...
    users,              \* g_okx_kline_ref_count, 0 without an entry
    inHand,             \* the call that has sent and not yet recorded or erased
    crossed,            \* history: streams that the last resubscription and a
                        \* call had in hand at the same time
    unsent,             \* history: streams whose subscription met no connection
    taken               \* history: streams given up by one who did not have
                        \* them, or, if not counted, under another's feet

requestVars == <<wants, listed, users, unsent, taken>>
subVars == <<requestVars, inHand, crossed>>

NoCall == [does |-> "nothing", stream |-> Main]
Recording == IF inHand.does = "record" THEN {inHand.stream} ELSE {}
Erasing == IF inHand.does = "erase" THEN {inHand.stream} ELSE {}

SubInit ==
    /\ Init
    /\ wants = [s \in Strategies |-> {}]
    /\ listed = {Main}          \* main lists its own stream
    /\ users = [x \in Streams |-> 0]
    /\ inHand = NoCall /\ crossed = {}
    /\ unsent = {} /\ taken = {}

Sends == connected /\ Reaches

(* send_subscribe and send_unsubscribe send without the mutex; what could  *)
(* be sent is then recorded or erased under it (CallEnds).                 *)
SendSubscribe(x) ==
    IF Sends
      THEN /\ carried' = [carried EXCEPT ![current] = @ \cup {x}]
           /\ inHand' = [does |-> "record", stream |-> x]
           /\ crossed' = crossed \ {x}
           /\ unsent' = unsent \ {x}
      ELSE unsent' = unsent \cup {x} /\ UNCHANGED <<carried, inHand, crossed>>

SendUnsubscribe(x) ==
    /\ IF Sends
         THEN /\ carried' = [carried EXCEPT ![current] = @ \ {x}]
              /\ inHand' = [does |-> "erase", stream |-> x]
              /\ crossed' = IF x \in copied \cup resent THEN crossed \cup {x} ELSE crossed \ {x}
         ELSE UNCHANGED <<carried, inHand, crossed>>
    /\ UNCHANGED unsent

SendsNothing == UNCHANGED <<carried, inHand, crossed, unsent>>

CallEnds ==
    /\ inHand # NoCall
    /\ recorded' = (recorded \cup Recording) \ Erasing
    /\ inHand' = NoCall
    /\ UNCHANGED <<clientVars, venue, flagVars, mon, hb, owner, leaving, copied, resent, mishaps>>
    /\ UNCHANGED <<requestVars, crossed>>

Ask(s, x) == wants' = [wants EXCEPT ![s] = @ \cup {x}] /\ UNCHANGED taken

GiveUp(s, x) ==
    /\ wants' = [wants EXCEPT ![s] = @ \ {x}]
    /\ taken' = IF x \notin wants[s] \/ (x \notin Counted /\ \E t \in Strategies \ {s} : x \in wants[t])
                  THEN taken \cup {x} ELSE taken

(* Main's own use of a stream is counted when the first strategy comes. *)
SubscribeKline(s, x) ==
    /\ x \in Counted /\ users[x] < MaxUsers
    /\ Ask(s, x)
    /\ users' = [users EXCEPT ![x] = IF @ = 0 /\ x \in listed THEN 2 ELSE @ + 1]
    /\ listed' = listed \cup {x}
    /\ IF users[x] = 0 /\ x \notin listed THEN SendSubscribe(x) ELSE SendsNothing

(* Mutant: a stream without an entry is counted down as well. *)
UnsubscribeBelow(s, x) ==
    /\ x \in Counted
    /\ GiveUp(s, x)
    /\ users' = [users EXCEPT ![x] = @ - 1]
    /\ IF users[x] = 1
         THEN listed' = listed \ {x} /\ SendUnsubscribe(x)
         ELSE UNCHANGED listed /\ SendsNothing

(* Mutant: the last but one user takes the stream away. *)
UnsubscribeEarly(s, x) ==
    /\ x \in Counted
    /\ GiveUp(s, x)
    /\ users' = [users EXCEPT ![x] = IF @ < 3 THEN 0 ELSE @ - 1]
    /\ IF users[x] \in {1, 2}
         THEN listed' = listed \ {x} /\ SendUnsubscribe(x)
         ELSE UNCHANGED listed /\ SendsNothing

(* Without an entry the stream is main's alone and stays. *)
UnsubscribeKline(s, x) ==
    /\ x \in Counted
    /\ GiveUp(s, x)
    /\ users' = [users EXCEPT ![x] = IF @ = 0 THEN 0 ELSE @ - 1]
    /\ IF users[x] = 1
         THEN listed' = listed \ {x} /\ SendUnsubscribe(x)
         ELSE UNCHANGED listed /\ SendsNothing

(* Without a count every request counts, for an order book even one for    *)
(* what is listed.                                                         *)
SubscribeOther(s, x) ==
    /\ x \notin Counted
    /\ Ask(s, x)
    /\ listed' = listed \cup {x}
    /\ IF x \notin listed \/ x \in Depth THEN SendSubscribe(x) ELSE SendsNothing
    /\ UNCHANGED users

UnsubscribeOther(s, x) ==
    /\ x \notin Counted
    /\ GiveUp(s, x)
    /\ listed' = listed \ {x}
    /\ IF x \in listed \/ x \in Depth THEN SendUnsubscribe(x) ELSE SendsNothing
    /\ UNCHANGED users

(* Nobody tells the server that a strategy has died. *)
StrategyDies(s) ==
    /\ wants[s] # {}
    /\ wants' = [wants EXCEPT ![s] = {}]
    /\ UNCHANGED <<carried, listed, users, unsent, taken, inHand, crossed>>

SubscriptionThread ==
    /\ Okx /\ owner \in {"ready", "joinMonitor", "joinHeartbeat"}
    /\ \E s \in Strategies :
          \/ /\ inHand = NoCall
             /\ \E x \in Streams : \/ SubscribeKline(s, x) \/ UnsubscribeKline(s, x)
                                   \/ SubscribeOther(s, x) \/ UnsubscribeOther(s, x)
          \/ StrategyDies(s)
    /\ UNCHANGED <<conn, current, up, hooked, silent, faults>>
    /\ UNCHANGED <<venue, flagVars, mon, hb, owner, leaving, recordVars, mishaps>>

(* A new copy of the record settles what older ones left, but for the call *)
(* in hand.                                                                *)
Crossing ==
    crossed' = IF mon # "resubscribe" \/ mon' # "send" THEN crossed
               ELSE IF current \in Conns /\ Recording \subseteq carried[current]
                      THEN Erasing ELSE Recording \cup Erasing

SubNext ==
    \/ Next /\ Crossing /\ UNCHANGED <<requestVars, inHand>>
    \/ SubscriptionThread
    \/ CallEnds

SubSpec == SubInit /\ [][SubNext]_<<vars, subVars>> /\ Fairness

-----------------------------------------------------------------------------
(* Every variable has its type; no count falls below zero. *)
SubTypeOK ==
    /\ TypeOK
    /\ wants \in [Strategies -> SUBSET Streams]
    /\ listed \subseteq Streams /\ unsent \subseteq Streams /\ taken \subseteq Streams
    /\ users \in [Streams -> 0 .. MaxUsers]
    /\ inHand \in [does : {"nothing", "record", "erase"}, stream : Streams] /\ crossed \subseteq Streams

(* A kline stream that a strategy wants stays listed, and any stream that  *)
(* one wants is asked for again after a drop - whoever else subscribes,    *)
(* unsubscribes or dies, and whenever the socket is down - unless it was   *)
(* given up by one who did not have it, or its request met no connection.  *)
WantedIsKept ==
    \A s \in Strategies : \A x \in wants[s] :
        /\ x \in listed \cup taken
        /\ x \in recorded \cup Recording \cup taken \cup unsent \/ (x = Main /\ "not sent" \in mishaps)

(* The configured stream comes back after drops (FeedRecovers) while       *)
(* strategies use it as well, unless one of them takes it away by giving   *)
(* up what it did not have.                                                *)
FeedKept == FeedRecovers \/ <> (Main \in taken)

(* When the OKX socket is at rest and no call is in hand, the connection   *)
(* carries what is recorded, neither less nor more, but for streams that   *)
(* the last resubscription and a call of the subscription thread had in    *)
(* hand at the same time.                                                  *)
AtRestCarried ==
    Okx /\ mon = "watch" /\ owner # "record" /\ inHand = NoCall
        /\ ~ need /\ connected /\ Reaches /\ mishaps = {} =>
        \A x \in Streams \ crossed : x \in carried[current] <=> x \in recorded

=============================================================================
