------------------------------- MODULE WsClient -------------------------------
(***************************************************************************)
(* The WebSocket client both exchange adapters use (ws_client.cpp).  It    *)
(* keeps a pointer to one connection, but the handlers of every connection *)
(* it ever made write the same two fields: a connection that opens or      *)
(* closes late speaks for its successor.                                   *)
(***************************************************************************)
EXTENDS Naturals, FiniteSets

CONSTANTS
    Conns,              \* connections, used again once they are gone
    Streams,            \* what an exchange can be asked to send
    MaxFaults           \* bound of the model: failures of the network

ASSUME ConnAssumption == Conns \subseteq Nat \ {0} /\ MaxFaults \in Nat

NoConn == 0

VARIABLES
    conn,               \* state of each connection: gone, opening, open, closing
    current,            \* connection_
    up,                 \* is_connected_ of the client
    hooked,             \* the callbacks are set
    carried,            \* what the exchange sends on a connection
    silent,             \* connections on which the exchange sends nothing
    faults              \* failures so far

clientVars == <<conn, current, up, hooked, carried, silent, faults>>

ClientInit ==
    /\ conn = [c \in Conns |-> "gone"]
    /\ current = NoConn /\ up = FALSE /\ hooked = FALSE
    /\ carried = [c \in Conns |-> {}]
    /\ silent = {} /\ faults = 0

Unused(c) == conn[c] = "gone" /\ \A d \in Conns : d < c => conn[d] # "gone"

Fault == faults < MaxFaults /\ faults' = faults + 1

Open(c) ==
    /\ conn[c] = "opening"
    /\ conn' = [conn EXCEPT ![c] = "open"]
    /\ up' = TRUE
    /\ UNCHANGED <<current, hooked, carried, silent, faults>>

(* connect: the old connection is closed only if the client is up and the  *)
(* pointer is there; one that is still opening is forgotten.               *)
BeginConnect(c, streams) ==
    /\ Unused(c)
    /\ conn' = [d \in Conns |->
                  IF d = c THEN "opening"
                  ELSE IF d = current /\ up /\ conn[d] = "open" THEN "closing"
                  ELSE conn[d]]
    /\ current' = c /\ up' = FALSE
    /\ carried' = [carried EXCEPT ![c] = streams]
    /\ silent' = silent \ {c}

(* The wait for the connection ends when the client is up, or after 5 s. *)
ConnectReturns(result) ==
    /\ result = up
    /\ IF ~ up /\ current # NoConn /\ conn[current] = "opening"
         THEN Fault ELSE UNCHANGED faults

(* The close and the fail handler of any connection, current or not. *)
HandlerRuns(c) ==
    /\ conn' = [conn EXCEPT ![c] = "gone"]
    /\ up' = FALSE /\ current' = NoConn
    /\ UNCHANGED <<hooked, carried, silent>>

Closed(c) ==
    /\ \/ conn[c] = "closing" /\ UNCHANGED faults
       \/ conn[c] = "open" /\ Fault
    /\ HandlerRuns(c)

Failed(c) == conn[c] = "opening" /\ Fault /\ HandlerRuns(c)

(* The connection stays open and nothing comes (trading_server_main.cpp,   *)
(* "cold" treatment by the exchange after many connections).               *)
GoSilent(c) ==
    /\ conn[c] = "open" /\ c \notin silent /\ Fault
    /\ silent' = silent \cup {c}
    /\ UNCHANGED <<conn, current, up, hooked, carried>>

ClearCallbacks == hooked' = FALSE /\ UNCHANGED <<conn, current, up, carried, silent, faults>>
SetCallbacks == hooked' = TRUE /\ UNCHANGED <<conn, current, up, carried, silent, faults>>

(* What send reaches: connection_ if the client is up and it is open. *)
Reaches == up /\ current # NoConn /\ conn[current] = "open"

(* The client is destroyed with all its connections. *)
Shutdown ==
    /\ conn' = [c \in Conns |-> "gone"]
    /\ current' = NoConn /\ up' = FALSE /\ hooked' = FALSE
    /\ UNCHANGED <<carried, silent, faults>>

Flowing(x) ==
    /\ hooked
    /\ \E c \in Conns : conn[c] = "open" /\ c \notin silent /\ x \in carried[c]

=============================================================================
