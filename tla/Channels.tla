------------------------------- MODULE Channels -------------------------------
(***************************************************************************)
(* The ZeroMQ channels between one strategy process and the trading server *)
(* (zmq_server.cpp; connect in py_strategy_base.h): the order channel, a   *)
(* PUSH/PULL pair that keeps requests in order, and the report channel, a  *)
(* PUB/SUB pair that drops a report while the strategy's subscription has  *)
(* not arrived and when the strategy's queue is at the high-water mark.    *)
(***************************************************************************)
EXTENDS Naturals, Sequences, FiniteSets

CONSTANTS
    RequestBound,       \* bound of the model: requests waiting at one time
    ReportHwm           \* high-water mark of the report queue (1000 in ZeroMQ)

ASSUME ChannelAssumption == RequestBound \in Nat \ {0} /\ ReportHwm \in Nat \ {0}

VARIABLES
    requests,           \* what the server has not taken yet
    inbox,              \* reports waiting in the strategy's SUB socket
    joined              \* the SUB socket's subscription has reached the server

channelVars == <<requests, inbox, joined>>

ChannelInit == requests = <<>> /\ inbox = <<>> /\ joined = FALSE

Queued(q) == {q[i] : i \in 1 .. Len(q)}

Join == joined = FALSE /\ joined' = TRUE /\ UNCHANGED <<requests, inbox>>

Push(r) ==
    /\ Len(requests) < RequestBound
    /\ requests' = Append(requests, r)

Take(r) == requests # <<>> /\ r = Head(requests) /\ requests' = Tail(requests)

(* What is published now reaches the strategy. *)
Delivers == joined /\ Len(inbox) < ReportHwm

(* Mutant: a queue without a high-water mark. *)
PublishUnbounded(m) == inbox' = IF joined THEN Append(inbox, m) ELSE inbox

Publish(m) == inbox' = IF Delivers THEN Append(inbox, m) ELSE inbox

Receive(m) == inbox # <<>> /\ m = Head(inbox) /\ inbox' = Tail(inbox)

=============================================================================
