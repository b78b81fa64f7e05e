------------------------------ MODULE OrderTable ------------------------------
(***************************************************************************)
(* The strategy's side of an order: active_orders_ and the send functions  *)
(* of TradingModule (trading_module.h).  A single order is pushed first    *)
(* and recorded after, in the same call; the entries of a batch are        *)
(* recorded first.  An entry is never removed.                             *)
(***************************************************************************)
EXTENDS Channels

CONSTANTS
    Orders,             \* client order ids
    OnBinance           \* the orders that go to Binance; the others go to OKX

ASSUME OnBinanceAssumption == OnBinance \subseteq Orders

CONSTANT NoOrder
ASSUME NoOrderAssumption == NoOrder \notin Orders

VARIABLES
    table,              \* status in active_orders_, "absent" without an entry
    sending,            \* the order pushed and not yet recorded, or NoOrder
    unsent,             \* history: recorded in a batch whose send threw
    batched             \* history: sent in a batch

tableVars == <<table, sending, unsent, batched>>

Pending == {"submitted", "accepted", "partial"}
Finished == {"filled", "cancelled", "rejected", "failed"}

TableInit ==
    /\ table = [o \in Orders |-> "absent"]
    /\ sending = NoOrder
    /\ unsent = {} /\ batched = {}

Place(o) == [kind |-> "place", orders |-> {o}]
Batch(B) == [kind |-> "batch", orders |-> B]
Cancel(o) == [kind |-> "cancel", orders |-> {o}]
CancelAll == [kind |-> "cancel_all", orders |-> {}]
ChangeLeverage == [kind |-> "leverage", orders |-> {}]

(* generate_client_order_id: an id that this process has not used. *)
NewId(o) == table[o] = "absent" /\ sending # o

Submitted(B) == table' = [o \in Orders |-> IF o \in B THEN "submitted" ELSE table[o]]

(* What the nine functions that send one order share: the server may       *)
(* answer before the entry is written.                                     *)
SendOrder(o) ==
    /\ sending = NoOrder /\ NewId(o)
    /\ Push(Place(o))
    /\ sending' = o
    /\ UNCHANGED <<table, unsent, batched, inbox, joined>>

(* They differ in the exchange and in fields the properties do not see. *)
SendSwapMarketOrder(o) == o \notin OnBinance /\ SendOrder(o)
SendSwapTpSlOrder(o) == o \notin OnBinance /\ SendOrder(o)
SendSwapAdvancedOrder(o) == o \notin OnBinance /\ SendOrder(o)
SendBinanceMarketWithPrice(o) == o \in OnBinance /\ SendOrder(o)
SendBinanceFuturesOrder(o) == o \in OnBinance /\ SendOrder(o)

(* Mutant: the order is recorded when its first report comes. *)
RecordLater ==
    /\ sending # NoOrder
    /\ sending' = NoOrder
    /\ UNCHANGED <<table, unsent, batched, channelVars>>

RecordOrder ==
    /\ sending # NoOrder
    /\ Submitted({sending})
    /\ sending' = NoOrder
    /\ UNCHANGED <<unsent, batched, channelVars>>

SendBatchOrders(B) ==
    /\ sending = NoOrder
    /\ B # {} /\ \A o \in B : NewId(o)
    /\ B \subseteq OnBinance \/ B \cap OnBinance = {}
    /\ Submitted(B)
    /\ batched' = batched \cup B
    /\ \/ Push(Batch(B)) /\ UNCHANGED unsent
       \/ unsent' = unsent \cup B /\ UNCHANGED requests      \* send threw
    /\ UNCHANGED <<sending, inbox, joined>>

CancelOrder(o) ==
    /\ sending = NoOrder /\ table[o] # "absent"
    /\ Push(Cancel(o))
    /\ UNCHANGED <<tableVars, inbox, joined>>

CancelAllOrders ==
    /\ sending = NoOrder
    /\ Push(CancelAll)
    /\ UNCHANGED <<tableVars, inbox, joined>>

LeverageRequest ==
    /\ sending = NoOrder
    /\ Push(ChangeLeverage)
    /\ UNCHANGED <<tableVars, inbox, joined>>

(* The words of a report that change an entry; any other leaves it.  *)
StatusOf ==
    [accepted |-> "accepted", filled |-> "filled",
     partially_filled |-> "partial", partial_filled |-> "partial",
     cancelled |-> "cancelled", canceled |-> "cancelled",
     rejected |-> "rejected", failed |-> "failed", error |-> "failed"]

(* Mutant: the word the server uses for an OKX order is not known. *)
AcceptedUnknown(o, word) ==
    table' = IF table[o] # "absent" /\ word \in DOMAIN StatusOf \ {"accepted"}
               THEN [table EXCEPT ![o] = StatusOf[word]]
               ELSE table

(* update_order_from_report: whatever the entry said before. *)
UpdateOrderFromReport(o, word) ==
    table' = IF table[o] # "absent" /\ word \in DOMAIN StatusOf
               THEN [table EXCEPT ![o] = StatusOf[word]]
               ELSE table

=============================================================================
