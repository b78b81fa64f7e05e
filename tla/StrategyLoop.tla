----------------------------- MODULE StrategyLoop -----------------------------
(***************************************************************************)
(* A strategy process and the server it talks to.  The strategy's main     *)
(* loop (run in py_strategy_base.h) drains the one report socket twice in  *)
(* every turn: process_account_reports hands each report to the module it  *)
(* is for, then process_order_reports takes what has arrived since and     *)
(* treats every report as one about an order.  Calls of the strategy's     *)
(* code (callbacks, tasks, on_tick) send the requests.                     *)
(***************************************************************************)
EXTENDS StrategyServer

VARIABLE at             \* the loop's place: account, orders, tasks or stopped

vars == <<channelVars, tableVars, accountVars, serverVars, at>>

Init == ChannelInit /\ TableInit /\ AccountInit /\ ServerInit /\ at = "account"

Free == at # "stopped" /\ sending = NoOrder

(* process_account_reports: batch_report and the rest change no state. *)
Dispatch(m) ==
    /\ IF m.kind = "order"
         THEN UpdateOrderFromReport(m.order, m.word) ELSE UNCHANGED table
    /\ CASE m.kind \in {"register", "unregister"} -> HandleRegisterReport(m)
         [] m.kind = "position_update" -> HandlePositionUpdate(m)
         [] OTHER -> UNCHANGED accountVars

DrainAccountReport ==
    /\ Free /\ at = "account"
    /\ \E m \in Queued(inbox) : Receive(m) /\ Dispatch(m)
    /\ UNCHANGED <<requests, joined, sending, unsent, batched, serverVars, at>>

(* Mutant: the second drain drops the reports about orders. *)
DrainDropsOrders ==
    /\ Free /\ at = "orders"
    /\ \E m \in Queued(inbox) : Receive(m)
    /\ UNCHANGED <<requests, joined, tableVars, accountVars, serverVars, at>>

(* process_order_reports: a register_report that comes here updates no     *)
(* account, a position_update is dropped.                                  *)
DrainOrderReport ==
    /\ Free /\ at = "orders"
    /\ \E m \in Queued(inbox) :
          /\ Receive(m)
          /\ IF m.kind = "order"
               THEN UpdateOrderFromReport(m.order, m.word) ELSE UNCHANGED table
    /\ UNCHANGED <<requests, joined, sending, unsent, batched>>
    /\ UNCHANGED <<accountVars, serverVars, at>>

NextStage ==
    /\ Free
    /\ at \in {"account", "orders"} => inbox = <<>>
    /\ at' = CASE at = "account" -> "orders"
               [] at = "orders" -> "tasks"
               [] at = "tasks" -> "account"
    /\ UNCHANGED <<channelVars, tableVars, accountVars, serverVars>>

(* The loop ends after stop or an interrupt; the sockets are closed. *)
Stop ==
    /\ Free /\ at = "account"
    /\ at' = "stopped"
    /\ inbox' = <<>> /\ joined' = FALSE
    /\ unheard' = unheard \cup {o \in Orders : table[o] = "submitted"}
    /\ UNCHANGED <<requests, tableVars, accountVars>>
    /\ UNCHANGED <<exchange, executed, account, doubtful, crashes>>

OrderCalls ==
    /\ at # "stopped"
    /\ \/ \E o \in Orders :
             \/ SendSwapMarketOrder(o) \/ SendSwapTpSlOrder(o) \/ SendSwapAdvancedOrder(o)
             \/ SendBinanceMarketWithPrice(o) \/ SendBinanceFuturesOrder(o)
             \/ CancelOrder(o)
       \/ \E B \in SUBSET Orders : SendBatchOrders(B)
       \/ CancelAllOrders
       \/ LeverageRequest
    /\ UNCHANGED <<accountVars, serverVars, at>>

Record == RecordOrder /\ UNCHANGED <<accountVars, serverVars, at>>

AccountCalls ==
    /\ Free
    /\ RegisterAccount \/ UnregisterAccount \/ RefreshAccount \/ RefreshPositions \/ ClearPositions
    /\ UNCHANGED <<tableVars, serverVars, at>>

LoopTurn == DrainAccountReport \/ DrainOrderReport \/ NextStage

Positions == 0 .. MaxPosition

Serve ==
    /\ \/ \E o \in Orders : \/ \E st \in {"open", "filled"}, part \in BOOLEAN : PlaceTaken(o, st, part)
                            \/ PlaceRefused(o)
                            \/ \E arrived \in BOOLEAN : PlaceLost(o, arrived)
                            \/ \E works \in BOOLEAN : ServeCancel(o, works)
       \/ \E B \in SUBSET Orders : \E A \in SUBSET B : ServeBatch(B, A)
       \/ \E r \in Queued(requests) : ServeOther(r)
       \/ \E valid \in BOOLEAN : ServeRegister(valid)
       \/ ServeUnregister
       \/ \E outcome \in {"error", "garbled", "fresh", "cached"}, v \in Positions \ {0} :
             ServePositions(outcome, v)
    /\ UNCHANGED at

Environment ==
    /\ \/ \E o \in Orders : \E all \in BOOLEAN : Trade(o, all)
       \/ \E o \in Orders : EndAtExchange(o)
       \/ \E n \in 0 .. RequestBound : \E A \in SUBSET Orders : Crash(n, A)
       \/ \E v \in Positions : PositionMoves(v) /\ UNCHANGED <<tableVars, serverVars>>
    /\ UNCHANGED at

Joins == Join /\ at # "stopped" /\ UNCHANGED <<tableVars, accountVars, serverVars, at>>

Next ==
    \/ LoopTurn \/ Stop \/ OrderCalls \/ Record \/ AccountCalls
    \/ Serve \/ Environment \/ Joins

(* The loop turns, the order thread serves: while(running_) and no call    *)
(* blocks for ever (every REST call has a timeout).                        *)
Fairness == WF_vars(LoopTurn) /\ WF_vars(Record) /\ WF_vars(Serve)

Spec == Init /\ [][Next]_vars /\ Fairness

-----------------------------------------------------------------------------
Messages ==
    {Report(o, w) : o \in Orders, w \in {"accepted", "submitted", "filled", "rejected"}}
      \cup {AccountReport("register", s) : s \in {"registered", "rejected"}}
      \cup {AccountReport("unregister", s) : s \in {"unregistered", "rejected"}}
      \cup {PositionReport(f, v, c) : f \in {"error", "garbled", "fine"}, v \in Positions, c \in BOOLEAN}
      \cup {OtherReport}

Requests ==
    {Place(o) : o \in Orders} \cup {Cancel(o) : o \in Orders}
      \cup {Batch(B) : B \in SUBSET Orders}
      \cup {CancelAll, ChangeLeverage}
      \cup {Ask(k) : k \in {"register", "unregister", "query_account", "query_positions"}}

(* Every variable has its type (Channels, TradingModule, AccountModule and *)
(* the server's view).                                                     *)
TypeOK ==
    /\ requests \in Seq(Requests) /\ Len(requests) =< RequestBound
    /\ inbox \in Seq(Messages) /\ Len(inbox) =< ReportHwm
    /\ joined \in BOOLEAN
    /\ table \in [Orders -> {"absent", "submitted", "accepted", "filled", "rejected"}]
    /\ sending \in Orders \cup {NoOrder}
    /\ unsent \subseteq Orders /\ batched \subseteq Orders
    /\ registered \in BOOLEAN /\ queryDone \in BOOLEAN /\ queryError \in BOOLEAN
    /\ view \in Positions /\ held \in Positions /\ heldSince \subseteq Positions
    /\ clean \in BOOLEAN /\ viewCached \in BOOLEAN
    /\ exchange \in [Orders -> {"none", "open", "filled", "gone"}]
    /\ executed \subseteq Orders /\ doubtful \subseteq Orders /\ unheard \subseteq Orders
    /\ account \in BOOLEAN /\ crashes \in 0 .. MaxCrashes
    /\ at \in {"account", "orders", "tasks", "stopped"}

AtExchange(o) == exchange[o] # "none"

(* What active_orders_ says of an order is so at the exchange, whichever   *)
(* way reports were dropped or the server died; "rejected" is in doubt     *)
(* only where the REST call brought no answer.                             *)
ShownIsTrue ==
    \A o \in Orders :
        /\ table[o] = "accepted" => AtExchange(o)
        /\ table[o] = "filled" => o \in executed
        /\ table[o] = "rejected" => ~ AtExchange(o) \/ o \in doubtful

(* No order works at the exchange unknown to the strategy: it is pending   *)
(* in active_orders_ or being recorded, unless its call brought no answer  *)
(* or Binance reported a part of it as filled.                             *)
LiveIsPending ==
    \A o \in Orders :
        exchange[o] = "open" =>
            table[o] \in Pending \/ sending = o \/ o \in doubtful \/ o \in executed

PlaceUnderWay(o) ==
    \/ Place(o) \in Queued(requests)
    \/ \E m \in Queued(inbox) : m.kind = "order" /\ m.order = o

(* An entry that stands at "submitted" has one of these reasons: it went   *)
(* in a batch, the request or the report is under way, one of the two was  *)
(* lost, or Binance took the order and the word for that is not read.      *)
SubmittedExplained ==
    \A o \in Orders :
        table[o] = "submitted" =>
            \/ o \in batched \cup unheard
            \/ PlaceUnderWay(o)
            \/ o \in OnBinance /\ AtExchange(o)

(* After clear_positions with no query under way, a refresh that is done   *)
(* without error shows a position that was held at some moment since,      *)
(* unless the server answered from its cache.                              *)
RefreshedViewFresh ==
    queryDone /\ ~ queryError /\ clean /\ ~ viewCached => view \in heldSince

(* An order's life: the strategy's table and the exchange implement        *)
(* OrderLife.  An order that is pushed and not yet recorded counts as      *)
(* submitted.                                                              *)
Life == INSTANCE OrderLife WITH
    shown <- [o \in Orders |-> IF o = sending THEN "submitted" ELSE table[o]],
    real <- exchange, traded <- executed, doubt <- doubtful

LifeSpec == Life!Spec

(* An OKX order that was sent alone is shown as accepted or rejected in    *)
(* the end, unless its request or report is lost.                          *)
SubmittedSettles ==
    \A o \in Orders \ OnBinance :
        table[o] = "submitted" /\ o \notin batched ~> table[o] # "submitted" \/ o \in unheard

=============================================================================
