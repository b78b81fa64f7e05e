---------------------------- MODULE StrategyServer ----------------------------
(***************************************************************************)
(* The trading server as one strategy sees it (order_processor.cpp): each  *)
(* request is taken from the order channel, acted upon and answered by at  *)
(* most one report.  What happens inside a handler is OrderProcessor's     *)
(* subject; here a handler is one step, unless the server dies in it.      *)
(***************************************************************************)
EXTENDS OrderTable, AccountView

CONSTANT MaxCrashes     \* bound of the model: restarts of the server
ASSUME MaxCrashesAssumption == MaxCrashes \in Nat

VARIABLES
    exchange,           \* none, open, filled or gone, for each order
    executed,           \* the orders that traded, in part or in full
    account,            \* the strategy has an account at the server
    doubtful,           \* history: orders whose REST call brought no answer
    unheard,            \* history: orders whose request or report was lost
    crashes             \* restarts so far

serverVars == <<exchange, executed, account, doubtful, unheard, crashes>>

ServerInit ==
    /\ exchange = [o \in Orders |-> "none"]
    /\ executed = {}
    /\ account \in BOOLEAN
    /\ doubtful = {} /\ unheard = {} /\ crashes = 0

Report(o, word) == [kind |-> "order", order |-> o, word |-> word]
AccountReport(kind, status) == [kind |-> kind, status |-> status]
OtherReport == [kind |-> "other"]   \* cancel_report, batch_report, leverage_report, ...

Arrive(A, st) == exchange' = [o \in Orders |-> IF o \in A THEN st ELSE exchange[o]]

Answer(o, word) ==
    /\ Publish(Report(o, word))
    /\ unheard' = IF Delivers THEN unheard ELSE unheard \cup {o}

Handled == UNCHANGED <<tableVars, accountVars, joined, crashes>>

(* Mutant: an order that trades at once is reported as merely accepted on  *)
(* OKX and as filled on Binance even when it did not trade.                *)
PlaceToldFilled(o, st, part) ==
    /\ Take(Place(o)) /\ account
    /\ Arrive({o}, st)
    /\ executed' = IF part \/ st = "filled" THEN executed \cup {o} ELSE executed
    /\ Answer(o, IF o \in OnBinance THEN "filled" ELSE "accepted")
    /\ UNCHANGED <<account, doubtful>> /\ Handled

(* The exchange takes the order.  Binance answers with what has traded; an *)
(* answer in which nothing has is reported as "submitted".                 *)
PlaceTaken(o, st, part) ==
    /\ Take(Place(o)) /\ account
    /\ Arrive({o}, st)
    /\ executed' = IF part \/ st = "filled" THEN executed \cup {o} ELSE executed
    /\ Answer(o, IF o \notin OnBinance THEN "accepted"
                 ELSE IF o \in executed' THEN "filled" ELSE "submitted")
    /\ UNCHANGED <<account, doubtful>> /\ Handled

(* No account, a risk limit, or the exchange says no. *)
PlaceRefused(o) ==
    /\ Take(Place(o))
    /\ Answer(o, "rejected")
    /\ UNCHANGED <<exchange, executed, account, doubtful>> /\ Handled

(* Mutant: the request is tried again after it was answered. *)
PlaceRetried(o, arrived) ==
    /\ requests # <<>> /\ Head(requests) = Place(o) /\ account
    /\ Arrive(IF arrived THEN {o} ELSE {}, "open")
    /\ doubtful' = doubtful \cup {o}
    /\ Answer(o, "rejected")
    /\ UNCHANGED <<requests, executed, account>> /\ Handled

(* The call throws: the order is reported as rejected wherever it is. *)
PlaceLost(o, arrived) ==
    /\ Take(Place(o)) /\ account
    /\ Arrive(IF arrived THEN {o} ELSE {}, "open")
    /\ doubtful' = doubtful \cup {o}
    /\ Answer(o, "rejected")
    /\ UNCHANGED <<executed, account>> /\ Handled

(* The orders of A are taken; the batch_report changes no entry. *)
ServeBatch(B, A) ==
    /\ Take(Batch(B)) /\ A \subseteq B
    /\ account \/ A = {}
    /\ Arrive(A, "open")
    /\ Publish(OtherReport)
    /\ UNCHANGED <<executed, account, doubtful, unheard>> /\ Handled

(* Cancels go to the OKX account: an order on Binance stays. *)
ServeCancel(o, works) ==
    /\ Take(Cancel(o))
    /\ works => account /\ exchange[o] = "open" /\ o \notin OnBinance
    /\ Arrive(IF works THEN {o} ELSE {}, "gone")
    /\ Publish(OtherReport)
    /\ UNCHANGED <<executed, account, doubtful, unheard>> /\ Handled

(* change_leverage and query_account; cancel_all_request has no handler. *)
ServeOther(r) ==
    /\ r \in {ChangeLeverage, CancelAll, Ask("query_account")}
    /\ Take(r)
    /\ IF r = CancelAll \/ (r = Ask("query_account") /\ ~ account)
         THEN UNCHANGED inbox
         ELSE Publish(OtherReport)
    /\ UNCHANGED serverVars /\ UNCHANGED <<tableVars, accountVars, joined>>

ServeRegister(valid) ==
    /\ Take(Ask("register"))
    /\ account' = (account \/ valid)
    /\ Publish(AccountReport("register", IF valid THEN "registered" ELSE "rejected"))
    /\ UNCHANGED <<exchange, executed, doubtful, unheard>> /\ Handled

ServeUnregister ==
    /\ Take(Ask("unregister"))
    /\ account' = FALSE
    /\ Publish(AccountReport("unregister", IF account THEN "unregistered" ELSE "rejected"))
    /\ UNCHANGED <<exchange, executed, doubtful, unheard>> /\ Handled

(* Without an account there is no report at all.  Where Binance answers    *)
(* that nothing is held, the monitor's last non-empty answer v is sent.    *)
ServePositions(outcome, v) ==
    /\ Take(Ask("query_positions"))
    /\ \/ ~ account /\ UNCHANGED inbox
       \/ account /\ outcome = "error" /\ Publish(PositionReport("error", 0, FALSE))
       \/ account /\ outcome = "garbled" /\ held # 0 /\ Publish(PositionReport("garbled", held, FALSE))
       \/ account /\ outcome = "fresh" /\ Publish(PositionReport("fine", held, FALSE))
       \/ account /\ outcome = "cached" /\ held = 0 /\ Publish(PositionReport("fine", v, TRUE))
    /\ UNCHANGED serverVars /\ UNCHANGED <<tableVars, accountVars, joined>>

(* What happens to an order at the exchange by itself. *)
Trade(o, all) ==
    /\ exchange[o] = "open"
    /\ exchange' = [exchange EXCEPT ![o] = IF all THEN "filled" ELSE "open"]
    /\ executed' = executed \cup {o}
    /\ UNCHANGED <<account, doubtful, unheard, crashes, tableVars, accountVars, channelVars>>

EndAtExchange(o) ==
    /\ exchange[o] = "open"
    /\ Arrive({o}, "gone")
    /\ UNCHANGED <<executed, account, doubtful, unheard, crashes>>
    /\ UNCHANGED <<tableVars, accountVars, channelVars>>

(* The server dies and comes back: the n requests it had received are      *)
(* gone, the orders A of the one in hand have arrived, and the strategy's  *)
(* subscription has to be made again.                                      *)
Crash(n, A) ==
    /\ crashes < MaxCrashes /\ crashes' = crashes + 1
    /\ n =< Len(requests)
    /\ requests' = SubSeq(requests, n + 1, Len(requests))
    /\ A # {} => n > 0 /\ account /\ Head(requests).kind \in {"place", "batch"}
                       /\ A \subseteq Head(requests).orders
    /\ Arrive(A, "open")
    /\ unheard' = unheard \cup UNION {requests[i].orders : i \in 1 .. n}
    /\ account' \in BOOLEAN
    /\ joined' = FALSE
    /\ UNCHANGED <<executed, doubtful, inbox, tableVars, accountVars>>

=============================================================================
