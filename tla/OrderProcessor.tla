---------------------------- MODULE OrderProcessor ----------------------------
(***************************************************************************)
(* The order thread (order_thread in trading_server_main.cpp) and the      *)
(* handlers of src/cpp/server/handlers/order_processor.cpp it runs: it     *)
(* takes one request at a time off the ZeroMQ order channel, runs it to    *)
(* the end and publishes the report.  Requests are not queued here: a      *)
(* request arrives when the thread takes it.                               *)
(*                                                                         *)
(* A REST call is two steps, so the exchange and the other threads can act *)
(* in between: the request reaches the exchange or is lost, and the answer *)
(* comes back or the call throws.  A call that throws may have reached the *)
(* exchange (a timeout).                                                   *)
(***************************************************************************)
EXTENDS Exchange

CONSTANTS
    BatchSize,          \* orders per Binance batch call (5 in the code)
    AmendValues         \* the sizes an amend request may ask for

ASSUME BatchAssumption ==
    /\ BatchSize \in Nat \ {0}
    /\ AmendValues \subseteq Nat

VARIABLES
    pc,                 \* what the order thread does next
    cur,                \* the orders of the request in service
    reply,              \* per order: what its REST call came back with
    report,             \* per order: the status reported to the strategy
    batchReport,        \* last batch_report: [orders, status], or NoBatch
    orderCount, okCount, failCount, \* g_order_count, _success, _failed
    passed              \* history: the orders check_order_with_value let by

threadVars == <<pc, cur, reply, report, batchReport>>
counterVars == <<orderCount, okCount, failCount>>
orderVars == <<pc, cur, reply, report, batchReport, orderCount, okCount, failCount, passed>>

Replies == {"none", "ok", "error", "lost", "missing"}
Statuses == {"none", "rejected", "submitted", "accepted", "filled"}
NoBatch == [orders |-> {}, status |-> "none"]

OrderInit ==
    /\ pc = "idle"
    /\ cur = {}
    /\ reply = [o \in Orders |-> "none"]
    /\ report = [o \in Orders |-> "none"]
    /\ batchReport = NoBatch
    /\ orderCount = 0 /\ okCount = 0 /\ failCount = 0
    /\ passed = {}

Fresh == {o \in Orders : ord[o] = NoOrder}
OnOkx(o) == ord[o].acct \in OkxAccounts

-----------------------------------------------------------------------------
(* process_place_order: the risk check, then one REST call.                *)

(* What the order is checked at: the worth the request states, else its    *)
(* price times its quantity - the estimated price, if it states one, where *)
(* it has none.  A market order that states neither is checked at 0, and   *)
(* an OKX order in contracts at its price times their number.              *)
CheckedValue(t) ==
    IF t.told # NoFigure THEN t.told
    ELSE LET estimated == (t.price = 0 \/ t.type = "market") /\ t.estimate # NoFigure
         IN  (IF estimated THEN t.estimate ELSE t.price) * t.qty

PlaceOrderRejected(o, t, rateOk) ==
    /\ pc = "idle" /\ o \in Fresh
    /\ ~ CheckOrder(t, CheckedValue(t), rateOk)
    /\ ord' = [ord EXCEPT ![o] = t]
    /\ orderCount' = orderCount + 1
    /\ failCount' = failCount + 1
    /\ report' = [report EXCEPT ![o] = "rejected"]
    /\ UNCHANGED <<pc, cur, reply, batchReport, okCount, passed>>
    /\ UNCHANGED <<exSt, left, exPos, unseen, sinceFetch, riskVars>>

PlaceOrderChecked(o, t, rateOk) ==
    /\ pc = "idle" /\ o \in Fresh
    /\ CheckOrder(t, CheckedValue(t), rateOk)
    /\ ord' = [ord EXCEPT ![o] = t]
    /\ orderCount' = orderCount + 1
    /\ passed' = passed \cup {o}
    /\ cur' = {o}
    /\ pc' = "send"
    /\ UNCHANGED <<reply, report, batchReport, okCount, failCount>>
    /\ UNCHANGED <<exSt, left, exPos, unseen, sinceFetch, riskVars>>

(* Mutant: the early return neither counts nor reports. *)
PlaceOrderDropped ==
    /\ pc = "send"
    /\ pc' = "idle"
    /\ cur' = {}
    /\ UNCHANGED <<reply, report, batchReport, counterVars, passed>>
    /\ UNCHANGED <<exchangeVars, riskVars>>

(* get_api_for_strategy / get_binance_api_for_strategy return nullptr *)
PlaceOrderNoAccount ==
    /\ pc = "send"
    /\ failCount' = failCount + 1
    /\ report' = [o \in Orders |-> IF o \in cur THEN "rejected" ELSE report[o]]
    /\ pc' = "idle"
    /\ cur' = {}
    /\ UNCHANGED <<reply, batchReport, orderCount, okCount, passed>>
    /\ UNCHANGED <<exchangeVars, riskVars>>

(* The REST call: result says what the caller will see, arrived whether    *)
(* the exchange has the order.  A refused order never arrives.             *)
PlaceOrderCall(result, arrived) ==
    /\ pc = "send"
    /\ result = "ok" => arrived
    /\ result = "error" => ~ arrived
    /\ reply' = [o \in Orders |-> IF o \in cur THEN result ELSE reply[o]]
    /\ Accept(IF arrived THEN cur ELSE {})
    /\ pc' = "reply"
    /\ UNCHANGED <<cur, report, batchReport, counterVars, passed>>
    /\ UNCHANGED <<ord, exPos, unseen, sinceFetch, riskVars>>

(* Binance's answer carries what was filled when it was sent, OKX's does   *)
(* not; FILLED and PARTIALLY_FILLED both count as filled (is_filled).      *)
OkStatus(o) ==
    IF OnOkx(o) THEN {"accepted"}
    ELSE {"submitted"} \cup (IF left[o] < ord[o].value THEN {"filled"} ELSE {})

(* Mutant: an error answer is taken for success. *)
PlaceOrderErrorTaken(o, status) ==
    /\ pc = "reply" /\ o \in cur
    /\ status \in IF reply[o] \in {"ok", "error"} THEN OkStatus(o) ELSE {"rejected"}
    /\ report' = [report EXCEPT ![o] = status]
    /\ okCount' = okCount + 1
    /\ pc' = "idle"
    /\ cur' = {}
    /\ UNCHANGED <<reply, batchReport, orderCount, failCount, passed>>
    /\ UNCHANGED <<exchangeVars, riskVars>>

PlaceOrderReply(o, status) ==
    /\ pc = "reply" /\ o \in cur
    /\ status \in IF reply[o] = "ok" THEN OkStatus(o) ELSE {"rejected"}
    /\ report' = [report EXCEPT ![o] = status]
    /\ IF reply[o] = "ok"
         THEN okCount' = okCount + 1 /\ UNCHANGED failCount
         ELSE failCount' = failCount + 1 /\ UNCHANGED okCount
    /\ pc' = "idle"
    /\ cur' = {}
    /\ UNCHANGED <<reply, batchReport, orderCount, passed>>
    /\ UNCHANGED <<exchangeVars, riskVars>>

-----------------------------------------------------------------------------
(* process_batch_orders: no risk check; Binance in concurrent groups of    *)
(* BatchSize, OKX in one call.                                             *)

BatchTaken(B, f) ==
    /\ pc = "idle"
    /\ B # {} /\ B \subseteq Fresh
    /\ \A o, p \in B : f[o].acct = f[p].acct
    /\ ord' = [o \in Orders |-> IF o \in B THEN f[o] ELSE ord[o]]
    /\ cur' = B
    /\ pc' = "batch"
    /\ UNCHANGED <<reply, report, batchReport, counterVars, passed>>
    /\ UNCHANGED <<exSt, left, exPos, unseen, sinceFetch, riskVars>>

Unsent == {o \in cur : reply[o] = "none"}

BatchNoAccount ==
    /\ pc = "batch" /\ Unsent = cur
    /\ batchReport' = [orders |-> cur, status |-> "rejected"]
    /\ pc' = "idle"
    /\ cur' = {}
    /\ UNCHANGED <<reply, report, counterVars, passed>>
    /\ UNCHANGED <<exchangeVars, riskVars>>

(* The groups run concurrently and end in any order: full groups, and the  *)
(* short last one as long as it is unsent.                                 *)
GroupSizes == {BatchSize, Cardinality(Unsent) % BatchSize}

(* One group's call is answered: the orders of A arrived, the rest of G    *)
(* were refused.                                                           *)
BatchAnswered(G, A) ==
    /\ pc = "batch" /\ G # {} /\ G \subseteq Unsent /\ A \subseteq G
    /\ \A o \in G : IF OnOkx(o) THEN G = cur ELSE Cardinality(G) \in GroupSizes
    /\ reply' = [o \in Orders |-> IF o \in A THEN "ok" ELSE
                                  IF o \in G THEN "error" ELSE reply[o]]
    /\ Accept(A)
    /\ UNCHANGED <<pc, cur, report, batchReport, counterVars, passed>>
    /\ UNCHANGED <<ord, exPos, unseen, sinceFetch, riskVars>>

(* One Binance group's call throws; the orders of A arrived all the same. *)
BatchGroupThrows(G, A) ==
    /\ pc = "batch" /\ G # {} /\ G \subseteq Unsent /\ A \subseteq G
    /\ Cardinality(G) \in GroupSizes
    /\ \A o \in G : ~ OnOkx(o)
    /\ reply' = [o \in Orders |-> IF o \in G THEN "lost" ELSE reply[o]]
    /\ Accept(A)
    /\ UNCHANGED <<pc, cur, report, batchReport, counterVars, passed>>
    /\ UNCHANGED <<ord, exPos, unseen, sinceFetch, riskVars>>

(* OKX refuses the call as a whole: a code other than "0" and no data.  *)
BatchRefused ==
    /\ pc = "batch" /\ Unsent = cur
    /\ \A o \in cur : OnOkx(o)
    /\ reply' = [o \in Orders |-> IF o \in cur THEN "missing" ELSE reply[o]]
    /\ UNCHANGED <<pc, cur, report, batchReport, counterVars, passed>>
    /\ UNCHANGED <<exchangeVars, riskVars>>

(* The OKX call throws: one batch_report, no results, nothing counted. *)
BatchThrows(A) ==
    /\ pc = "batch" /\ Unsent = cur /\ A \subseteq cur
    /\ \A o \in cur : OnOkx(o)
    /\ Accept(A)
    /\ batchReport' = [orders |-> cur, status |-> "rejected"]
    /\ pc' = "idle"
    /\ cur' = {}
    /\ UNCHANGED <<reply, report, counterVars, passed>>
    /\ UNCHANGED <<ord, exPos, unseen, sinceFetch, riskVars>>

Succeeded == {o \in cur : reply[o] = "ok"}
Failed == {o \in cur : reply[o] \in {"error", "lost"}}

BatchReported ==
    /\ pc = "batch" /\ Unsent = {}
    /\ orderCount' = orderCount + Cardinality(cur)
    /\ okCount' = okCount + Cardinality(Succeeded)
    /\ failCount' = failCount + Cardinality(Failed)
    /\ report' = [o \in Orders |-> IF o \in Succeeded THEN "accepted" ELSE
                                   IF o \in Failed THEN "rejected" ELSE report[o]]
    /\ batchReport' = [orders |-> cur,
                       status |-> IF Failed = {} THEN "accepted" ELSE
                                  IF Succeeded # {} THEN "partial" ELSE "rejected"]
    /\ pc' = "idle"
    /\ cur' = {}
    /\ UNCHANGED <<reply, passed, exchangeVars, riskVars>>

-----------------------------------------------------------------------------
(* process_cancel_order, process_batch_cancel: always through the OKX API, *)
(* so an order resting on Binance is never found.                          *)
CancelOrders(C) ==
    /\ pc = "idle"
    /\ C # {} /\ \A o \in C : exSt[o] = "open" /\ OnOkx(o)
    /\ exSt' = [o \in Orders |-> IF o \in C THEN "gone" ELSE exSt[o]]
    /\ UNCHANGED <<ord, left, exPos, unseen, sinceFetch, orderVars, riskVars>>

(* process_amend_order: OKX only, no risk check of the new size v. *)
AmendOrder(o, v) ==
    /\ pc = "idle"
    /\ exSt[o] = "open" /\ OnOkx(o)
    /\ v > ord[o].value - left[o]
    /\ ord' = [ord EXCEPT ![o].value = v]
    /\ left' = [left EXCEPT ![o] = v - (ord[o].value - @)]
    /\ UNCHANGED <<exSt, exPos, unseen, sinceFetch, orderVars, riskVars>>

=============================================================================
