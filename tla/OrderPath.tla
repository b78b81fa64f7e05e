------------------------------- MODULE OrderPath -------------------------------
(***************************************************************************)
(* The path of an order through the trading server: the order thread       *)
(* (OrderProcessor) checks it against the risk manager (RiskManager) and   *)
(* sends it to an exchange (Exchange), while the account monitor's thread  *)
(* (AccountMonitor) refreshes what the risk manager believes.              *)
(***************************************************************************)
EXTENDS OrderProcessor, AccountMonitor

vars == <<riskVars, exchangeVars, orderVars, monitorVars>>

Init == RiskInit /\ ExchangeInit /\ OrderInit /\ MonitorInit

OrderRequest ==
    \/ \E o \in Orders, t \in Templates, rateOk \in BOOLEAN :
          \/ PlaceOrderRejected(o, t, rateOk)
          \/ PlaceOrderChecked(o, t, rateOk)
    \/ \E B \in SUBSET Orders : \E f \in [B -> Templates] : BatchTaken(B, f)
    \/ \E C \in SUBSET Orders : CancelOrders(C)
    \/ \E o \in Orders, v \in AmendValues : AmendOrder(o, v)

SingleStep ==
    \/ PlaceOrderNoAccount
    \/ \E result \in {"ok", "error", "lost"}, arrived \in BOOLEAN :
          PlaceOrderCall(result, arrived)
    \/ \E o \in Orders, status \in Statuses : PlaceOrderReply(o, status)

BatchStep ==
    \/ BatchNoAccount
    \/ \E G \in SUBSET Orders : \E A \in SUBSET G :
          BatchAnswered(G, A) \/ BatchGroupThrows(G, A)
    \/ BatchRefused
    \/ \E A \in SUBSET Orders : BatchThrows(A)
    \/ BatchReported

OrderThread == (OrderRequest \/ SingleStep \/ BatchStep) /\ UNCHANGED monitorVars

MonitorStep ==
    \/ BeginRound
    \/ \E a \in Accounts : NextAccount(a)
    \/ EndRound
    \/ \E pnl \in PnlValues : PollBalance(pnl)
    \/ FetchPositions
    \/ \E s \in Symbols : ApplyPosition(s)
    \/ PollOpenOrders
    \/ SkipRead
    \/ PollFails

MonitorThread == MonitorStep /\ UNCHANGED orderVars

ExchangeFills ==
    /\ \E o \in Orders : \E v \in 1 .. left[o] : Fill(o, v)
    /\ UNCHANGED <<riskVars, orderVars, monitorVars>>

Next == OrderThread \/ MonitorThread \/ ExchangeFills

(* A request once taken is run to its end: every REST call is cut off by a *)
(* timeout (10 s OKX, 30 s Binance).  The monitor's loop never stops while *)
(* the server runs.  Nothing obliges a strategy to order or an order to    *)
(* fill.                                                                   *)
Fairness ==
    /\ WF_vars((SingleStep \/ BatchStep) /\ UNCHANGED monitorVars)
    /\ WF_vars(MonitorThread)

Spec == Init /\ [][Next]_vars /\ Fairness

-----------------------------------------------------------------------------
(* Properties *)

RiskTypes ==
    /\ positionValues \in [Symbols -> Nat]
    /\ openOrderCount \in Nat
    /\ dailyPnl \in Int

ExchangeTypes ==
    /\ ord \in [Orders -> OrderData \cup {NoOrder}]
    /\ exSt \in [Orders -> {"none", "open", "filled", "gone"}]
    /\ left \in [Orders -> Nat]
    /\ exPos \in [Accounts -> [Symbols -> Int]]
    /\ unseen \in [Accounts -> [Symbols -> Nat]]
    /\ sinceFetch \in [Accounts -> [Symbols -> Nat]]

OrderTypes ==
    /\ pc \in {"idle", "send", "reply", "batch"}
    /\ cur \in SUBSET Orders
    /\ reply \in [Orders -> Replies]
    /\ report \in [Orders -> Statuses]
    /\ batchReport \in [orders: SUBSET Orders,
                        status: {"none", "accepted", "partial", "rejected"}]
    /\ orderCount \in Nat /\ okCount \in Nat /\ failCount \in Nat
    /\ passed \in SUBSET Orders

MonitorTypes ==
    /\ monPc \in {"wait", "next", "balance", "positions", "apply"}
    /\ todo \in SUBSET Accounts
    /\ monAcct \in Accounts \cup {NoAccount}
    /\ DOMAIN rows \subseteq Symbols /\ \A s \in DOMAIN rows : rows[s] \in Nat

(* Types of every variable of the composition: positions in the risk table *)
(* are never negative, an amended order is never over-filled.              *)
TypeOK == RiskTypes /\ ExchangeTypes /\ OrderTypes /\ MonitorTypes

(* The statistics the server prints and shows on its panel add up: an      *)
(* order counted in g_order_count is in service, or counted as successful  *)
(* or as failed; the only orders lost to the books are those of an OKX     *)
(* batch the exchange refused as a whole.                                  *)
InService == IF pc \in {"send", "reply"} THEN 1 ELSE 0
Uncounted == {o \in Orders \ cur : reply[o] = "missing"}
CountersBalance ==
    orderCount = okCount + failCount + InService + Cardinality(Uncounted)

(* What a strategy is told of its order agrees with the exchange: an order *)
(* reported as taken is there, one reported as filled has been filled at   *)
(* least in part, and an order reported as rejected can be alive only when *)
(* its REST call threw.                                                    *)
ReportsTruthful ==
    \A o \in Orders :
        /\ report[o] \in {"accepted", "submitted", "filled"} => exSt[o] # "none"
        /\ report[o] = "filled" => exSt[o] = "filled" \/ left[o] < ord[o].value
        /\ report[o] = "rejected" /\ exSt[o] # "none" => reply[o] = "lost"

(* No order that passed the risk check is left without an answer once the  *)
(* order thread has moved on, whatever branch of process_place_order it    *)
(* left through.                                                           *)
PassedIsAnswered == \A o \in passed \ cur : report[o] # "none"

(* Accounts whose instruments have different names: one account per        *)
(* exchange.                                                               *)
DisjointBooks ==
    \A a, b \in Accounts : a # b => SymbolsOf[a] \cap SymbolsOf[b] = {}

(* The risk manager's position table, refreshed row by row by another      *)
(* thread from reads that are old when they are applied, differs from the  *)
(* truth at the exchange by no more than what was filled since the read it *)
(* comes from - also for short positions, kept as absolute values, and     *)
(* also in the middle of a round or after a round that failed halfway.     *)
RiskViewSound ==
    \A a \in Accounts : \A s \in SymbolsOf[a] :
        Abs(Held(a, s) - positionValues[s]) =< unseen[a][s]

(* The sum of f[a][s] over the accounts and their instruments. *)
BookSum(f) ==
    SumFunction([a \in Accounts |-> SumFunction([s \in SymbolsOf[a] |-> Abs(f[a][s])])])

NewlyPassed == passed' \ passed

(* What an order is worth beyond what it was checked at, and by how much   *)
(* the two differ either way.                                              *)
Untold(t) == IF t.value > CheckedValue(t) THEN t.value - CheckedValue(t) ELSE 0
Misjudged(t) == Abs(t.value - CheckedValue(t))

(* An order that passes check_order_with_value keeps the total of all      *)
(* positions at the exchanges within max_total_exposure, but for what was  *)
(* filled since the risk manager's data was read and for what the request  *)
(* did not tell of its worth - all of it, for a market order without       *)
(* order_value and estimated_price.                                        *)
TotalCapStep ==
    \A o \in NewlyPassed :
       BookSum(exPos) + ord'[o].value =<
         MaxTotalExposure + BookSum(unseen) + Untold(ord'[o])

TotalCapUpToUnseen == [][TotalCapStep]_vars

Projected(t) == Abs(exPos[t.acct][t.sym] + Signed(t.side, t.value))

(* In an instrument that is long or flat, an order that passes keeps the   *)
(* position within max_position_value, but for what was filled since and   *)
(* for what the order's worth was misjudged by: a sell order stated too    *)
(* high is let through as if it closed more than it does.                  *)
LongCapStep ==
    \A o \in NewlyPassed :
        LET t == ord'[o]
        IN  exPos[t.acct][t.sym] >= 0 =>
              Projected(t) =< MaxPositionValue + unseen[t.acct][t.sym] + Misjudged(t)

LongCapUpToUnseen == [][LongCapStep]_vars

(* An order that passed the risk check is eventually answered. *)
EventuallyAnswered ==
    \A o \in Orders : o \in passed ~> report[o] # "none"

ViewCurrent == \A a \in Accounts : \A s \in SymbolsOf[a] : unseen[a][s] = 0

(* Fills do not stay unseen: while the monitor's reads succeed, the risk   *)
(* manager's table catches up again and again.                             *)
ViewCatchesUp == []<>ViewCurrent

-----------------------------------------------------------------------------
(* What the documents say and the code does not do: checked by runs that   *)
(* expect a violation.                                                     *)

(* "Every order is validated before it leaves" (README.en.md): whatever    *)
(* reached an exchange had passed the risk check.                          *)
EveryOrderValidated == \A o \in Orders : exSt[o] # "none" => o \in passed

(* "per-symbol position cap ... A breach blocks the order" (README.en.md), *)
(* with a risk table that is current, for shorts too.                      *)
SymbolCapWhenCurrent ==
    [][ViewCurrent => \A o \in NewlyPassed :
                        Projected(ord'[o]) =< MaxPositionValue]_vars

(* A batch reported as accepted has at least one of its orders at the      *)
(* exchange.                                                               *)
AcceptedBatchArrived ==
    batchReport.status = "accepted" => \E o \in batchReport.orders : exSt[o] # "none"

=============================================================================
