--------------------------- MODULE OrderPath_proofs ---------------------------
(***************************************************************************)
(* Proofs about OrderPath, for every value of its constants.               *)
(*                                                                         *)
(* The type invariant is not inductive alone: that an amended order keeps  *)
(* a natural rest, or that a fill is booked on a known account, needs to   *)
(* know that what rests at an exchange was ordered (KnownOrders).  What    *)
(* strategies are told (PassedIsAnswered, ReportsTruthful) needs to know   *)
(* where in a request the order thread is (ServiceInv) and what an answer  *)
(* says of the exchange (ReplyInv).  That the cap on the total holds up to *)
(* what is unseen follows from the same for each instrument                *)
(* (RiskViewSound) by adding up: the sums are those of the community       *)
(* modules, of which all that is used is proved here (SumTakes, SumBound,  *)
(* SumDisjoint, SumPart).                                                  *)
(***************************************************************************)
EXTENDS OrderPath, Induction

(* What is in service or at an exchange was ordered, in an instrument of   *)
(* its account; the monitor works on an account.                           *)
KnownOrders ==
    /\ \A o \in Orders : ord[o] # NoOrder => ord[o].sym \in SymbolsOf[ord[o].acct]
    /\ \A o \in Orders : exSt[o] # "none" => ord[o] # NoOrder
    /\ \A o \in cur \cup passed : ord[o] # NoOrder
    /\ monPc \in {"balance", "positions", "apply"} => monAcct \in Accounts

(* Where the order thread is in its request. *)
ServiceInv ==
    /\ pc = "idle" => cur = {}
    /\ pc \in {"send", "reply"} => \E o \in Orders : cur = {o}
    /\ pc = "batch" => cur \cap passed = {}

(* What an answer says of the exchange, and what is told before there is   *)
(* one.                                                                    *)
ReplyInv ==
    /\ \A o \in Orders : reply[o] = "ok" => exSt[o] # "none"
    /\ \A o \in Orders : reply[o] = "error" => exSt[o] = "none"
    /\ \A o \in Orders : ord[o] = NoOrder => reply[o] = "none" /\ report[o] = "none"
    /\ \A o \in cur : report[o] = "none" /\ (reply[o] = "none" => exSt[o] = "none")
    /\ pc = "send" => \A o \in cur : reply[o] = "none"
    /\ pc = "reply" => \A o \in cur : reply[o] \in {"ok", "error", "lost"}

OrderInv == ServiceInv /\ ReplyInv /\ PassedIsAnswered /\ ReportsTruthful

-----------------------------------------------------------------------------
(* What the constants say of the orders that are asked for. *)
LEMMA TemplateFacts ==
  ASSUME NEW t \in Templates
  PROVE  /\ t \in OrderData /\ t # NoOrder
         /\ t.acct \in Accounts /\ t.sym \in Symbols /\ t.sym \in SymbolsOf[t.acct]
         /\ t.side \in Sides /\ t.value \in Nat /\ CheckedValue(t) \in Int
  <1>1. /\ t \in OrderData /\ t # NoOrder
        /\ t.acct \in Accounts /\ t.sym \in Symbols /\ t.sym \in SymbolsOf[t.acct]
        /\ t.side \in Sides /\ t.value \in Nat
    BY TemplatesAssumption, NoOrderAssumption DEF OrderData
  <1>2. /\ t.told \in Nat \cup {NoFigure} /\ t.estimate \in Nat \cup {NoFigure}
        /\ t.price \in Nat /\ t.qty \in Nat
    BY <1>1 DEF OrderData
  <1>3. t.told # NoFigure => CheckedValue(t) \in Int
    BY <1>2 DEF CheckedValue
  <1>4. \A a, b \in Nat : a * b \in Int
    OBVIOUS
  <1>5. t.told = NoFigure => CheckedValue(t) \in Int
    <2>1. t.told = NoFigure => CheckedValue(t) \in {t.price * t.qty, t.estimate * t.qty}
                               /\ (CheckedValue(t) # t.price * t.qty => t.estimate \in Nat)
      BY <1>2 DEF CheckedValue
    <2>2. QED
      BY <1>2, <1>4, <2>1
  <1>6. QED
    BY <1>1, <1>3, <1>5

(* What the types say of an order that was asked for. *)
LEMMA OrderedFacts ==
  ASSUME ExchangeTypes, NEW o \in Orders, ord[o] # NoOrder
  PROVE  /\ ord[o] \in OrderData
         /\ ord[o].acct \in Accounts /\ ord[o].sym \in Symbols
         /\ ord[o].side \in Sides /\ ord[o].value \in Nat
  BY DEF ExchangeTypes, OrderData

LEMMA SignedType ==
  ASSUME NEW side \in Sides, NEW v \in Nat
  PROVE  Signed(side, v) \in {v, -v} /\ Signed(side, v) \in Int
  BY DEF Signed

LEMMA AbsType == ASSUME NEW n \in Int PROVE Abs(n) \in Nat
  BY DEF Abs

(* Any set of orders has a size. *)
LEMMA OrderSetSize ==
  ASSUME NEW S \in SUBSET Orders
  PROVE  Cardinality(S) \in Nat
  BY OrdersAssumption, FS_Subset, FS_CardinalityType

(* The initial state. *)
LEMMA InitOrderInv == Init => TypeOK /\ KnownOrders /\ OrderInv
  <1> SUFFICES ASSUME Init PROVE TypeOK /\ KnownOrders /\ OrderInv
    OBVIOUS
  <1> USE DEF Init, RiskInit, ExchangeInit, OrderInit, MonitorInit
  <1>1. RiskTypes
    BY DEF RiskTypes
  <1>2. ExchangeTypes
    BY DEF ExchangeTypes
  <1>3. OrderTypes
    BY DEF OrderTypes, NoBatch, Replies, Statuses
  <1>4. MonitorTypes
    BY DEF MonitorTypes, NoRows
  <1>5. KnownOrders
    BY DEF KnownOrders
  <1>6. OrderInv
    BY DEF OrderInv, ServiceInv, ReplyInv, PassedIsAnswered, ReportsTruthful
  <1>7. QED
    BY <1>1, <1>2, <1>3, <1>4, <1>5, <1>6 DEF TypeOK

-----------------------------------------------------------------------------
(* The order thread's steps keep the types. *)
LEMMA OrderThreadTypes ==
  ASSUME TypeOK, KnownOrders, OrderThread
  PROVE  TypeOK' /\ KnownOrders'
  <1> USE DEF TypeOK
  <1>1. MonitorTypes' /\ UNCHANGED <<monPc, monAcct>>
    BY DEF OrderThread, monitorVars, MonitorTypes
  <1>2. ASSUME NEW o \in Orders, NEW t \in Templates, NEW rateOk \in BOOLEAN,
               PlaceOrderRejected(o, t, rateOk)
        PROVE  TypeOK' /\ KnownOrders'
    BY <1>1, <1>2, TemplateFacts DEF PlaceOrderRejected, riskVars, RiskTypes,
       ExchangeTypes, OrderTypes, Statuses, KnownOrders
  <1>3. ASSUME NEW o \in Orders, NEW t \in Templates, NEW rateOk \in BOOLEAN,
               PlaceOrderChecked(o, t, rateOk)
        PROVE  TypeOK' /\ KnownOrders'
    BY <1>1, <1>3, TemplateFacts DEF PlaceOrderChecked, riskVars, RiskTypes,
       ExchangeTypes, OrderTypes, KnownOrders
  <1>4. ASSUME NEW B \in SUBSET Orders, NEW f \in [B -> Templates], BatchTaken(B, f)
        PROVE  TypeOK' /\ KnownOrders'
    BY <1>1, <1>4, TemplateFacts DEF BatchTaken, riskVars, counterVars, RiskTypes,
       ExchangeTypes, OrderTypes, KnownOrders
  <1>5. ASSUME NEW C \in SUBSET Orders, CancelOrders(C)
        PROVE  TypeOK' /\ KnownOrders'
    BY <1>1, <1>5 DEF CancelOrders, riskVars, orderVars, RiskTypes,
       ExchangeTypes, OrderTypes, KnownOrders
  <1>6. ASSUME NEW o \in Orders, NEW v \in AmendValues, AmendOrder(o, v)
        PROVE  TypeOK' /\ KnownOrders'
    <2> DEFINE t == [ord[o] EXCEPT !.value = v]
    <2>1. ord[o] # NoOrder
      BY <1>6 DEF AmendOrder, KnownOrders
    <2>2. v \in Nat /\ t \in OrderData /\ t # NoOrder
      BY <2>1, OrderedFacts, BatchAssumption, NoOrderAssumption DEF OrderData
    <2>3. left'[o] \in Nat
      BY <1>6, <2>1, <2>2, OrderedFacts DEF AmendOrder, ExchangeTypes
    <2>4. ExchangeTypes'
      BY <1>6, <2>2, <2>3 DEF AmendOrder, ExchangeTypes
    <2>5. t.sym = ord[o].sym /\ t.acct = ord[o].acct
      BY <2>1, OrderedFacts DEF OrderData
    <2>6. KnownOrders'
      BY <1>1, <1>6, <2>1, <2>2, <2>5 DEF AmendOrder, KnownOrders, orderVars, ExchangeTypes
    <2>7. RiskTypes' /\ OrderTypes'
      BY <1>6 DEF AmendOrder, RiskTypes, OrderTypes, riskVars, orderVars
    <2>8. QED
      BY <1>1, <2>4, <2>6, <2>7
  <1>7. ASSUME PlaceOrderNoAccount
        PROVE  TypeOK' /\ KnownOrders'
    BY <1>1, <1>7 DEF PlaceOrderNoAccount, riskVars, exchangeVars, RiskTypes,
       ExchangeTypes, OrderTypes, Statuses, KnownOrders
  (* A call that leaves orders of A, all in service, at the exchange *)
  <1>8. ASSUME NEW A \in SUBSET cur, Accept(A), UNCHANGED <<ord, exPos, unseen, sinceFetch, riskVars>>
        PROVE  RiskTypes' /\ ExchangeTypes'
               /\ \A o \in Orders : exSt'[o] # "none" => ord'[o] # NoOrder
    BY <1>8, OrderedFacts DEF Accept, riskVars, RiskTypes, ExchangeTypes, OrderTypes, KnownOrders
  <1>9. ASSUME NEW result \in {"ok", "error", "lost"}, NEW arrived \in BOOLEAN,
               PlaceOrderCall(result, arrived)
        PROVE  TypeOK' /\ KnownOrders'
    <2>1. RiskTypes' /\ ExchangeTypes'
          /\ \A o \in Orders : exSt'[o] # "none" => ord'[o] # NoOrder
      BY <1>8, <1>9 DEF PlaceOrderCall
    <2>2. OrderTypes'
      BY <1>9 DEF PlaceOrderCall, counterVars, OrderTypes, Replies
    <2>3. QED
      BY <1>1, <1>9, <2>1, <2>2 DEF PlaceOrderCall, KnownOrders
  <1>10. ASSUME NEW o \in Orders, NEW status \in Statuses, PlaceOrderReply(o, status)
         PROVE  TypeOK' /\ KnownOrders'
    BY <1>1, <1>10 DEF PlaceOrderReply, riskVars, exchangeVars, RiskTypes,
       ExchangeTypes, OrderTypes, KnownOrders
  <1>11. ASSUME BatchNoAccount
         PROVE  TypeOK' /\ KnownOrders'
    BY <1>1, <1>11 DEF BatchNoAccount, riskVars, exchangeVars, counterVars, RiskTypes,
       ExchangeTypes, OrderTypes, KnownOrders
  <1>12. ASSUME NEW G \in SUBSET Orders, NEW A \in SUBSET G,
                BatchAnswered(G, A) \/ BatchGroupThrows(G, A)
         PROVE  TypeOK' /\ KnownOrders'
    <2>1. /\ A \in SUBSET cur /\ Accept(A)
          /\ UNCHANGED <<ord, exPos, unseen, sinceFetch, riskVars>>
          /\ UNCHANGED <<pc, cur, report, batchReport, counterVars, passed>>
      BY <1>12 DEF BatchAnswered, BatchGroupThrows, Unsent
    <2>2. RiskTypes' /\ ExchangeTypes'
          /\ \A o \in Orders : exSt'[o] # "none" => ord'[o] # NoOrder
      BY <1>8, <2>1
    <2>3. reply' \in [Orders -> Replies]
      BY <1>12 DEF BatchAnswered, BatchGroupThrows, OrderTypes, Replies
    <2>4. OrderTypes'
      BY <2>1, <2>3 DEF counterVars, OrderTypes
    <2>5. QED
      BY <1>1, <2>1, <2>2, <2>4 DEF KnownOrders
  <1>13. ASSUME BatchRefused
         PROVE  TypeOK' /\ KnownOrders'
    BY <1>1, <1>13 DEF BatchRefused, riskVars, exchangeVars, counterVars, RiskTypes,
       ExchangeTypes, OrderTypes, Replies, KnownOrders
  <1>14. ASSUME NEW A \in SUBSET Orders, BatchThrows(A)
         PROVE  TypeOK' /\ KnownOrders'
    <2>1. RiskTypes' /\ ExchangeTypes'
          /\ \A o \in Orders : exSt'[o] # "none" => ord'[o] # NoOrder
      BY <1>8, <1>14 DEF BatchThrows
    <2>2. OrderTypes'
      BY <1>14 DEF BatchThrows, counterVars, OrderTypes
    <2>3. QED
      BY <1>1, <1>14, <2>1, <2>2 DEF BatchThrows, KnownOrders
  <1>15. ASSUME BatchReported
         PROVE  TypeOK' /\ KnownOrders'
    <2>1. /\ Cardinality(cur) \in Nat
          /\ Cardinality(Succeeded) \in Nat
          /\ Cardinality(Failed) \in Nat
      BY OrderSetSize DEF Succeeded, Failed, OrderTypes
    <2>2. orderCount' \in Nat /\ okCount' \in Nat /\ failCount' \in Nat
      BY <1>15, <2>1 DEF BatchReported, OrderTypes
    <2>3. OrderTypes'
      BY <1>15, <2>2 DEF BatchReported, OrderTypes, Statuses
    <2>4. QED
      BY <1>1, <1>15, <2>3 DEF BatchReported, riskVars, exchangeVars, RiskTypes,
         ExchangeTypes, KnownOrders
  <1>16. QED
    BY <1>2, <1>3, <1>4, <1>5, <1>6, <1>7, <1>9, <1>10, <1>11, <1>12, <1>13, <1>14, <1>15
       DEF OrderThread, OrderRequest, SingleStep, BatchStep

(* The monitor's steps keep the types. *)
LEMMA MonitorThreadTypes ==
  ASSUME TypeOK, KnownOrders, MonitorThread
  PROVE  TypeOK' /\ KnownOrders'
  <1> USE DEF TypeOK
  <1>1. /\ OrderTypes' /\ UNCHANGED <<cur, passed>>
    BY DEF MonitorThread, orderVars, OrderTypes
  <1>2. CASE \/ BeginRound \/ EndRound \/ SkipRead \/ PollFails
             \/ \E a \in Accounts : NextAccount(a)
    BY <1>1, <1>2 DEF BeginRound, EndRound, SkipRead, PollFails, NextAccount, Leave, NoRows,
       exchangeVars, riskVars, RiskTypes, ExchangeTypes, MonitorTypes, KnownOrders
  <1>3. ASSUME NEW pnl \in PnlValues, PollBalance(pnl)
        PROVE  TypeOK' /\ KnownOrders'
    BY <1>1, <1>3, MonitorAssumption DEF PollBalance, UpdateDailyPnl, exchangeVars,
       RiskTypes, ExchangeTypes, MonitorTypes, KnownOrders
  <1>4. ASSUME FetchPositions
        PROVE  TypeOK' /\ KnownOrders'
    <2>1. monAcct \in Accounts /\ ListedSymbols(monAcct) \subseteq Symbols
      BY <1>4, AccountsAssumption DEF FetchPositions, KnownOrders, ListedSymbols
    <2>2. \A s \in Symbols : Abs(exPos[monAcct][s]) \in Nat
      BY <2>1, AbsType DEF ExchangeTypes
    <2>3. MonitorTypes'
      BY <1>4, <2>1, <2>2 DEF FetchPositions, Held, MonitorTypes
    <2>4. sinceFetch' \in [Accounts -> [Symbols -> Nat]]
      BY <1>4, <2>1 DEF FetchPositions, ExchangeTypes
    <2>5. RiskTypes' /\ ExchangeTypes'
      BY <1>4, <2>4 DEF FetchPositions, riskVars, RiskTypes, ExchangeTypes
    <2>6. QED
      BY <1>1, <1>4, <2>1, <2>3, <2>5 DEF FetchPositions, KnownOrders
  <1>5. ASSUME NEW s \in Symbols, ApplyPosition(s)
        PROVE  TypeOK' /\ KnownOrders'
    BY <1>1, <1>5 DEF ApplyPosition, UpdatePosition, RiskTypes, ExchangeTypes,
       MonitorTypes, KnownOrders
  <1>6. ASSUME PollOpenOrders
        PROVE  TypeOK' /\ KnownOrders'
    <2>1. Cardinality(Resting(monAcct)) \in Nat
      BY OrderSetSize DEF Resting
    <2>2. RiskTypes'
      BY <1>6, <2>1 DEF PollOpenOrders, SetOpenOrderCount, RiskTypes
    <2>3. QED
      BY <1>1, <1>6, <2>2 DEF PollOpenOrders, Leave, exchangeVars, ExchangeTypes,
         MonitorTypes, KnownOrders
  <1>7. QED
    BY <1>2, <1>3, <1>4, <1>5, <1>6 DEF MonitorThread, MonitorStep

(* A fill keeps the types. *)
LEMMA FillTypes ==
  ASSUME TypeOK, KnownOrders, ExchangeFills
  PROVE  TypeOK' /\ KnownOrders'
  <1> USE DEF TypeOK
  <1>1. PICK o \in Orders : \E v \in 1 .. left[o] : Fill(o, v)
    BY DEF ExchangeFills
  <1>2. PICK v \in 1 .. left[o] : Fill(o, v)
    BY <1>1
  <1>3. RiskTypes' /\ OrderTypes' /\ MonitorTypes' /\ UNCHANGED <<cur, passed, monPc, monAcct>>
    BY DEF ExchangeFills, riskVars, orderVars, monitorVars, RiskTypes, OrderTypes, MonitorTypes
  <1>4. ord[o] # NoOrder
    BY <1>2 DEF Fill, KnownOrders
  <1>5. v \in Nat /\ left[o] - v \in Nat
    BY DEF ExchangeTypes
  <1>6. Signed(ord[o].side, v) \in Int
    BY <1>4, <1>5, OrderedFacts, SignedType
  <1>7. ExchangeTypes'
    BY <1>2, <1>4, <1>5, <1>6, OrderedFacts DEF Fill, ExchangeTypes
  <1>8. QED
    BY <1>2, <1>3, <1>4, <1>7 DEF Fill, KnownOrders

LEMMA TypesStep ==
  ASSUME TypeOK, KnownOrders, [Next]_vars
  PROVE  TypeOK' /\ KnownOrders'
  <1>1. CASE UNCHANGED vars
    BY <1>1 DEF vars, riskVars, exchangeVars, orderVars, monitorVars, TypeOK, RiskTypes,
       ExchangeTypes, OrderTypes, MonitorTypes, KnownOrders
  <1>2. QED
    BY <1>1, OrderThreadTypes, MonitorThreadTypes, FillTypes DEF Next

(* The table of the risk manager never holds a negative position and no    *)
(* order at an exchange is over-filled, whatever the threads do.           *)
THEOREM TypeCorrect == Spec => []TypeOK
  <1>1. Init => TypeOK /\ KnownOrders
    BY InitOrderInv
  <1>2. TypeOK /\ KnownOrders /\ [Next]_vars => TypeOK' /\ KnownOrders'
    BY TypesStep
  <1>3. QED
    BY <1>1, <1>2, PTL DEF Spec

-----------------------------------------------------------------------------
(* Steps that leave the order thread where it is and touch no order's      *)
(* answer: fills and the monitor.                                          *)
LEMMA OutsideOrderInv ==
  ASSUME TypeOK, KnownOrders, OrderInv, MonitorThread \/ ExchangeFills
  PROVE  OrderInv'
  <1>1. UNCHANGED <<pc, cur, reply, report, batchReport, passed, ord>>
    BY DEF MonitorThread, MonitorStep, BeginRound, NextAccount, EndRound, PollBalance,
       FetchPositions, ApplyPosition, PollOpenOrders, SkipRead, PollFails, ExchangeFills,
       Fill, orderVars, exchangeVars
  <1>2. \A o \in Orders :
          /\ exSt'[o] # "none" <=> exSt[o] # "none"
          /\ exSt[o] = "filled" \/ left[o] < ord[o].value
               => exSt'[o] = "filled" \/ left'[o] < ord'[o].value
    <2>1. CASE MonitorThread
      BY <2>1 DEF MonitorThread, MonitorStep, BeginRound, NextAccount, EndRound, PollBalance,
         FetchPositions, ApplyPosition, PollOpenOrders, SkipRead, PollFails, exchangeVars
    <2>2. CASE ExchangeFills
      <3>1. PICK o \in Orders : \E v \in 1 .. left[o] : Fill(o, v)
        BY <2>2 DEF ExchangeFills
      <3>2. PICK v \in 1 .. left[o] : Fill(o, v)
        BY <3>1
      <3>3. ord[o].value \in Nat
        BY <3>2, OrderedFacts DEF Fill, KnownOrders, TypeOK
      <3>4. QED
        BY <1>1, <3>2, <3>3 DEF Fill, TypeOK, ExchangeTypes
    <2>3. QED
      BY <2>1, <2>2
  <1>3. ServiceInv' /\ PassedIsAnswered'
    BY <1>1 DEF OrderInv, ServiceInv, PassedIsAnswered
  <1>4. ReplyInv'
    BY <1>1, <1>2 DEF OrderInv, ReplyInv, KnownOrders, TypeOK, OrderTypes
  <1>5. ReportsTruthful'
    BY <1>1, <1>2 DEF OrderInv, ReportsTruthful
  <1>6. QED
    BY <1>3, <1>4, <1>5 DEF OrderInv

(* The requests: a fresh order enters service unanswered. *)
LEMMA RequestOrderInv ==
  ASSUME TypeOK, KnownOrders, OrderInv, OrderRequest
  PROVE  OrderInv'
  <1> USE DEF OrderInv, ServiceInv, ReplyInv, PassedIsAnswered, ReportsTruthful
  <1>0. \A o \in Fresh : /\ exSt[o] = "none" /\ reply[o] = "none" /\ report[o] = "none"
                         /\ o \notin cur /\ o \notin passed
    BY DEF Fresh, KnownOrders
  <1>1. ASSUME NEW o \in Orders, NEW t \in Templates, NEW rateOk \in BOOLEAN,
               PlaceOrderRejected(o, t, rateOk)
        PROVE  OrderInv'
    BY <1>0, <1>1, TemplateFacts DEF PlaceOrderRejected, TypeOK, ExchangeTypes, OrderTypes
  <1>2. ASSUME NEW o \in Orders, NEW t \in Templates, NEW rateOk \in BOOLEAN,
               PlaceOrderChecked(o, t, rateOk)
        PROVE  OrderInv'
    BY <1>0, <1>2, TemplateFacts DEF PlaceOrderChecked, TypeOK, ExchangeTypes, OrderTypes
  <1>3. ASSUME NEW B \in SUBSET Orders, NEW f \in [B -> Templates], BatchTaken(B, f)
        PROVE  OrderInv'
    BY <1>0, <1>3, TemplateFacts DEF BatchTaken, TypeOK, ExchangeTypes, OrderTypes
  <1>4. ASSUME NEW C \in SUBSET Orders, CancelOrders(C)
        PROVE  OrderInv'
    BY <1>4 DEF CancelOrders, TypeOK, ExchangeTypes, OrderTypes, orderVars
  <1>5. ASSUME NEW o \in Orders, NEW v \in AmendValues, AmendOrder(o, v)
        PROVE  OrderInv'
    <2>1. ord[o] # NoOrder
      BY <1>5 DEF AmendOrder, KnownOrders
    <2>2. v \in Nat /\ ord[o] \in OrderData /\ ord[o].value \in Nat /\ left[o] \in Nat
      BY <2>1, OrderedFacts, BatchAssumption DEF TypeOK, ExchangeTypes
    <2>3. ord'[o].value = v /\ left'[o] = v - (ord[o].value - left[o])
      BY <1>5, <2>2 DEF AmendOrder, TypeOK, ExchangeTypes, OrderData
    <2>4. left[o] < ord[o].value => left'[o] < ord'[o].value
      BY <2>2, <2>3
    <2>5. /\ \A p \in Orders \ {o} : ord'[p] = ord[p] /\ left'[p] = left[p]
          /\ UNCHANGED <<exSt, orderVars>>
      BY <1>5 DEF AmendOrder, TypeOK, ExchangeTypes
    <2>6. ord'[o] # NoOrder
      BY <1>5, <2>2, NoOrderAssumption DEF AmendOrder, TypeOK, ExchangeTypes, OrderData
    <2>7. QED
      BY <2>4, <2>5, <2>6 DEF orderVars
  <1>6. QED
    BY <1>1, <1>2, <1>3, <1>4, <1>5 DEF OrderRequest

(* process_place_order after the check. *)
LEMMA SingleOrderInv ==
  ASSUME TypeOK, KnownOrders, OrderInv, SingleStep
  PROVE  OrderInv'
  <1> USE DEF OrderInv, ServiceInv, ReplyInv, PassedIsAnswered, ReportsTruthful
  <1>1. ASSUME PlaceOrderNoAccount
        PROVE  OrderInv'
    BY <1>1 DEF PlaceOrderNoAccount, exchangeVars, TypeOK, OrderTypes, KnownOrders
  <1>2. ASSUME NEW result \in {"ok", "error", "lost"}, NEW arrived \in BOOLEAN,
               PlaceOrderCall(result, arrived)
        PROVE  OrderInv'
    BY <1>2 DEF PlaceOrderCall, Accept, TypeOK, ExchangeTypes, OrderTypes, KnownOrders
  <1>3. ASSUME NEW o \in Orders, NEW status \in Statuses, PlaceOrderReply(o, status)
        PROVE  OrderInv'
    <2>1. /\ status # "none"
          /\ status \in {"accepted", "submitted", "filled"} => reply[o] = "ok"
          /\ status = "filled" => left[o] < ord[o].value
          /\ status = "rejected" => reply[o] \in {"error", "lost"}
      BY <1>3 DEF PlaceOrderReply, OkStatus
    <2>2. cur = {o}
      BY <1>3 DEF PlaceOrderReply
    <2>3. ord[o] # NoOrder
      BY <2>2 DEF KnownOrders
    <2>4. QED
      BY <1>3, <2>1, <2>2, <2>3 DEF PlaceOrderReply, exchangeVars, TypeOK, OrderTypes
  <1>4. QED
    BY <1>1, <1>2, <1>3 DEF SingleStep

(* process_batch_orders. *)
LEMMA BatchOrderInv ==
  ASSUME TypeOK, KnownOrders, OrderInv, BatchStep
  PROVE  OrderInv'
  <1> USE DEF OrderInv, ServiceInv, ReplyInv, PassedIsAnswered, ReportsTruthful
  <1>1. CASE BatchNoAccount
    BY <1>1 DEF BatchNoAccount, exchangeVars, TypeOK, OrderTypes
  <1>2. ASSUME NEW G \in SUBSET Orders, NEW A \in SUBSET G, BatchAnswered(G, A)
        PROVE  OrderInv'
    <2>1. /\ \A o \in G : o \in cur /\ reply[o] = "none" /\ report[o] = "none"
          /\ A \subseteq Orders /\ pc = "batch"
          /\ UNCHANGED <<pc, cur, report, passed, ord>>
      BY <1>2 DEF BatchAnswered, Unsent
    <2>2. \A o \in Orders :
            /\ o \in A => reply'[o] = "ok" /\ exSt'[o] = "open"
            /\ o \in G \ A => reply'[o] = "error" /\ exSt'[o] = exSt[o] /\ left'[o] = left[o]
            /\ o \notin G => reply'[o] = reply[o] /\ exSt'[o] = exSt[o] /\ left'[o] = left[o]
      BY <1>2 DEF BatchAnswered, Accept, TypeOK, ExchangeTypes, OrderTypes
    <2>3. \A o \in G \ A : exSt[o] = "none"
      BY <2>1
    <2>4. ReplyInv'
      BY <2>1, <2>2, <2>3 DEF KnownOrders, TypeOK, OrderTypes
    <2>5. ReportsTruthful'
      BY <2>1, <2>2
    <2>6. QED
      BY <2>1, <2>4, <2>5
  <1>3. ASSUME NEW G \in SUBSET Orders, NEW A \in SUBSET G, BatchGroupThrows(G, A)
        PROVE  OrderInv'
    BY <1>3 DEF BatchGroupThrows, Unsent, Accept, TypeOK, ExchangeTypes, OrderTypes, KnownOrders
  <1>4. CASE BatchRefused
    BY <1>4 DEF BatchRefused, Unsent, exchangeVars, TypeOK, OrderTypes, KnownOrders
  <1>5. ASSUME NEW A \in SUBSET Orders, BatchThrows(A)
        PROVE  OrderInv'
    BY <1>5 DEF BatchThrows, Unsent, Accept, TypeOK, ExchangeTypes, OrderTypes, KnownOrders
  <1>6. CASE BatchReported
    BY <1>6 DEF BatchReported, Succeeded, Failed, exchangeVars, TypeOK, OrderTypes, KnownOrders
  <1>7. QED
    BY <1>1, <1>2, <1>3, <1>4, <1>5, <1>6 DEF BatchStep

LEMMA OrderInvStep ==
  ASSUME TypeOK, KnownOrders, OrderInv, [Next]_vars
  PROVE  OrderInv'
  <1>1. CASE UNCHANGED vars
    BY <1>1 DEF vars, exchangeVars, orderVars, OrderInv, ServiceInv, ReplyInv,
       PassedIsAnswered, ReportsTruthful
  <1>2. QED
    BY <1>1, RequestOrderInv, SingleOrderInv, BatchOrderInv, OutsideOrderInv
       DEF Next, OrderThread

LEMMA OrderInvAlways == Spec => [](TypeOK /\ KnownOrders /\ OrderInv)
  <1>1. Init => TypeOK /\ KnownOrders /\ OrderInv
    BY InitOrderInv
  <1>2. TypeOK /\ KnownOrders /\ OrderInv /\ [Next]_vars
          => (TypeOK /\ KnownOrders /\ OrderInv)'
    BY TypesStep, OrderInvStep
  <1>3. QED
    BY <1>1, <1>2, PTL DEF Spec

(* No branch of process_place_order drops an order that passed the check:  *)
(* when the order thread has moved on, the strategy has an answer.         *)
THEOREM Answered == Spec => []PassedIsAnswered
  <1>1. OrderInv => PassedIsAnswered
    BY DEF OrderInv
  <1>2. QED
    BY <1>1, OrderInvAlways, PTL

(* What strategies are told agrees with the exchange, except after a call  *)
(* that threw.                                                             *)
THEOREM Truthful == Spec => []ReportsTruthful
  <1>1. OrderInv => ReportsTruthful
    BY DEF OrderInv
  <1>2. QED
    BY <1>1, OrderInvAlways, PTL

-----------------------------------------------------------------------------
(* The statistics.                                                         *)

LEMMA DisjointSize ==
  ASSUME NEW S \in SUBSET Orders, NEW T \in SUBSET Orders, S \cap T = {}
  PROVE  Cardinality(S \cup T) = Cardinality(S) + Cardinality(T)
  <1>1. IsFiniteSet(S) /\ IsFiniteSet(T)
    BY OrdersAssumption, FS_Subset
  <1>2. Cardinality(S \cap T) = 0 /\ Cardinality(S) \in Nat /\ Cardinality(T) \in Nat
    BY FS_EmptySet, OrderSetSize
  <1>3. Cardinality(S \cup T) = Cardinality(S) + Cardinality(T) - Cardinality(S \cap T)
    BY <1>1, FS_Union
  <1>4. QED
    BY <1>2, <1>3

(* A step that moves no counter and books none of its orders as missing.   *)
LEMMA BalanceUnmoved ==
  ASSUME CountersBalance, Uncounted' = Uncounted, UNCHANGED counterVars, InService' = InService
  PROVE  CountersBalance'
  BY DEF CountersBalance, counterVars

LEMMA RequestBalance ==
  ASSUME TypeOK, KnownOrders, OrderInv, CountersBalance, OrderRequest
  PROVE  CountersBalance'
  <1> USE DEF TypeOK, OrderTypes
  <1>0. Cardinality(Uncounted) \in Nat
    BY OrderSetSize DEF Uncounted
  <1>1. ASSUME NEW o \in Orders, NEW t \in Templates, NEW rateOk \in BOOLEAN,
               PlaceOrderRejected(o, t, rateOk)
        PROVE  CountersBalance'
    <2>1. Uncounted' = Uncounted /\ InService' = InService
      BY <1>1 DEF PlaceOrderRejected, Uncounted, InService
    <2>2. orderCount' = orderCount + 1 /\ failCount' = failCount + 1 /\ okCount' = okCount
      BY <1>1 DEF PlaceOrderRejected
    <2>3. QED
      BY <1>0, <2>1, <2>2 DEF CountersBalance, InService
  <1>2. ASSUME NEW o \in Orders, NEW t \in Templates, NEW rateOk \in BOOLEAN,
               PlaceOrderChecked(o, t, rateOk)
        PROVE  CountersBalance'
    <2>1. Uncounted' = Uncounted
      BY <1>2 DEF PlaceOrderChecked, Fresh, Uncounted, OrderInv, ServiceInv, ReplyInv
    <2>2. InService = 0 /\ InService' = 1
      BY <1>2 DEF PlaceOrderChecked, InService
    <2>3. orderCount' = orderCount + 1 /\ failCount' = failCount /\ okCount' = okCount
      BY <1>2 DEF PlaceOrderChecked
    <2>4. QED
      BY <1>0, <2>1, <2>2, <2>3 DEF CountersBalance
  <1>3. ASSUME NEW B \in SUBSET Orders, NEW f \in [B -> Templates], BatchTaken(B, f)
        PROVE  CountersBalance'
    <2>1. Uncounted' = Uncounted
      BY <1>3 DEF BatchTaken, Fresh, Uncounted, OrderInv, ServiceInv, ReplyInv
    <2>2. InService' = InService /\ UNCHANGED counterVars
      BY <1>3 DEF BatchTaken, InService
    <2>3. QED
      BY <2>1, <2>2, BalanceUnmoved
  <1>4. ASSUME \/ \E C \in SUBSET Orders : CancelOrders(C)
               \/ \E o \in Orders, v \in AmendValues : AmendOrder(o, v)
        PROVE  CountersBalance'
    BY <1>4 DEF CancelOrders, AmendOrder, orderVars, CountersBalance, Uncounted, InService
  <1>5. QED
    BY <1>1, <1>2, <1>3, <1>4 DEF OrderRequest

LEMMA SingleBalance ==
  ASSUME TypeOK, KnownOrders, OrderInv, CountersBalance, SingleStep
  PROVE  CountersBalance'
  <1> USE DEF TypeOK, OrderTypes
  <1>0. Cardinality(Uncounted) \in Nat
    BY OrderSetSize DEF Uncounted
  <1>1. ASSUME PlaceOrderNoAccount PROVE CountersBalance'
    <2>1. Uncounted' = Uncounted
      BY <1>1 DEF PlaceOrderNoAccount, Uncounted, OrderInv, ReplyInv
    <2>2. InService = 1 /\ InService' = 0
      BY <1>1 DEF PlaceOrderNoAccount, InService
    <2>3. orderCount' = orderCount /\ failCount' = failCount + 1 /\ okCount' = okCount
      BY <1>1 DEF PlaceOrderNoAccount
    <2>4. QED
      BY <1>0, <2>1, <2>2, <2>3 DEF CountersBalance
  <1>2. ASSUME NEW result \in {"ok", "error", "lost"}, NEW arrived \in BOOLEAN,
               PlaceOrderCall(result, arrived)
        PROVE  CountersBalance'
    <2>1. Uncounted' = Uncounted
      BY <1>2 DEF PlaceOrderCall, Uncounted
    <2>2. InService' = InService /\ UNCHANGED counterVars
      BY <1>2 DEF PlaceOrderCall, InService
    <2>3. QED
      BY <2>1, <2>2, BalanceUnmoved
  <1>3. ASSUME NEW o \in Orders, NEW status \in Statuses, PlaceOrderReply(o, status)
        PROVE  CountersBalance'
    <2>1. Uncounted' = Uncounted
      BY <1>3 DEF PlaceOrderReply, Uncounted, OrderInv, ReplyInv
    <2>2. InService = 1 /\ InService' = 0
      BY <1>3 DEF PlaceOrderReply, InService
    <2>3. orderCount = okCount + failCount + 1 + Cardinality(Uncounted)
      BY <2>2 DEF CountersBalance
    <2>4. orderCount' = okCount' + failCount' + 0 + Cardinality(Uncounted)
      <3>1. CASE reply[o] = "ok"
        <4>1. orderCount' = orderCount /\ okCount' = okCount + 1 /\ failCount' = failCount
          BY <1>3, <3>1 DEF PlaceOrderReply
        <4>2. QED
          BY <1>0, <2>3, <4>1
      <3>2. CASE reply[o] # "ok"
        <4>1. orderCount' = orderCount /\ okCount' = okCount /\ failCount' = failCount + 1
          BY <1>3, <3>2 DEF PlaceOrderReply
        <4>2. QED
          BY <1>0, <2>3, <4>1
      <3>3. QED
        BY <3>1, <3>2
    <2>5. QED
      BY <2>1, <2>2, <2>4 DEF CountersBalance
  <1>4. QED
    BY <1>1, <1>2, <1>3 DEF SingleStep

LEMMA BatchBalance ==
  ASSUME TypeOK, KnownOrders, OrderInv, CountersBalance, BatchStep
  PROVE  CountersBalance'
  <1> USE DEF TypeOK, OrderTypes
  <1>1. ASSUME NEW A \in SUBSET Orders, BatchNoAccount \/ BatchThrows(A) PROVE CountersBalance'
    <2>1. Uncounted' = Uncounted
      BY <1>1 DEF BatchNoAccount, BatchThrows, Uncounted, Unsent
    <2>2. InService' = InService /\ UNCHANGED counterVars
      BY <1>1 DEF BatchNoAccount, BatchThrows, InService
    <2>3. QED
      BY <2>1, <2>2, BalanceUnmoved
  <1>2. ASSUME NEW G \in SUBSET Orders, NEW A \in SUBSET G,
               BatchAnswered(G, A) \/ BatchGroupThrows(G, A)
        PROVE  CountersBalance'
    <2>1. Uncounted' = Uncounted
      BY <1>2 DEF BatchAnswered, BatchGroupThrows, Uncounted, Unsent
    <2>2. InService' = InService /\ UNCHANGED counterVars
      BY <1>2 DEF BatchAnswered, BatchGroupThrows, InService
    <2>3. QED
      BY <2>1, <2>2, BalanceUnmoved
  <1>3. ASSUME BatchRefused PROVE CountersBalance'
    <2>1. Uncounted' = Uncounted
      BY <1>3 DEF BatchRefused, Uncounted
    <2>2. InService' = InService /\ UNCHANGED counterVars
      BY <1>3 DEF BatchRefused, InService
    <2>3. QED
      BY <2>1, <2>2, BalanceUnmoved
  <1>4. ASSUME BatchReported PROVE CountersBalance'
    <2> DEFINE missing == {o \in cur : reply[o] = "missing"}
    <2>1. \A o \in cur : reply[o] \in {"ok", "error", "lost", "missing"}
      BY <1>4 DEF BatchReported, Unsent, Replies
    <2>2. cur = (Succeeded \cup Failed) \cup missing
      BY <2>1 DEF Succeeded, Failed
    <2>3. /\ Succeeded \in SUBSET Orders /\ Failed \in SUBSET Orders /\ missing \in SUBSET Orders
          /\ Succeeded \cup Failed \in SUBSET Orders /\ Uncounted \in SUBSET Orders
      BY DEF Succeeded, Failed, Uncounted
    <2>4. /\ Succeeded \cap Failed = {} /\ (Succeeded \cup Failed) \cap missing = {}
          /\ Uncounted \cap missing = {}
      BY DEF Succeeded, Failed, Uncounted
    <2>5. Uncounted' = Uncounted \cup missing
      BY <1>4 DEF BatchReported, Uncounted
    <2>6. Cardinality(cur) = Cardinality(Succeeded) + Cardinality(Failed) + Cardinality(missing)
      <3>1. Cardinality(Succeeded \cup Failed) = Cardinality(Succeeded) + Cardinality(Failed)
        BY <2>3, <2>4, DisjointSize
      <3>2. Cardinality((Succeeded \cup Failed) \cup missing)
              = Cardinality(Succeeded \cup Failed) + Cardinality(missing)
        BY <2>3, <2>4, DisjointSize
      <3>3. QED
        BY <2>2, <3>1, <3>2
    <2>7. Cardinality(Uncounted') = Cardinality(Uncounted) + Cardinality(missing)
      BY <2>3, <2>4, <2>5, DisjointSize
    <2>8. /\ Cardinality(Succeeded) \in Nat /\ Cardinality(Failed) \in Nat
          /\ Cardinality(missing) \in Nat /\ Cardinality(Uncounted) \in Nat
      BY <2>3, OrderSetSize
    <2>9. /\ orderCount' = orderCount + Cardinality(cur) /\ okCount' = okCount + Cardinality(Succeeded)
          /\ failCount' = failCount + Cardinality(Failed) /\ InService = 0 /\ InService' = 0
      BY <1>4 DEF BatchReported, InService
    <2> HIDE DEF missing
    <2>10. QED
      BY <2>6, <2>7, <2>8, <2>9 DEF CountersBalance
  <1>5. QED
    BY <1>1, <1>2, <1>3, <1>4 DEF BatchStep

(* Every order the server counted is in service, succeeded, failed, or was *)
(* in an OKX batch that was refused as a whole.                            *)
THEOREM Balanced == Spec => []CountersBalance
  <1>1. Init => CountersBalance
    <2>1. ASSUME Init PROVE Uncounted = {} /\ InService = 0
      BY <2>1 DEF Init, OrderInit, Uncounted, InService
    <2>2. QED
      BY <2>1, FS_EmptySet DEF Init, OrderInit, CountersBalance
  <1>2. TypeOK /\ KnownOrders /\ OrderInv /\ CountersBalance /\ [Next]_vars => CountersBalance'
    <2>1. ASSUME CountersBalance, UNCHANGED orderVars PROVE CountersBalance'
      BY <2>1 DEF orderVars, CountersBalance, Uncounted, InService
    <2>2. QED
      BY <2>1, RequestBalance, SingleBalance, BatchBalance
         DEF Next, OrderThread, MonitorThread, ExchangeFills, vars
  <1>3. QED
    BY <1>1, <1>2, OrderInvAlways, PTL DEF Spec

-----------------------------------------------------------------------------
(* The risk manager's view of the positions.                               *)

(* The monitor holds rows only while it hands them over; they are rows of  *)
(* the account it visits, and no further from the truth than what was      *)
(* filled since they were read.                                            *)
RowsSound ==
    /\ monPc # "apply" => DOMAIN rows = {}
    /\ monPc = "apply" =>
         \A s \in DOMAIN rows :
             /\ s \in SymbolsOf[monAcct]
             /\ Abs(Held(monAcct, s) - rows[s]) =< sinceFetch[monAcct][s]

ViewInv == RowsSound /\ RiskViewSound

(* A fill moves an absolute position by no more than what was filled. *)
LEMMA FillMoves ==
  ASSUME NEW p \in Int, NEW d \in Int, NEW v \in Nat, d \in {v, -v},
         NEW r \in Nat, NEW u \in Nat, Abs(Abs(p) - r) =< u
  PROVE  Abs(Abs(p + d) - r) =< u + v
  BY DEF Abs

LEMMA InitViewInv == Init => ViewInv
  <1> SUFFICES ASSUME Init PROVE ViewInv
    OBVIOUS
  <1>1. RowsSound
    BY DEF Init, MonitorInit, NoRows, RowsSound
  <1>2. ASSUME NEW a \in Accounts, NEW s \in SymbolsOf[a]
        PROVE  Abs(Held(a, s) - positionValues[s]) =< unseen[a][s]
    <2>1. s \in Symbols
      BY AccountsAssumption
    <2>2. exPos[a][s] = 0 /\ positionValues[s] = 0 /\ unseen[a][s] = 0
      BY <2>1 DEF Init, ExchangeInit, RiskInit
    <2>3. QED
      BY <2>2 DEF Held, Abs
  <1>3. QED
    BY <1>1, <1>2 DEF ViewInv, RiskViewSound

(* Steps that neither fill, read nor hand over positions. *)
LEMMA ViewUnmoved ==
  ASSUME ViewInv, UNCHANGED <<positionValues, exPos, unseen, sinceFetch, monAcct, rows>>,
         monPc' = "apply" <=> monPc = "apply"
  PROVE  ViewInv'
  BY DEF ViewInv, RowsSound, RiskViewSound, Held

LEMMA OrderThreadView ==
  ASSUME ViewInv, OrderThread
  PROVE  ViewInv'
  <1>1. UNCHANGED <<positionValues, exPos, unseen, sinceFetch>>
    BY DEF OrderThread, OrderRequest, SingleStep, BatchStep, PlaceOrderRejected,
       PlaceOrderChecked, BatchTaken, CancelOrders, AmendOrder, PlaceOrderNoAccount,
       PlaceOrderCall, PlaceOrderReply, BatchNoAccount, BatchAnswered, BatchGroupThrows,
       BatchRefused, BatchThrows, BatchReported, exchangeVars, riskVars
  <1>2. UNCHANGED <<monPc, monAcct, rows>>
    BY DEF OrderThread, monitorVars
  <1>3. QED
    BY <1>1, <1>2, ViewUnmoved

(* A fill is counted in unseen and sinceFetch as it moves the position. *)
LEMMA FillView ==
  ASSUME TypeOK, KnownOrders, ViewInv, ExchangeFills
  PROVE  ViewInv'
  <1>1. PICK o \in Orders : \E v \in 1 .. left[o] : Fill(o, v)
    BY DEF ExchangeFills
  <1>2. PICK v \in 1 .. left[o] : Fill(o, v)
    BY <1>1
  <1> DEFINE b == ord[o].acct
             x == ord[o].sym
             d == Signed(ord[o].side, v)
  <1>3. /\ b \in Accounts /\ x \in Symbols
        /\ v \in Nat /\ d \in Int /\ d \in {v, -v}
    <2>1. ord[o] # NoOrder
      BY <1>2 DEF Fill, KnownOrders
    <2>2. QED
      BY <2>1, OrderedFacts, SignedType DEF TypeOK, ExchangeTypes
  <1>4. UNCHANGED <<positionValues, monPc, monAcct, rows>>
    BY DEF ExchangeFills, riskVars, monitorVars
  <1>5. ASSUME NEW a \in Accounts, NEW s \in Symbols
        PROVE  IF a = b /\ s = x
                 THEN /\ exPos'[a][s] = exPos[a][s] + d
                      /\ unseen'[a][s] = unseen[a][s] + v
                      /\ sinceFetch'[a][s] = sinceFetch[a][s] + v
                 ELSE /\ exPos'[a][s] = exPos[a][s]
                      /\ unseen'[a][s] = unseen[a][s]
                      /\ sinceFetch'[a][s] = sinceFetch[a][s]
    BY <1>2, <1>3 DEF Fill, TypeOK, ExchangeTypes
  <1>6. ASSUME NEW a \in Accounts, NEW s \in Symbols
        PROVE  /\ exPos[a][s] \in Int /\ positionValues[s] \in Nat
               /\ unseen[a][s] \in Nat /\ sinceFetch[a][s] \in Nat
    BY DEF TypeOK, ExchangeTypes, RiskTypes
  <1>7. RiskViewSound'
    <2> SUFFICES ASSUME NEW a \in Accounts, NEW s \in SymbolsOf[a]
                 PROVE  Abs(Abs(exPos'[a][s]) - positionValues[s]) =< unseen'[a][s]
      BY <1>4 DEF RiskViewSound, Held
    <2>1. s \in Symbols
      BY AccountsAssumption
    <2>2. Abs(Abs(exPos[a][s]) - positionValues[s]) =< unseen[a][s]
      BY DEF ViewInv, RiskViewSound, Held
    <2>3. CASE a = b /\ s = x
      <3>1. Abs(Abs(exPos[a][s] + d) - positionValues[s]) =< unseen[a][s] + v
        BY <1>3, <1>6, <2>1, <2>2, FillMoves
      <3>2. QED
        BY <1>5, <2>1, <2>3, <3>1
    <2>4. CASE ~ (a = b /\ s = x)
      BY <1>5, <2>1, <2>2, <2>4
    <2>5. QED
      BY <2>3, <2>4
  <1>8. RowsSound'
    <2>1. CASE monPc # "apply"
      BY <1>4, <2>1 DEF ViewInv, RowsSound
    <2>2. CASE monPc = "apply"
      <3> SUFFICES ASSUME NEW s \in DOMAIN rows
                   PROVE  /\ s \in SymbolsOf[monAcct]
                          /\ Abs(Abs(exPos'[monAcct][s]) - rows[s]) =< sinceFetch'[monAcct][s]
        BY <1>4, <2>2 DEF RowsSound, Held
      <3>1. /\ monAcct \in Accounts /\ s \in Symbols /\ rows[s] \in Nat
            /\ s \in SymbolsOf[monAcct]
            /\ Abs(Abs(exPos[monAcct][s]) - rows[s]) =< sinceFetch[monAcct][s]
        BY <2>2 DEF ViewInv, RowsSound, Held, KnownOrders, TypeOK, MonitorTypes
      <3>2. CASE monAcct = b /\ s = x
        <4>1. Abs(Abs(exPos[monAcct][s] + d) - rows[s]) =< sinceFetch[monAcct][s] + v
          BY <1>3, <1>6, <3>1, FillMoves
        <4>2. QED
          BY <1>5, <3>1, <3>2, <4>1
      <3>3. CASE ~ (monAcct = b /\ s = x)
        BY <1>5, <3>1, <3>3
      <3>4. QED
        BY <3>1, <3>2, <3>3
    <2>3. QED
      BY <2>1, <2>2
  <1>9. QED
    BY <1>7, <1>8 DEF ViewInv

(* Reading the positions starts a count from zero; handing a row over sets *)
(* the table to what was read.  No other account trades the instrument, so *)
(* nobody else's entry is overwritten: this is where DisjointBooks counts. *)
LEMMA MonitorView ==
  ASSUME DisjointBooks, TypeOK, KnownOrders, ViewInv, MonitorThread
  PROVE  ViewInv'
  <1>1. CASE \/ BeginRound \/ EndRound
             \/ \E a \in Accounts : NextAccount(a)
             \/ \E pnl \in PnlValues : PollBalance(pnl)
             \/ SkipRead \/ PollFails \/ PollOpenOrders
    BY <1>1 DEF BeginRound, EndRound, NextAccount, PollBalance, SkipRead, PollFails,
       PollOpenOrders, Leave, NoRows, UpdateDailyPnl, exchangeVars, riskVars,
       ViewInv, RowsSound, RiskViewSound, Held
  <1>2. CASE FetchPositions
    <2>1. monAcct \in Accounts /\ ListedSymbols(monAcct) \subseteq Symbols
      BY <1>2, AccountsAssumption DEF FetchPositions, KnownOrders, ListedSymbols
    <2>2. RiskViewSound'
      BY <1>2 DEF FetchPositions, riskVars, ViewInv, RiskViewSound, Held
    <2>3. ASSUME NEW s \in ListedSymbols(monAcct)
          PROVE  /\ s \in SymbolsOf[monAcct]
                 /\ rows'[s] = Held(monAcct, s) /\ sinceFetch'[monAcct][s] = 0
                 /\ Held(monAcct, s) \in Nat
      BY <1>2, <2>1, AbsType DEF FetchPositions, ListedSymbols, TypeOK, ExchangeTypes, Held
    <2>4. \A s \in ListedSymbols(monAcct) :
             Abs(Held(monAcct, s) - rows'[s]) =< sinceFetch'[monAcct][s]
      BY <2>3 DEF Abs
    <2>5. RowsSound'
      BY <1>2, <2>3, <2>4 DEF FetchPositions, RowsSound, Held
    <2>6. QED
      BY <2>2, <2>5 DEF ViewInv
  <1>3. ASSUME NEW s \in Symbols, ApplyPosition(s)
        PROVE  ViewInv'
    <2>1. /\ monAcct \in Accounts /\ s \in SymbolsOf[monAcct]
          /\ Abs(Held(monAcct, s) - rows[s]) =< sinceFetch[monAcct][s]
      BY <1>3 DEF ApplyPosition, KnownOrders, ViewInv, RowsSound
    <2>2. ASSUME NEW a \in Accounts, NEW u \in SymbolsOf[a]
          PROVE  Abs(Held(a, u) - positionValues'[u]) =< unseen'[a][u]
      <3>1. u \in Symbols
        BY AccountsAssumption
      <3>2. CASE u = s
        <4>1. a = monAcct
          BY <2>1, <3>2 DEF DisjointBooks
        <4>2. positionValues'[u] = rows[s] /\ unseen'[a][u] = sinceFetch[monAcct][s]
          BY <1>3, <3>1, <3>2, <4>1 DEF ApplyPosition, UpdatePosition, TypeOK, RiskTypes,
             ExchangeTypes
        <4>3. QED
          BY <2>1, <3>2, <4>1, <4>2
      <3>3. CASE u # s
        <4>1. positionValues'[u] = positionValues[u] /\ unseen'[a][u] = unseen[a][u]
          BY <1>3, <2>1, <3>1, <3>3 DEF ApplyPosition, UpdatePosition, TypeOK, RiskTypes,
             ExchangeTypes
        <4>2. QED
          BY <4>1 DEF ViewInv, RiskViewSound
      <3>4. QED
        BY <3>2, <3>3
    <2>3. RiskViewSound'
      BY <1>3, <2>2 DEF ApplyPosition, RiskViewSound, Held
    <2>4. RowsSound'
      BY <1>3 DEF ApplyPosition, ViewInv, RowsSound, Held
    <2>5. QED
      BY <2>3, <2>4 DEF ViewInv
  <1>4. QED
    BY <1>1, <1>2, <1>3 DEF MonitorThread, MonitorStep

LEMMA ViewAlways == DisjointBooks /\ Spec => [](TypeOK /\ ViewInv)
  <1> DEFINE I == DisjointBooks /\ TypeOK /\ KnownOrders /\ ViewInv
  <1>1. DisjointBooks /\ Init => I
    BY InitOrderInv, InitViewInv
  <1>2. I /\ [Next]_vars => I'
    <2>1. ASSUME I, UNCHANGED vars
          PROVE  ViewInv'
      BY <2>1, ViewUnmoved DEF vars, riskVars, exchangeVars, monitorVars
    <2>2. QED
      BY <2>1, TypesStep, OrderThreadView, MonitorView, FillView DEF Next, DisjointBooks
  <1>3. QED
    BY <1>1, <1>2, PTL DEF Spec

(* With one account per instrument, the risk manager's table is never      *)
(* further from the truth than what was filled since it was read.          *)
THEOREM RiskViewCorrect == DisjointBooks /\ Spec => []RiskViewSound
  <1>1. ViewInv => RiskViewSound
    BY DEF ViewInv
  <1>2. QED
    BY <1>1, ViewAlways, PTL

(* The arithmetic of the position check: a table off by u lets through at  *)
(* most u too much, as long as the position is not short, and an order     *)
(* checked at c that is worth v what the two differ by.                    *)
LEMMA CapArithmetic ==
  ASSUME NEW p \in Nat, NEW v \in Nat, NEW c \in Int, NEW side \in Sides,
         NEW r \in Nat, NEW u \in Nat, NEW m \in Nat,
         Abs(Abs(p) - r) =< u, Abs(r + Signed(side, c)) =< m
  PROVE  Abs(p + Signed(side, v)) =< m + u + Abs(v - c)
  <1>1. CASE side = "buy"
    BY <1>1 DEF Abs, Signed
  <1>2. CASE side # "buy"
    BY <1>2 DEF Abs, Signed
  <1>3. QED
    BY <1>1, <1>2

(* Only an order that passed check_order_with_value is added to passed. *)
LEMMA OnlyCheckedPass ==
  ASSUME TypeOK, [Next]_vars, NEW o \in NewlyPassed
  PROVE  \E t \in Templates, rateOk \in BOOLEAN : CheckOrder(t, CheckedValue(t), rateOk) /\ ord'[o] = t
  <1>1. passed' # passed /\ o \in passed' /\ o \notin passed
    BY DEF NewlyPassed
  <1>2. PICK p \in Orders, t \in Templates, rateOk \in BOOLEAN : PlaceOrderChecked(p, t, rateOk)
    BY <1>1 DEF Next, vars, OrderThread, OrderRequest, SingleStep, BatchStep, MonitorThread,
       ExchangeFills, PlaceOrderRejected, BatchTaken, CancelOrders, AmendOrder,
       PlaceOrderNoAccount, PlaceOrderCall, PlaceOrderReply, BatchNoAccount, BatchAnswered,
       BatchGroupThrows, BatchRefused, BatchThrows, BatchReported, orderVars
  <1>3. o = p /\ ord'[o] = t /\ CheckOrder(t, CheckedValue(t), rateOk)
    BY <1>1, <1>2 DEF PlaceOrderChecked, TypeOK, ExchangeTypes
  <1>4. QED
    BY <1>3

LEMMA LongCapHolds ==
  ASSUME TypeOK, RiskViewSound, [Next]_vars
  PROVE  LongCapStep
  <1> SUFFICES ASSUME NEW o \in NewlyPassed,
                      exPos[ord'[o].acct][ord'[o].sym] >= 0
               PROVE  Projected(ord'[o]) =<
                        MaxPositionValue + unseen[ord'[o].acct][ord'[o].sym] + Misjudged(ord'[o])
    BY DEF LongCapStep
  <1>1. PICK t \in Templates, rateOk \in BOOLEAN : CheckOrder(t, CheckedValue(t), rateOk) /\ ord'[o] = t
    BY OnlyCheckedPass
  <1> DEFINE p == exPos[t.acct][t.sym]
             c == CheckedValue(t)
             r == positionValues[t.sym]
             u == unseen[t.acct][t.sym]
  <1>2. /\ p \in Nat /\ c \in Int /\ r \in Nat /\ u \in Nat /\ MaxPositionValue \in Nat
        /\ t.side \in Sides /\ t.value \in Nat
    BY <1>1, TemplateFacts, LimitsAssumption DEF TypeOK, ExchangeTypes, RiskTypes
  <1>3. Abs(r + Signed(t.side, c)) =< MaxPositionValue
    BY <1>1 DEF CheckOrder
  <1>4. Abs(Abs(p) - r) =< u
    BY TemplateFacts DEF RiskViewSound, Held
  <1>5. Abs(p + Signed(t.side, t.value)) =< MaxPositionValue + u + Abs(t.value - c)
    <2> HIDE DEF p, c, r, u
    <2>1. QED
      BY <1>2, <1>3, <1>4, CapArithmetic
  <1>6. QED
    BY <1>1, <1>5 DEF Projected, Misjudged

(* What check_order_with_value guarantees although its table is refreshed  *)
(* behind the exchange's back: in an instrument that is long or flat, an   *)
(* order that passes exceeds max_position_value by no more than what was   *)
(* filled since the table was read and what its worth was misjudged by.    *)
THEOREM LongCap == DisjointBooks /\ Spec => LongCapUpToUnseen
  <1>1. TypeOK /\ ViewInv /\ [Next]_vars => [LongCapStep]_vars
    BY LongCapHolds DEF ViewInv
  <1>2. Spec => [][Next]_vars
    BY PTL DEF Spec
  <1>3. QED
    BY <1>1, <1>2, ViewAlways, PTL DEF LongCapUpToUnseen

-----------------------------------------------------------------------------
(* Sums *)

(* What a sum does: it takes away some member of each part. *)
Adds(f, D, g) ==
  g = [s \in SUBSET D |-> IF s = {} THEN 0 ELSE f[CHOOSE x \in s : TRUE] + g[s \ {CHOOSE x \in s : TRUE}]]

LEMMA SumAdds ==
  ASSUME NEW D, IsFiniteSet(D), NEW f, \A x \in D : f[x] \in Int
  PROVE  \E g \in [SUBSET D -> Int] : Adds(f, D, g) /\ SumFunctionOnSet(f, D) = g[D]
  <1> DEFINE choose == [s \in SUBSET D |-> CHOOSE x \in s : TRUE]
             op == [p \in (SUBSET D) \X Int |-> IF p[1] = {} THEN 0 ELSE f[choose[p[1]]] + p[2]]
             h == CHOOSE g : Adds(f, D, g)
  <1>1. \A s \in (SUBSET D) \ {{}} : choose[s] \in s /\ choose[s] = CHOOSE x \in s : TRUE
    OBVIOUS
  <1>2. op \in [((SUBSET D) \X Int) -> Int]
    <2>1. ASSUME NEW p \in (SUBSET D) \X Int
          PROVE  op[p] \in Int
      <3>1. CASE p[1] = {}
        BY <3>1
      <3>2. CASE p[1] # {}
        <4>1. f[choose[p[1]]] \in Int /\ p[2] \in Int
          BY <1>1, <3>2
        <4> HIDE DEF choose
        <4>2. QED
          BY <3>2, <4>1
      <3>3. QED
        BY <3>1, <3>2
    <2>2. QED
      BY <2>1
  <1>3. PICK g \in [SUBSET D -> Int] : Folds(D, 0, op, choose, g)
    <2>1. 0 \in Int /\ \A s \in (SUBSET D) \ {{}} : choose[s] \in s
      BY <1>1
    <2> HIDE DEF choose, op
    <2>2. QED
      BY <1>2, <2>1, FoldExists
  <1>4. ASSUME NEW s \in SUBSET D, s # {}
        PROVE  op[<<s, g[s \ {choose[s]}]>>] = f[CHOOSE x \in s : TRUE] + g[s \ {CHOOSE x \in s : TRUE}]
    <2>1. s \ {choose[s]} \in SUBSET D
      OBVIOUS
    <2>2. <<s, g[s \ {choose[s]}]>> \in (SUBSET D) \X Int
      BY <2>1
    <2>3. choose[s] = CHOOSE x \in s : TRUE
      BY <1>1, <1>4
    <2> HIDE DEF choose
    <2>4. QED
      BY <1>4, <2>2, <2>3
  <1>5. Adds(f, D, g)
    <2> HIDE DEF op, choose
    <2>1. QED
      BY <1>3, <1>4 DEF Folds, Adds
  <1>6. Adds(f, D, h)
    BY <1>5
  <1>7. SumFunctionOnSet(f, D) = h[D]
    BY DEF SumFunctionOnSet, FoldFunctionOnSet, MapThenFoldSet, Adds
  <1> HIDE DEF h
  <1>8. \A s \in SUBSET D : h[s] \in Int
    <2> DEFINE T == {s \in SUBSET D : h[s] \in Int}
    <2>1. {} \in T
      BY <1>6 DEF Adds
    <2>2. ASSUME NEW s \in SUBSET D, s # {}, \A x \in s : s \ {x} \in T
          PROVE  s \in T
      <3>1. PICK c \in s : c = CHOOSE x \in s : TRUE
        BY <2>2
      <3>2. h[s] = f[c] + h[s \ {c}]
        BY <1>6, <2>2, <3>1 DEF Adds
      <3>3. f[c] \in Int /\ h[s \ {c}] \in Int
        BY <2>2
      <3>4. QED
        BY <3>2, <3>3
    <2>3. T \in SUBSET SUBSET D
      OBVIOUS
    <2> HIDE DEF T
    <2>4. T = SUBSET D
      BY <2>1, <2>2, <2>3, AllParts
    <2>5. QED
      BY <2>4 DEF T
  <1>9. h \in [SUBSET D -> Int]
    <2>1. h = [s \in SUBSET D |-> h[s]]
      BY <1>6 DEF Adds
    <2>2. QED
      BY <1>8, <2>1
  <1>10. QED
    BY <1>6, <1>7, <1>9

(* The sum over a set is that of a member and of the rest. *)
LEMMA SumStep ==
  ASSUME NEW D, IsFiniteSet(D), NEW f, \A x \in D : f[x] \in Int
  PROVE  /\ SumFunctionOnSet(f, D) \in Int
         /\ D = {} => SumFunctionOnSet(f, D) = 0
         /\ D # {} => \E c \in D : SumFunctionOnSet(f, D) = f[c] + SumFunctionOnSet(f, D \ {c})
  <1>1. PICK g \in [SUBSET D -> Int] : Adds(f, D, g) /\ SumFunctionOnSet(f, D) = g[D]
    BY SumAdds
  <1>2. ASSUME D # {}
        PROVE  \E c \in D : SumFunctionOnSet(f, D) = f[c] + SumFunctionOnSet(f, D \ {c})
    <2>1. PICK c \in D : c = CHOOSE x \in D : TRUE
      BY <1>2
    <2>2. SumFunctionOnSet(f, D) = f[c] + g[D \ {c}]
      BY <1>1, <1>2, <2>1 DEF Adds
    <2> DEFINE E == D \ {c}
    <2>3. E \in SUBSET D /\ IsFiniteSet(E)
      BY FS_Subset
    <2> HIDE DEF E
    <2>4. PICK h \in [SUBSET E -> Int] : Adds(f, E, h) /\ SumFunctionOnSet(f, E) = h[E]
      BY <2>3, SumAdds
    <2> DEFINE T == {s \in SUBSET E : h[s] = g[s]}
    <2>5. {} \in T
      BY <1>1, <2>4 DEF Adds
    <2>6. ASSUME NEW s \in SUBSET E, s # {}, \A x \in s : s \ {x} \in T
          PROVE  s \in T
      <3>1. PICK k \in s : k = CHOOSE x \in s : TRUE
        BY <2>6
      <3>2. h[s] = f[k] + h[s \ {k}]
        BY <2>4, <2>6, <3>1 DEF Adds
      <3>3. g[s] = f[k] + g[s \ {k}]
        BY <1>1, <2>3, <2>6, <3>1 DEF Adds
      <3>4. QED
        BY <2>6, <3>2, <3>3
    <2>7. T \in SUBSET SUBSET E
      OBVIOUS
    <2> HIDE DEF T
    <2>8. T = SUBSET E
      <3>1. \A s \in SUBSET E : s # {} /\ (\A x \in s : s \ {x} \in T) => s \in T
        BY <2>6
      <3>2. IsFiniteSet(E)
        BY <2>3
      <3>3. QED
        BY <2>5, <2>7, <3>1, <3>2, AllParts
    <2>9. h[E] = g[E]
      BY <2>8 DEF T
    <2>10. QED
      BY <2>2, <2>4, <2>9 DEF E
  <1>3. g[D] \in Int /\ (D = {} => g[D] = 0)
    BY <1>1 DEF Adds
  <1>4. QED
    BY <1>1, <1>2, <1>3

(* ... of any member and of the rest. *)
LEMMA SumTakes ==
  ASSUME NEW D, IsFiniteSet(D), NEW f, \A x \in D : f[x] \in Int, NEW d \in D
  PROVE  SumFunctionOnSet(f, D) = f[d] + SumFunctionOnSet(f, D \ {d})
  <1> DEFINE Total(s) == SumFunctionOnSet(f, s)
             T == {s \in SUBSET D : \A x \in s : Total(s) = f[x] + Total(s \ {x})}
  <1>0. \A s \in SUBSET D : IsFiniteSet(s) /\ Total(s) \in Int /\ (s # {} => \E c \in s : Total(s) = f[c] + Total(s \ {c}))
    <2>1. ASSUME NEW s \in SUBSET D
          PROVE  IsFiniteSet(s) /\ Total(s) \in Int /\ (s # {} => \E c \in s : Total(s) = f[c] + Total(s \ {c}))
      <3>1. IsFiniteSet(s) /\ \A x \in s : f[x] \in Int
        BY FS_Subset
      <3>2. QED
        BY <3>1, SumStep
    <2>2. QED
      BY <2>1
  <1> HIDE DEF Total
  <1>1. {} \in T
    OBVIOUS
  <1>2. ASSUME NEW s \in SUBSET D, s # {}, \A x \in s : s \ {x} \in T
        PROVE  s \in T
    <2>1. PICK c \in s : Total(s) = f[c] + Total(s \ {c})
      BY <1>0, <1>2
    <2>2. ASSUME NEW x \in s, x # c
          PROVE  Total(s) = f[x] + Total(s \ {x})
      <3> DEFINE r == (s \ {c}) \ {x}
      <3>1. r = (s \ {x}) \ {c} /\ r \in SUBSET D
        OBVIOUS
      <3>2. Total(s \ {c}) = f[x] + Total(r)
        BY <1>2, <2>2
      <3>3. Total(s \ {x}) = f[c] + Total(r)
        BY <1>2, <2>2, <3>1
      <3>4. f[x] \in Int /\ f[c] \in Int /\ Total(r) \in Int
        BY <1>0, <3>1
      <3> HIDE DEF r
      <3>5. QED
        BY <2>1, <3>2, <3>3, <3>4
    <2>3. QED
      BY <2>1, <2>2
  <1>3. T \in SUBSET SUBSET D
    OBVIOUS
  <1> HIDE DEF T
  <1>4. T = SUBSET D
    BY <1>1, <1>2, <1>3, AllParts
  <1>5. D \in T
    BY <1>4
  <1>6. QED
    BY <1>5 DEF T, Total

(* Sums are ordered as their members are. *)
LEMMA SumBound ==
  ASSUME NEW D, IsFiniteSet(D), NEW f, NEW g, NEW h,
         \A x \in D : f[x] \in Int /\ g[x] \in Int /\ h[x] \in Int /\ f[x] =< g[x] + h[x]
  PROVE  SumFunctionOnSet(f, D) =< SumFunctionOnSet(g, D) + SumFunctionOnSet(h, D)
  <1> DEFINE Total(e, s) == SumFunctionOnSet(e, s)
             T == {s \in SUBSET D : Total(f, s) =< Total(g, s) + Total(h, s)}
  <1>1. {} \in T
    <2>1. IsFiniteSet({})
      BY FS_EmptySet
    <2>2. Total(f, {}) = 0 /\ Total(g, {}) = 0 /\ Total(h, {}) = 0
      BY <2>1, SumStep
    <2>3. QED
      BY <2>2
  <1>2. ASSUME NEW s \in SUBSET D, s # {}, \A x \in s : s \ {x} \in T
        PROVE  s \in T
    <2>1. PICK c \in s : TRUE
      BY <1>2
    <2>2. /\ IsFiniteSet(s) /\ IsFiniteSet(s \ {c})
          /\ \A x \in s : f[x] \in Int /\ g[x] \in Int /\ h[x] \in Int
          /\ \A x \in s \ {c} : f[x] \in Int /\ g[x] \in Int /\ h[x] \in Int
      BY FS_Subset
    <2>3. /\ Total(f, s) = f[c] + Total(f, s \ {c})
          /\ Total(g, s) = g[c] + Total(g, s \ {c})
          /\ Total(h, s) = h[c] + Total(h, s \ {c})
      BY <2>2, SumTakes
    <2>4. Total(f, s \ {c}) \in Int /\ Total(g, s \ {c}) \in Int /\ Total(h, s \ {c}) \in Int
      BY <2>2, SumStep
    <2>5. Total(f, s \ {c}) =< Total(g, s \ {c}) + Total(h, s \ {c})
      BY <1>2
    <2> HIDE DEF Total
    <2>6. QED
      BY <2>3, <2>4, <2>5
  <1>3. T \in SUBSET SUBSET D
    OBVIOUS
  <1> HIDE DEF T
  <1>4. T = SUBSET D
    BY <1>1, <1>2, <1>3, AllParts
  <1>5. QED
    BY <1>4 DEF T

(* The sum over two sets with no common member. *)
LEMMA SumDisjoint ==
  ASSUME NEW C, IsFiniteSet(C), NEW D, IsFiniteSet(D), C \cap D = {}, NEW f, \A x \in C \cup D : f[x] \in Int
  PROVE  SumFunctionOnSet(f, C \cup D) = SumFunctionOnSet(f, C) + SumFunctionOnSet(f, D)
  <1> DEFINE Total(s) == SumFunctionOnSet(f, s)
             T == {s \in SUBSET D : Total(C \cup s) = Total(C) + Total(s)}
  <1>1. \A s \in SUBSET (C \cup D) : IsFiniteSet(s) /\ Total(s) \in Int
    <2>1. IsFiniteSet(C \cup D)
      BY FS_Union
    <2>2. ASSUME NEW s \in SUBSET (C \cup D)
          PROVE  IsFiniteSet(s) /\ Total(s) \in Int
      <3>1. IsFiniteSet(s) /\ \A x \in s : f[x] \in Int
        BY <2>1, FS_Subset
      <3>2. QED
        BY <3>1, SumStep
    <2>3. QED
      BY <2>2
  <1>2. {} \in T
    <2>1. Total({}) = 0
      BY FS_EmptySet, SumStep
    <2>2. Total(C) \in Int /\ C \cup {} = C
      BY <1>1
    <2> HIDE DEF Total
    <2>3. QED
      BY <2>1, <2>2
  <1>3. ASSUME NEW s \in SUBSET D, s # {}, \A x \in s : s \ {x} \in T
        PROVE  s \in T
    <2>1. PICK c \in s : TRUE
      BY <1>3
    <2> DEFINE all == C \cup s  rest == s \ {c}
    <2>2. all \ {c} = C \cup rest /\ c \in all /\ all \in SUBSET (C \cup D) /\ s \in SUBSET (C \cup D) /\ rest \in SUBSET (C \cup D)
      OBVIOUS
    <2>3. Total(all) = f[c] + Total(all \ {c}) /\ Total(s) = f[c] + Total(rest)
      <3>1. IsFiniteSet(all) /\ IsFiniteSet(s) /\ \A x \in all : f[x] \in Int
        BY <1>1, <2>2
      <3> HIDE DEF all
      <3>2. Total(all) = f[c] + Total(all \ {c})
        BY <2>2, <3>1, SumTakes
      <3>3. Total(s) = f[c] + Total(rest)
        BY <3>1, SumTakes DEF all
      <3>4. QED
        BY <3>2, <3>3
    <2>4. Total(C \cup rest) = Total(C) + Total(rest)
      BY <1>3
    <2>5. f[c] \in Int /\ Total(C) \in Int /\ Total(rest) \in Int
      BY <1>1, <2>2
    <2>6. Total(all) = Total(C) + Total(s)
      <3>1. all \ {c} = C \cup rest
        BY <2>2
      <3> HIDE DEF Total, all, rest
      <3>2. Total(all) = f[c] + (Total(C) + Total(rest)) /\ Total(s) = f[c] + Total(rest)
        BY <2>3, <2>4, <3>1
      <3>3. QED
        BY <2>5, <3>2
    <2> HIDE DEF Total, rest
    <2>7. QED
      BY <2>6 DEF all
  <1>4. T \in SUBSET SUBSET D
    OBVIOUS
  <1> HIDE DEF T
  <1>5. T = SUBSET D
    BY <1>2, <1>3, <1>4, AllParts
  <1>6. QED
    BY <1>5 DEF T

(* A part of a set of naturals adds up to no more. *)
LEMMA SumPart ==
  ASSUME NEW D, IsFiniteSet(D), NEW f, \A x \in D : f[x] \in Nat, NEW C \in SUBSET D
  PROVE  SumFunctionOnSet(f, C) =< SumFunctionOnSet(f, D)
  <1> DEFINE E == D \ C  zero == [x \in E |-> 0]
  <1>1. IsFiniteSet(C) /\ IsFiniteSet(E) /\ C \cap E = {} /\ C \cup E = D
    BY FS_Subset
  <1>2. SumFunctionOnSet(f, D) = SumFunctionOnSet(f, C) + SumFunctionOnSet(f, E)
    BY <1>1, SumDisjoint
  <1>3. SumFunctionOnSet(f, C) \in Int /\ SumFunctionOnSet(f, E) \in Int
    BY <1>1, SumStep
  <1>4. SumFunctionOnSet(f, E) >= 0
    <2> DEFINE T == {s \in SUBSET E : SumFunctionOnSet(f, s) >= 0}
    <2>1. {} \in T
      BY FS_EmptySet, SumStep
    <2>2. ASSUME NEW s \in SUBSET E, s # {}, \A x \in s : s \ {x} \in T
          PROVE  s \in T
      <3>1. IsFiniteSet(s) /\ \A x \in s : f[x] \in Nat
        BY <1>1, FS_Subset
      <3>2. PICK c \in s : SumFunctionOnSet(f, s) = f[c] + SumFunctionOnSet(f, s \ {c})
        BY <2>2, <3>1, SumStep
      <3>3. IsFiniteSet(s \ {c}) /\ \A x \in s \ {c} : f[x] \in Int
        BY <3>1, FS_Subset
      <3>4. SumFunctionOnSet(f, s \ {c}) \in Int /\ SumFunctionOnSet(f, s \ {c}) >= 0 /\ f[c] \in Nat
        BY <2>2, <3>1, <3>3, SumStep
      <3>5. QED
        BY <3>2, <3>4
    <2>3. T \in SUBSET SUBSET E
      OBVIOUS
    <2> HIDE DEF T, E
    <2>4. T = SUBSET E
      BY <1>1, <2>1, <2>2, <2>3, AllParts
    <2>5. QED
      BY <2>4 DEF T
  <1> HIDE DEF E
  <1>5. QED
    BY <1>2, <1>3, <1>4

-----------------------------------------------------------------------------
(* The total *)

(* What is held in an instrument is what the table has, but for what was   *)
(* filled since.                                                           *)
LEMMA HeldBound ==
  ASSUME NEW p \in Int, NEW r \in Nat, NEW u \in Nat, Abs(Abs(p) - r) =< u
  PROVE  Abs(p) =< Abs(r) + Abs(u)
  BY DEF Abs

(* The books of the accounts of B. *)
Books(B) == UNION {SymbolsOf[a] : a \in B}
Table == [s \in Symbols |-> Abs(positionValues[s])]
Book(f) == [a \in Accounts |-> SumFunction([s \in SymbolsOf[a] |-> Abs(f[a][s])])]

LEMMA BookIs ==
  ASSUME NEW f, NEW a \in Accounts, \A s \in SymbolsOf[a] : f[a][s] \in Int
  PROVE  /\ IsFiniteSet(SymbolsOf[a]) /\ SymbolsOf[a] \subseteq Symbols
         /\ Book(f)[a] = SumFunctionOnSet([s \in SymbolsOf[a] |-> Abs(f[a][s])], SymbolsOf[a])
         /\ Book(f)[a] \in Int
  <1> DEFINE F == [s \in SymbolsOf[a] |-> Abs(f[a][s])]
  <1>1. SymbolsOf[a] \subseteq Symbols
    BY AccountsAssumption
  <1>2. IsFiniteSet(SymbolsOf[a])
    BY <1>1, SymbolsAssumption, FS_Subset
  <1>3. Book(f)[a] = SumFunction(F) /\ DOMAIN F = SymbolsOf[a]
    BY DEF Book
  <1>4. \A s \in SymbolsOf[a] : F[s] \in Int
    BY AbsType
  <1> HIDE DEF F
  <1>5. SumFunctionOnSet(F, SymbolsOf[a]) \in Int
    BY <1>2, <1>4, SumStep
  <1>6. QED
    BY <1>1, <1>2, <1>3, <1>5 DEF SumFunction, F

LEMMA TableIs ==
  ASSUME TypeOK
  PROVE  /\ \A s \in Symbols : Table[s] \in Nat
         /\ TotalExposure = SumFunctionOnSet(Table, Symbols)
         /\ TotalExposure \in Int
  <1>1. \A s \in Symbols : Table[s] \in Nat
    BY AbsType DEF Table, TypeOK, RiskTypes
  <1>2. TotalExposure = SumFunctionOnSet(Table, Symbols)
    BY DEF TotalExposure, SumFunction, Table
  <1>3. SumFunctionOnSet(Table, Symbols) \in Int
    BY <1>1, SymbolsAssumption, SumStep
  <1>4. QED
    BY <1>1, <1>2, <1>3

LEMMA BooksAre ==
  ASSUME TypeOK, NEW a \in Accounts
  PROVE  /\ \A s \in SymbolsOf[a] : exPos[a][s] \in Int /\ unseen[a][s] \in Int
         /\ Book(exPos)[a] \in Int /\ Book(unseen)[a] \in Int
  <1>1. \A s \in SymbolsOf[a] : exPos[a][s] \in Int /\ unseen[a][s] \in Int
    BY AccountsAssumption DEF TypeOK, ExchangeTypes
  <1>2. QED
    BY <1>1, BookIs

LEMMA OneBook ==
  ASSUME TypeOK, RiskViewSound, NEW a \in Accounts
  PROVE  Book(exPos)[a] =< SumFunctionOnSet(Table, SymbolsOf[a]) + Book(unseen)[a]
  <1> DEFINE S == SymbolsOf[a]  P == [s \in S |-> Abs(exPos[a][s])]  U == [s \in S |-> Abs(unseen[a][s])]
  <1>1. /\ IsFiniteSet(S) /\ S \subseteq Symbols
        /\ Book(exPos)[a] = SumFunctionOnSet(P, S) /\ Book(unseen)[a] = SumFunctionOnSet(U, S)
    BY BooksAre, BookIs
  <1>2. ASSUME NEW s \in S
        PROVE  P[s] \in Int /\ U[s] \in Int /\ Table[s] \in Int /\ P[s] =< Table[s] + U[s]
    <2>1. s \in Symbols /\ exPos[a][s] \in Int /\ unseen[a][s] \in Nat /\ positionValues[s] \in Nat
      BY <1>1 DEF TypeOK, ExchangeTypes, RiskTypes
    <2>2. Abs(Abs(exPos[a][s]) - positionValues[s]) =< unseen[a][s]
      BY DEF RiskViewSound, Held
    <2>3. Abs(exPos[a][s]) =< Abs(positionValues[s]) + Abs(unseen[a][s])
      BY <2>1, <2>2, HeldBound
    <2>4. /\ Abs(exPos[a][s]) \in Int /\ Abs(unseen[a][s]) \in Int /\ Abs(positionValues[s]) \in Int
          /\ Table[s] = Abs(positionValues[s]) /\ P[s] = Abs(exPos[a][s]) /\ U[s] = Abs(unseen[a][s])
      BY <2>1, AbsType DEF Table
    <2>5. QED
      BY <2>3, <2>4
  <1> HIDE DEF S, P, U
  <1>3. SumFunctionOnSet(P, S) =< SumFunctionOnSet(Table, S) + SumFunctionOnSet(U, S)
    BY <1>1, <1>2, SumBound
  <1>4. QED
    BY <1>1, <1>3 DEF S

(* All books together, which have no instrument in common. *)
LEMMA AllBooks ==
  ASSUME DisjointBooks, TypeOK, RiskViewSound
  PROVE  /\ BookSum(exPos) =< TotalExposure + BookSum(unseen)
         /\ BookSum(exPos) \in Int /\ BookSum(unseen) \in Int
  <1> DEFINE P == Book(exPos)  U == Book(unseen)
             Total(f, S) == SumFunctionOnSet(f, S)
             T == {B \in SUBSET Accounts : Total(P, B) =< Total(Table, Books(B)) + Total(U, B)}
  <1>1. \A a \in Accounts : P[a] \in Int /\ U[a] \in Int
    BY BooksAre
  <1>2. ASSUME NEW B \in SUBSET Accounts
        PROVE  /\ IsFiniteSet(B) /\ IsFiniteSet(Books(B)) /\ Books(B) \subseteq Symbols
               /\ Total(P, B) \in Int /\ Total(U, B) \in Int /\ Total(Table, Books(B)) \in Int
    <2>1. IsFiniteSet(B)
      BY AccountsAssumption, FS_Subset
    <2>2. Books(B) \subseteq Symbols
      BY AccountsAssumption DEF Books
    <2>3. IsFiniteSet(Books(B))
      BY <2>2, SymbolsAssumption, FS_Subset
    <2>4. \A s \in Books(B) : Table[s] \in Int
      BY <2>2, TableIs
    <2>5. Total(Table, Books(B)) \in Int
      BY <2>3, <2>4, SumStep
    <2>6. Total(P, B) \in Int /\ Total(U, B) \in Int
      <3>1. \A a \in B : P[a] \in Int /\ U[a] \in Int
        BY <1>1
      <3> HIDE DEF P, U
      <3>2. QED
        BY <2>1, <3>1, SumStep
    <2>7. QED
      BY <2>1, <2>2, <2>3, <2>5, <2>6
  <1>3. {} \in T
    <2>1. Books({}) = {}
      BY DEF Books
    <2>2. Total(P, {}) = 0 /\ Total(U, {}) = 0 /\ Total(Table, {}) = 0
      BY FS_EmptySet, SumStep
    <2>3. QED
      BY <2>1, <2>2
  <1>4. ASSUME NEW B \in SUBSET Accounts, B # {}, \A a \in B : B \ {a} \in T
        PROVE  B \in T
    <2>1. PICK a \in B : TRUE
      BY <1>4
    <2> DEFINE R == B \ {a}
    <2>2. R \in SUBSET Accounts /\ R \in T
      BY <1>4
    <2>3. Books(B) = Books(R) \cup SymbolsOf[a]
      BY DEF Books
    <2>4. Books(R) \cap SymbolsOf[a] = {}
      BY DEF Books, DisjointBooks
    <2>5. IsFiniteSet(SymbolsOf[a]) /\ SymbolsOf[a] \subseteq Symbols
      BY BooksAre, BookIs
    <2>6. Total(Table, Books(B)) = Total(Table, Books(R)) + Total(Table, SymbolsOf[a])
      <3>1. IsFiniteSet(Books(R))
        BY <1>2, <2>2
      <3>2. \A s \in Books(R) \cup SymbolsOf[a] : Table[s] \in Int
        BY <1>2, <2>2, <2>5, TableIs
      <3> HIDE DEF R
      <3>3. SumFunctionOnSet(Table, Books(R) \cup SymbolsOf[a]) = SumFunctionOnSet(Table, Books(R)) + SumFunctionOnSet(Table, SymbolsOf[a])
        BY <2>4, <2>5, <3>1, <3>2, SumDisjoint
      <3>4. QED
        BY <2>3, <3>3
    <2>7. Total(P, B) = P[a] + Total(P, R) /\ Total(U, B) = U[a] + Total(U, R)
      <3>1. IsFiniteSet(B) /\ \A b \in B : P[b] \in Int /\ U[b] \in Int
        BY <1>1, <1>2
      <3> HIDE DEF P, U
      <3>2. QED
        BY <3>1, SumTakes
    <2>8. P[a] =< Total(Table, SymbolsOf[a]) + U[a]
      BY OneBook
    <2>9. P[a] \in Int /\ U[a] \in Int
      BY <1>1
    <2>10. Total(Table, SymbolsOf[a]) \in Int
      <3>1. \A s \in SymbolsOf[a] : Table[s] \in Int
        BY <2>5, TableIs
      <3>2. QED
        BY <2>5, <3>1, SumStep
    <2>11. Total(P, R) \in Int /\ Total(U, R) \in Int /\ Total(Table, Books(R)) \in Int
      BY <1>2, <2>2
    <2>12. Total(P, R) =< Total(Table, Books(R)) + Total(U, R)
      BY <2>2
    <2> HIDE DEF R, P, U, Total
    <2>13. Total(P, B) =< Total(Table, Books(B)) + Total(U, B)
      BY <2>6, <2>7, <2>8, <2>9, <2>10, <2>11, <2>12
    <2>14. QED
      BY <2>13
  <1>5. T \in SUBSET SUBSET Accounts
    OBVIOUS
  <1>6. Accounts \in T
    <2> HIDE DEF T
    <2>1. \A B \in SUBSET Accounts : B # {} /\ (\A a \in B : B \ {a} \in T) => B \in T
      BY <1>4
    <2>2. IsFiniteSet(Accounts)
      BY AccountsAssumption
    <2>3. T = SUBSET Accounts
      BY <1>3, <1>5, <2>1, <2>2, AllParts
    <2>4. QED
      BY <2>3
  <1>7. Total(P, Accounts) =< Total(Table, Books(Accounts)) + Total(U, Accounts)
    BY <1>6
  <1>8. Total(Table, Books(Accounts)) =< Total(Table, Symbols)
    <2>1. Books(Accounts) \in SUBSET Symbols
      BY <1>2
    <2>2. QED
      BY <2>1, TableIs, SymbolsAssumption, SumPart
  <1>9. BookSum(exPos) = Total(P, Accounts) /\ BookSum(unseen) = Total(U, Accounts)
    BY DEF BookSum, SumFunction, Book
  <1>10. /\ Total(Table, Symbols) = TotalExposure /\ TotalExposure \in Int
         /\ Total(P, Accounts) \in Int /\ Total(U, Accounts) \in Int /\ Total(Table, Books(Accounts)) \in Int
    BY <1>2, TableIs
  <1> HIDE DEF P, U, Total
  <1>11. QED
    BY <1>7, <1>8, <1>9, <1>10

LEMMA TotalCapHolds ==
  ASSUME DisjointBooks, TypeOK, RiskViewSound, [Next]_vars
  PROVE  TotalCapStep
  <1> SUFFICES ASSUME NEW o \in NewlyPassed
               PROVE  BookSum(exPos) + ord'[o].value =<
                        MaxTotalExposure + BookSum(unseen) + Untold(ord'[o])
    BY DEF TotalCapStep
  <1>1. PICK t \in Templates, rateOk \in BOOLEAN : CheckOrder(t, CheckedValue(t), rateOk) /\ ord'[o] = t
    BY OnlyCheckedPass
  <1>2. TotalExposure + CheckedValue(t) =< MaxTotalExposure
    BY <1>1 DEF CheckOrder
  <1>3. t.value \in Nat /\ CheckedValue(t) \in Int /\ MaxTotalExposure \in Nat /\ TotalExposure \in Int
    BY TemplateFacts, LimitsAssumption, TableIs
  <1>4. BookSum(exPos) =< TotalExposure + BookSum(unseen) /\ BookSum(exPos) \in Int /\ BookSum(unseen) \in Int
    BY AllBooks
  <1>5. t.value =< CheckedValue(t) + Untold(t) /\ Untold(t) \in Nat
    BY <1>3 DEF Untold
  <1>6. QED
    BY <1>1, <1>2, <1>3, <1>4, <1>5

(* What check_order_with_value guarantees of the total: an order that      *)
(* passes keeps all positions at the exchanges together within             *)
(* max_total_exposure, but for what was filled since the table was read    *)
(* and for what the order is worth beyond the value it was checked at.     *)
THEOREM TotalCap == DisjointBooks /\ Spec => TotalCapUpToUnseen
  <1>1. DisjointBooks /\ TypeOK /\ ViewInv /\ [Next]_vars => [TotalCapStep]_vars
    BY TotalCapHolds DEF ViewInv
  <1>2. Spec => [][Next]_vars
    BY PTL DEF Spec
  <1>3. DisjointBooks => DisjointBooks'
    BY DEF DisjointBooks
  <1>4. DisjointBooks /\ Spec => []DisjointBooks
    BY <1>2, <1>3, PTL
  <1>5. QED
    BY <1>1, <1>2, <1>4, ViewAlways, PTL DEF TotalCapUpToUnseen

=============================================================================
