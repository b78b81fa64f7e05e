------------------------------- MODULE Exchange -------------------------------
(***************************************************************************)
(* The exchanges behind the REST adapters, as the code under src/cpp uses  *)
(* them (external code): orders that arrive, rest, fill or are cancelled,  *)
(* and the net position of each account in each instrument.                *)
(*                                                                         *)
(* unseen and sinceFetch are history variables: how much an account has    *)
(* filled in an instrument since the position data the risk manager holds, *)
(* or the data the account monitor is about to hand over, was read.        *)
(* Marks do not move: a position changes its value by fills only.          *)
(***************************************************************************)
EXTENDS RiskManager

CONSTANTS
    Orders,             \* order identities
    Accounts,           \* exchange accounts
    OkxAccounts,        \* the accounts on OKX; the others are on Binance
    SymbolsOf,          \* SymbolsOf[a]: the instruments of a's exchange
    Templates           \* the orders strategies may ask for

ASSUME OrdersAssumption == IsFiniteSet(Orders)

ASSUME AccountsAssumption ==
    /\ IsFiniteSet(Accounts) /\ OkxAccounts \subseteq Accounts
    /\ SymbolsOf \in [Accounts -> SUBSET Symbols]

(* A request, and what it is worth at the exchange (value), which the      *)
(* request need not say: it may state a worth (told) or a price to take a  *)
(* market order at (estimate), each absent as often as not.  qty is what   *)
(* the exchange counts in: contracts on OKX, coins on Binance.             *)
NoFigure == -1
OrderData == [acct: Accounts, sym: Symbols, side: Sides, value: Nat, qty: Nat,
              type: {"limit", "market"}, price: Nat,
              estimate: Nat \cup {NoFigure}, told: Nat \cup {NoFigure}]

ASSUME TemplatesAssumption ==
    /\ Templates \subseteq OrderData
    /\ \A t \in Templates : t.sym \in SymbolsOf[t.acct]

CONSTANT NoOrder
ASSUME NoOrderAssumption == NoOrder \notin OrderData

VARIABLES
    ord,                \* what was ordered, NoOrder before the request arrives
    exSt,               \* life of the order at the exchange
    left,               \* value not yet filled
    exPos,              \* net position, signed, in units of value
    unseen, sinceFetch

exchangeVars == <<ord, exSt, left, exPos, unseen, sinceFetch>>

ExchangeInit ==
    /\ ord = [o \in Orders |-> NoOrder]
    /\ exSt = [o \in Orders |-> "none"]
    /\ left = [o \in Orders |-> 0]
    /\ exPos = [a \in Accounts |-> [s \in Symbols |-> 0]]
    /\ unseen = [a \in Accounts |-> [s \in Symbols |-> 0]]
    /\ sinceFetch = [a \in Accounts |-> [s \in Symbols |-> 0]]

Held(a, s) == Abs(exPos[a][s])

(* The orders of A arrive and rest. *)
Accept(A) ==
    /\ exSt' = [o \in Orders |-> IF o \in A THEN "open" ELSE exSt[o]]
    /\ left' = [o \in Orders |-> IF o \in A THEN ord[o].value ELSE left[o]]

(* A part v of a resting order, or all that is left of it, fills. *)
Fill(o, v) ==
    /\ exSt[o] = "open"
    /\ v \in 1 .. left[o]
    /\ left' = [left EXCEPT ![o] = @ - v]
    /\ exSt' = [exSt EXCEPT ![o] = IF v = left[o] THEN "filled" ELSE "open"]
    /\ LET a == ord[o].acct
           s == ord[o].sym
       IN  /\ exPos' = [exPos EXCEPT ![a][s] = @ + Signed(ord[o].side, v)]
           /\ unseen' = [unseen EXCEPT ![a][s] = @ + v]
           /\ sinceFetch' = [sinceFetch EXCEPT ![a][s] = @ + v]
    /\ UNCHANGED ord

PartlyFilled(o) == exSt[o] = "open" /\ left[o] < ord[o].value

=============================================================================
