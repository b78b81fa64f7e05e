------------------------------ MODULE MCOrderPath ------------------------------
(* Instances of OrderPath for TLC. *)
EXTENDS OrderPath, TLC

CONSTANTS okx1, okx2, bn1, x1, b1

(* Market orders that state what they are worth, or a price to estimate it. *)
Okx(a, side, value) ==
    [acct |-> a, sym |-> x1, side |-> side, value |-> value, qty |-> 1,
     type |-> "market", price |-> 0, estimate |-> 1, told |-> value]
Bin(side, value) ==
    [acct |-> bn1, sym |-> b1, side |-> side, value |-> value, qty |-> 1,
     type |-> "market", price |-> 0, estimate |-> value, told |-> NoFigure]

(* A market order that states nothing, and a limit order in contracts of   *)
(* two each.                                                               *)
Unstated(side, value) == [Bin(side, value) EXCEPT !.estimate = NoFigure]
Contracts(side, value) ==
    [Okx(okx1, side, value) EXCEPT !.type = "limit", !.price = 1, !.told = NoFigure, !.qty = value \div 2]

(* one account on each exchange *)
BothAccounts == {okx1, bn1}
BothSymbols == okx1 :> {x1} @@ bn1 :> {b1}

BuyTemplates == {Okx(okx1, "buy", 2), Bin("buy", 2)}
(* shorts and longs, and orders that meet one cap but not the other *)
ViewTemplates ==
    {Okx(okx1, "sell", 2), Contracts("buy", 2), Bin("buy", 2), Bin("buy", 1), Unstated("buy", 2)}

(* one account: on OKX, or on Binance *)
OneOkx == {okx1}
OkxSymbol == okx1 :> {x1}
ShortTemplates == {Okx(okx1, "sell", 2)}
OneBinance == {bn1}
BinanceSymbol == bn1 :> {b1}
BinanceTemplates == {Bin("buy", 2), Bin("sell", 1)}

(* two OKX accounts in the same instrument *)
TwoOkx == {okx1, okx2}
SharedSymbol == okx1 :> {x1} @@ okx2 :> {x1}
SharedTemplates == {Okx(okx1, "buy", 1), Okx(okx2, "buy", 1)}

Pnls == {-3, 0}
Amends == {3}
NoAmends == {}

OrderSymmetry == Permutations(Orders)

=============================================================================
