----------------------------- MODULE RiskManager -----------------------------
(***************************************************************************)
(* The state of trading::RiskManager (src/cpp/trading/risk_manager.h) that *)
(* the pre-trade check reads, and the operations on it.  Every operation   *)
(* holds RiskManager::mutex_ for its whole body, so each is one step.      *)
(*                                                                         *)
(* Money and quantities are small naturals.  Left out: alert delivery, the *)
(* drawdown alarm and the rate window (both in RiskMemory; here only the   *)
(* window's verdict, a parameter of CheckOrder), and kill_switch_, which   *)
(* no code under src/ ever sets.                                           *)
(***************************************************************************)
EXTENDS Integers, FiniteSets, FiniteSetsExt

CONSTANTS
    Symbols,            \* instruments, named as their exchange names them
    MaxOrderValue,      \* RiskLimits::max_order_value
    MaxOrderQuantity,   \* RiskLimits::max_order_quantity
    MaxOpenOrders,      \* RiskLimits::max_open_orders
    MaxPositionValue,   \* RiskLimits::max_position_value
    MaxTotalExposure,   \* RiskLimits::max_total_exposure
    DailyLossLimit      \* RiskLimits::daily_loss_limit

ASSUME LimitsAssumption ==
    /\ {MaxOrderValue, MaxOrderQuantity, MaxOpenOrders} \subseteq Nat
    /\ {MaxPositionValue, MaxTotalExposure, DailyLossLimit} \subseteq Nat

ASSUME SymbolsAssumption == IsFiniteSet(Symbols)

VARIABLES
    positionValues,     \* position_values_; 0 where the map has no entry
    openOrderCount,     \* open_order_count_
    dailyPnl            \* daily_pnl_

riskVars == <<positionValues, openOrderCount, dailyPnl>>

Sides == {"buy", "sell"}

Abs(n) == IF n < 0 THEN -n ELSE n

Signed(side, value) == IF side = "buy" THEN value ELSE -value

RiskInit ==
    /\ positionValues = [s \in Symbols |-> 0]
    /\ openOrderCount = 0
    /\ dailyPnl = 0

(* calculate_total_exposure *)
TotalExposure == SumFunction([s \in Symbols |-> Abs(positionValues[s])])

(* Mutant: the total exposure is not checked. *)
CheckOrderNoTotal(ord, value, rateOk) ==
    /\ value =< MaxOrderValue
    /\ ord.qty =< MaxOrderQuantity
    /\ openOrderCount < MaxOpenOrders
    /\ Abs(positionValues[ord.sym] + Signed(ord.side, value)) =< MaxPositionValue
    /\ dailyPnl >= -DailyLossLimit
    /\ rateOk

(* Mutant: the position is checked before the order instead of with it. *)
CheckOrderBefore(ord, value, rateOk) ==
    /\ value =< MaxOrderValue
    /\ ord.qty =< MaxOrderQuantity
    /\ openOrderCount < MaxOpenOrders
    /\ positionValues[ord.sym] =< MaxPositionValue
    /\ TotalExposure + value =< MaxTotalExposure
    /\ dailyPnl >= -DailyLossLimit
    /\ rateOk

(* check_order_with_value: the order passes when no check rejects it, each *)
(* on the value the caller has worked out for it.                          *)
CheckOrder(ord, value, rateOk) ==
    /\ value =< MaxOrderValue
    /\ ord.qty =< MaxOrderQuantity
    /\ openOrderCount < MaxOpenOrders
    /\ Abs(positionValues[ord.sym] + Signed(ord.side, value)) =< MaxPositionValue
    /\ TotalExposure + value =< MaxTotalExposure
    /\ dailyPnl >= -DailyLossLimit
    /\ rateOk

(* Mutant: a poll adds to the table instead of replacing the entry. *)
UpdatePositionAdds(s, value) ==
    positionValues' = [positionValues EXCEPT ![s] = @ + value]

UpdatePosition(s, value) ==
    positionValues' = [positionValues EXCEPT ![s] = value]

SetOpenOrderCount(n) == openOrderCount' = n

UpdateDailyPnl(pnl) == dailyPnl' = pnl

=============================================================================
