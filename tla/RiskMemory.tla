------------------------------ MODULE RiskMemory ------------------------------
(***************************************************************************)
(* What the risk manager remembers from order to order and from poll to    *)
(* poll (risk_manager.h): the times of the orders that passed, against     *)
(* which the order thread checks the next one, and of each account the     *)
(* equity it began the day with and its highest since, against which the   *)
(* monitor checks a new balance.  Batches and amends are neither checked   *)
(* nor counted here.  A tick is a part of a second; ages are cut to whole  *)
(* seconds, as duration_cast does.                                         *)
(***************************************************************************)
EXTENDS Integers, Sequences, FiniteSets, SequencesExt

CONSTANTS
    Second,             \* ticks of a second
    Minute,             \* the 60 of check_rate_limit
    PerSecond,          \* RiskLimits::max_orders_per_second
    PerMinute,          \* RiskLimits::max_orders_per_minute
    MaxDrawdown,        \* RiskLimits::max_drawdown_pct, in percent
    Equities,           \* equities a poll may find
    MaxClock, MaxDays, MaxPolls \* bounds: ticks, days, polls of a day

ASSUME RiskMemoryAssumption ==
    /\ Second \in Nat \ {0} /\ Minute \in Nat \ {0}
    /\ PerSecond \in Nat /\ PerMinute \in Nat /\ MaxDrawdown \in 0 .. 100
    /\ Equities \subseteq Int
    /\ MaxClock \in Nat /\ MaxDays \in Nat /\ MaxPolls \in Nat

VARIABLES
    clock,              \* steady_clock
    stamps,             \* order_timestamps_
    checked,            \* the order in service has passed and is not recorded
    sent,               \* history: when orders were recorded
    turnedDown,         \* history: when orders were refused for their rate
    mode,               \* drawdown_mode
    day,                \* the local date
    peak,               \* strategy_peak_pnl_
    initial,            \* strategy_initial_equity_
    resetDate,          \* strategy_last_reset_date_, 0 when there is none
    alarmed,            \* the last poll raised the alarm
    heard               \* history: the equities of this day

rateVars == <<clock, stamps, checked, sent, turnedDown>>
equityVars == <<mode, day, peak, initial, resetDate, alarmed, heard>>
memoryVars == <<rateVars, equityVars>>

MemoryInit ==
    /\ clock = 0 /\ stamps = <<>> /\ checked = FALSE /\ sent = <<>> /\ turnedDown = {}
    /\ mode \in {"daily_peak", "daily_initial"}
    /\ day = 1 /\ peak = 0 /\ initial = 0 /\ resetDate = 0 /\ alarmed = FALSE /\ heard = <<>>

-----------------------------------------------------------------------------
Age(stamp) == (clock - stamp) \div Second
LastSecond(times) == Cardinality({i \in DOMAIN times : Age(times[i]) < 1})

(* Mutant: one order too many is let into a second. *)
WithinLate(times) == LastSecond(times) =< PerSecond /\ Len(times) < PerMinute
Within(times) == LastSecond(times) < PerSecond /\ Len(times) < PerMinute

(* The first stamps, over a minute old, are popped. *)
Pruned(k) ==
    /\ \A i \in 1 .. k : Age(stamps[i]) > Minute
    /\ k < Len(stamps) => Age(stamps[k + 1]) =< Minute
    /\ stamps' = SubSeq(stamps, k + 1, Len(stamps))

(* check_rate_limit: the last of the checks, which prunes first. *)
CheckRateLimit ==
    /\ ~ checked
    /\ \E k \in 0 .. Len(stamps) : Pruned(k)
    /\ checked' = Within(stamps')
    /\ turnedDown' = IF checked' THEN turnedDown ELSE turnedDown \cup {clock}
    /\ UNCHANGED <<clock, sent, equityVars>>

(* record_order_execution, in a critical section of its own. *)
RecordOrderExecution ==
    /\ checked
    /\ stamps' = Append(stamps, clock) /\ sent' = Append(sent, clock)
    /\ checked' = FALSE
    /\ UNCHANGED <<clock, turnedDown, equityVars>>

(* get_current_order_rate counts from the newest back to the first that is *)
(* a second old.                                                           *)
CurrentOrderRate ==
    LET old == {i \in DOMAIN stamps : Age(stamps[i]) >= 1}
    IN  IF old = {} THEN Len(stamps) ELSE Len(stamps) - (CHOOSE i \in old : \A j \in old : j =< i)

TimePasses ==
    /\ clock < MaxClock
    /\ clock' = clock + 1
    /\ UNCHANGED <<stamps, checked, sent, turnedDown, equityVars>>

-----------------------------------------------------------------------------
(* (base - equity) / base > max_drawdown_pct, multiplied out: by a base    *)
(* below zero the sign turns.  In the initial mode only what began above   *)
(* zero is looked at.                                                      *)
FallsFrom(base, equity) ==
    IF base > 0 THEN (base - equity) * 100 > MaxDrawdown * base
                ELSE (base - equity) * 100 < MaxDrawdown * base

(* Mutant: the peak of the day before is kept. *)
StartsLower(equity) ==
    /\ peak' = IF equity > peak THEN equity ELSE peak
    /\ initial' = equity /\ resetDate' = day /\ alarmed' = FALSE

StartsDay(equity) ==
    peak' = equity /\ initial' = equity /\ resetDate' = day /\ alarmed' = FALSE

(* update_account_equity: a new day, or a peak of zero, begins anew. *)
UpdateAccountEquity(equity) ==
    /\ Len(heard) < MaxPolls
    /\ heard' = Append(heard, equity)
    /\ \/ /\ resetDate # day \/ peak = 0
          /\ StartsDay(equity)
       \/ /\ resetDate = day /\ peak # 0
          /\ alarmed' = IF mode = "daily_initial" THEN initial > 0 /\ FallsFrom(initial, equity)
                                                  ELSE FallsFrom(peak, equity)
          /\ peak' = IF equity > peak THEN equity ELSE peak
          /\ UNCHANGED <<initial, resetDate>>
    /\ UNCHANGED <<rateVars, mode, day>>

Midnight ==
    /\ day < MaxDays
    /\ day' = day + 1 /\ heard' = <<>> /\ alarmed' = FALSE
    /\ UNCHANGED <<rateVars, mode, peak, initial, resetDate>>

RateNext == CheckRateLimit \/ RecordOrderExecution \/ TimePasses
EquityNext == (\E equity \in Equities : UpdateAccountEquity(equity)) \/ Midnight

MemorySpec == MemoryInit /\ [][RateNext \/ EquityNext]_memoryVars

-----------------------------------------------------------------------------
Count(last, ticks) == Cardinality({i \in DOMAIN sent : sent[i] > last - ticks /\ sent[i] =< last})

(* Though an order is checked in one critical section and counted in       *)
(* another, no second has more orders than its limit, nor have sixty-one:  *)
(* cutting ages makes the minute that long.  An order is refused only when *)
(* one of the two is full, and the rate that is told is the true one.      *)
RateKept ==
    /\ \A i \in DOMAIN sent :
          Count(sent[i], Second) =< PerSecond /\ Count(sent[i], (Minute + 1) * Second) =< PerMinute
    /\ \A t \in turnedDown :
          Count(t, Second) >= PerSecond \/ Count(t, (Minute + 1) * Second) >= PerMinute
    /\ CurrentOrderRate = Count(clock, Second)

(* As long as an account has something, each poll that finds it further    *)
(* below the day's first or highest equity than the limit is told, and no  *)
(* other: what was remembered of days before, and what was zero or owed in *)
(* them, plays no part.  As long as it owes, a loss is never told; a gain  *)
(* may be, as if it were one.                                              *)
DrawdownTold ==
    LET first == Head(heard)
        highest == CHOOSE e \in ToSet(heard) : \A x \in ToSet(heard) : x =< e
        base == IF mode = "daily_initial" THEN first ELSE highest
    IN  heard # <<>> =>
          /\ (\A e \in ToSet(heard) : e > 0) =>
                (alarmed <=> (base - Last(heard)) * 100 > MaxDrawdown * base)
          /\ (\A e \in ToSet(heard) : e < 0) /\ alarmed =>
                mode = "daily_peak" /\ \A i \in 1 .. Len(heard) - 1 : heard[i] < Last(heard)

(* What the limits remember is what has happened. *)
RiskMemoryTrue == RateKept /\ DrawdownTold

=============================================================================
