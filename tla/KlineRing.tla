------------------------------- MODULE KlineRing -------------------------------
(***************************************************************************)
(* The klines of one instrument from the exchange to a strategy: closed    *)
(* candles come over one or, after a muddled reconnect, two connections,   *)
(* each in order from the candle that closes after it opened; the server   *)
(* publishes them, the strategy's socket may drop them, and KlineBuffer    *)
(* (market_data_module.h), a ring of fixed size, keeps the last ones.      *)
(***************************************************************************)
EXTENDS Naturals, Sequences

CONSTANTS
    MaxBars,            \* size of the ring
    MaxTime             \* bound of the model: candles that close

ASSUME RingAssumption == MaxBars \in Nat \ {0} /\ MaxTime \in Nat

Links == {1, 2}
Times == 1 .. MaxTime
Values == {"first", "again"}
Empty == [time |-> 0, value |-> "first"]

VARIABLES
    data,               \* data_
    head, size,         \* head_, size_
    clock,              \* candles closed so far
    reads,              \* per connection the next candle it brings, 0 if closed
    doubled             \* history: two connections were open at a time

ringVars == <<data, head, size>>
feedVars == <<clock, reads, doubled>>

RingInit ==
    /\ data = [i \in 0 .. MaxBars - 1 |-> Empty]
    /\ head = 0 /\ size = 0
    /\ clock = 0 /\ reads = [l \in Links |-> 0] /\ doubled = FALSE

Index(i) == (head + i) % MaxBars
LastIndex == (head + size - 1) % MaxBars

(* get_all, and the column readers get_closes, get_opens, ... *)
Contents == [i \in 1 .. size |-> data[Index(i - 1)]]

(* Mutant: one bar too early. *)
RecentEarly(n) ==
    LET m == IF n < size THEN n ELSE size
    IN  [i \in 1 .. m |-> data[Index(size - m + i)]]

(* get_recent *)
Recent(n) ==
    LET m == IF n < size THEN n ELSE size
    IN  [i \in 1 .. m |-> data[Index(size - m + i - 1)]]

(* Mutant: the slot after the last is taken from the size alone. *)
AddAtSize(b) ==
    IF size < MaxBars
      THEN data' = [data EXCEPT ![size] = b] /\ size' = size + 1 /\ UNCHANGED head
      ELSE data' = [data EXCEPT ![head] = b] /\ head' = 0 /\ UNCHANGED size

(* add, the same in the buffers of trades, depth and funding rates. *)
Add(b) ==
    IF size < MaxBars
      THEN data' = [data EXCEPT ![Index(size)] = b] /\ size' = size + 1 /\ UNCHANGED head
      ELSE data' = [data EXCEPT ![head] = b] /\ head' = (head + 1) % MaxBars /\ UNCHANGED size

(* Mutant: every bar is appended. *)
UpdateAppends(b) == Add(b)

Update(b) ==
    IF size > 0 /\ data[LastIndex].time = b.time
      THEN data' = [data EXCEPT ![LastIndex] = b] /\ UNCHANGED <<head, size>>
      ELSE Add(b)

Clear == head' = 0 /\ size' = 0 /\ UNCHANGED <<data, feedVars>>

CandleCloses == clock < MaxTime /\ clock' = clock + 1 /\ UNCHANGED <<ringVars, reads, doubled>>

LinkOpens(l) ==
    /\ reads[l] = 0
    /\ reads' = [reads EXCEPT ![l] = clock + 1]
    /\ doubled' = (doubled \/ \E k \in Links \ {l} : reads[k] # 0)
    /\ UNCHANGED <<ringVars, clock>>

LinkCloses(l) ==
    /\ reads[l] # 0
    /\ reads' = [reads EXCEPT ![l] = 0]
    /\ UNCHANGED <<ringVars, clock, doubled>>

(* A candle that was closed: confirm = 1 (OKX), x = true (Binance). *)
Delivers(l, lost) ==
    /\ reads[l] # 0 /\ reads[l] =< clock
    /\ reads' = [reads EXCEPT ![l] = @ + 1]
    /\ IF lost THEN UNCHANGED ringVars
       ELSE Update([time |-> reads[l], value |-> IF l = 1 THEN "first" ELSE "again"])
    /\ UNCHANGED <<clock, doubled>>

RingNext ==
    \/ CandleCloses \/ Clear
    \/ \E l \in Links : LinkOpens(l) \/ LinkCloses(l) \/ \E lost \in BOOLEAN : Delivers(l, lost)

RingSpec == RingInit /\ [][RingNext]_<<ringVars, feedVars>>

-----------------------------------------------------------------------------
Bars == INSTANCE LastBars WITH bars <- Contents

(* The ring shows the last bars handed over (LastBars). *)
ShowsLastBars == Bars!Spec

(* get_recent returns the end of what get_all returns. *)
RecentIsEnd == \A n \in 0 .. MaxBars + 1 : Recent(n) = Bars!Last(n)

(* The bars are in the order of time and none comes twice, whatever was    *)
(* dropped or missed, as long as no two connections brought them.          *)
InOrder == \A i \in 1 .. size - 1 : Contents[i].time < Contents[i + 1].time \/ doubled

=============================================================================
