----------------------------- MODULE KlineStore -----------------------------
(***************************************************************************)
(* The recorder of candles: it writes the one-minute candles it hears to a *)
(* Redis sorted set and gathers them into the bars of a longer interval.   *)
(* Its writes are pipelined: they wait in the client's buffer until it is  *)
(* flushed, after each burst of messages or before a query.  A sorted set  *)
(* tells members apart by their text, so one minute can have two: the      *)
(* recorder's carries a time stamp the gap filler's does not.              *)
(*                                                                         *)
(* The contents of candles are left out: a bar is the number of times it   *)
(* has taken in each minute.                                               *)
(***************************************************************************)
EXTENDS Integers, Sequences, FiniteSets, SequencesExt

CONSTANTS
    PerBar,             \* minutes of one bar
    MaxMinute           \* bound: the last minute

ASSUME KlineStoreAssumption == PerBar \in Nat \ {0} /\ MaxMinute \in Nat /\ MaxMinute > PerBar

VARIABLES
    now,                \* the minute whose candle is open
    heard,              \* the last candle published to the recorder, 0 none
    again,              \* it has been published twice, by two sockets
    series,             \* Redis: kline:<exchange>:<symbol>:1m
    bars,               \* Redis: kline:<exchange>:<symbol>:<interval>
    interval,           \* what interval that is, see Intervals
    state,              \* AggregationState: start, sum, count, last
    pending,            \* writes in the client's buffer
    link,               \* Redis connection: up, broken unnoticed, or down
    failures

recorderVars == <<heard, again, interval, state, pending, link>>
storeVars == <<series, bars>>
klineVars == <<now, recorderVars, storeVars, failures>>

(* Of the recorder's seven intervals: 5m, 15m, 30m; 1h; 4h, 8h; and 1d.    *)
Intervals == {"short", "hour", "long", "day"}

Minutes == PerBar .. MaxMinute
Period(m) == (m \div PerBar) * PerBar
MinutesOf(p) == p .. p + PerBar - 1
Periods == {Period(m) : m \in Minutes}

Members == [minute : Minutes, by : {"recorder", "filler"}]

(* What a set of members adds up to. *)
Sum(members) == [m \in Minutes |-> Cardinality({x \in members : x.minute = m})]
Once(minutes) == [m \in Minutes |-> IF m \in minutes THEN 1 ELSE 0]
Whole(bar) == bar.sum = Once(MinutesOf(bar.start))

NoState == [start |-> 0, sum |-> Once({}), count |-> 0, last |-> 0]

StoreInit ==
    /\ now = PerBar /\ heard = 0 /\ again = FALSE
    /\ series = {} /\ bars = {}
    /\ interval \in Intervals
    /\ state = NoState /\ pending = <<>> /\ link = "up" /\ failures = 0

-----------------------------------------------------------------------------
(* The pipeline.  A write is two commands: remove the score, add a member. *)

WriteMinute(m) == [key |-> "series", item |-> [minute |-> m, by |-> "recorder"]]
WriteBar(bar) == [key |-> "bars", item |-> bar]

Removed(db, w) ==
    IF w.key = "series"
    THEN [db EXCEPT !.series = {x \in @ : x.minute # w.item.minute}]
    ELSE [db EXCEPT !.bars = {x \in @ : x.start # w.item.start}]

Written(db, w) ==
    LET r == Removed(db, w)
    IN  IF w.key = "series" THEN [r EXCEPT !.series = @ \cup {w.item}]
                            ELSE [r EXCEPT !.bars = @ \cup {w.item}]

Applied(writes) == FoldLeft(Written, [series |-> series, bars |-> bars], writes)

(* Of writes on a broken connection any number of commands arrive. *)
Torn(writes) ==
    UNION {{Applied(SubSeq(writes, 1, k))} \cup
           (IF k < Len(writes) THEN {Removed(Applied(SubSeq(writes, 1, k)), writes[k + 1])} ELSE {})
             : k \in 0 .. Len(writes)}

(* flush_batch: an error drops the rest and is left to the main loop. *)
Flushed(writes) ==
    /\ pending' = <<>>
    /\ IF link = "broken"
       THEN /\ link' = "down"
            /\ \E db \in Torn(writes) : series' = db.series /\ bars' = db.bars
       ELSE /\ UNCHANGED link
            /\ series' = Applied(writes).series /\ bars' = Applied(writes).bars

Flush ==
    /\ pending # <<>>
    /\ Flushed(pending)
    /\ UNCHANGED <<now, heard, again, interval, state, failures>>

-----------------------------------------------------------------------------
(* The aggregator hears minute m; known is what Redis can answer with, and *)
(* Between what it answers when asked for the minutes a to b.              *)

Between(known, a, b) == {x \in known : x.minute \in a .. b}

Begun(m, hist) ==
    [start |-> Period(m), sum |-> Sum(hist \cup {[minute |-> m, by |-> "heard"]}),
     count |-> 1 + Cardinality(hist), last |-> m]

Grown(m) ==
    [state EXCEPT !.sum[m] = @ + 1, !.count = @ + 1, !.last = m]

Rebuilt(start, hist) ==
    IF Cardinality(hist) >= PerBar THEN {[start |-> start, sum |-> Sum(hist)]} ELSE {}

(* Mutant: a repeated candle is not noticed. *)
RepeatsNever(m) == FALSE

(* The repeated candle corrects high, low and close, and counts no more. *)
Repeats(m) == state.last = m

NewPeriod(m) == state.start \notin {0, Period(m)}
ColdStart(m) == state.start = 0 /\ interval # "short" /\ m > Period(m)
LastOfPeriod(m) == m + 1 >= Period(m) + PerBar

(* The first candle of another period: complete the last one from Redis    *)
(* if it is all there, up to the new one, or drop it.                      *)
AfterTurn(m, known) ==
    [state |-> Begun(m, {}), out |-> Rebuilt(state.start, Between(known, state.start, Period(m) - 1))]

Within(m, known) ==
    LET s == IF state.start = 0
             THEN Begun(m, IF ColdStart(m) THEN Between(known, Period(m), m - 1) ELSE {})
             ELSE Grown(m)
        done == IF s.count >= PerBar THEN {[start |-> s.start, sum |-> s.sum]}
                ELSE IF LastOfPeriod(m)
                     THEN Rebuilt(Period(m), Between(known, Period(m), Period(m) + PerBar - 1))
                     ELSE {}
    IN  [state |-> IF done = {} THEN s ELSE [NoState EXCEPT !.last = m],
         out |-> done]

Aggregate(m, known) ==
    IF Repeats(m) THEN [state |-> state, out |-> {}]
    ELSE IF NewPeriod(m) THEN AfterTurn(m, known)
    ELSE Within(m, known)

(* The aggregator asks Redis, which flushes the pipeline first. *)
Asks(m) ==
    /\ ~Repeats(m)
    /\ \/ NewPeriod(m) \/ ColdStart(m)
       \/ /\ LastOfPeriod(m)
          /\ Within(m, {}).out = {}

(* process_market_data: the minute is queued, then aggregated. *)
Receives(m) ==
    LET queued == IF link = "down" THEN <<>> ELSE Append(pending, WriteMinute(m))
        done == Aggregate(m, IF link = "up" THEN Applied(queued).series ELSE {})
        outs == SetToSeq({WriteBar(b) : b \in done.out})
    IN  /\ m < now
        /\ m > heard \/ (m = heard /\ ~again)
        /\ heard' = m /\ again' = (m = heard)
        /\ state' = done.state
        /\ IF Asks(m) /\ link # "down"
           THEN /\ link' = IF link = "broken" THEN "down" ELSE link
                /\ pending' = IF link = "broken" THEN <<>> ELSE outs
                /\ \E db \in (IF link = "broken" THEN Torn(queued) ELSE {Applied(queued)}) :
                       series' = db.series /\ bars' = db.bars
           ELSE /\ pending' = queued \o (IF link = "down" THEN <<>> ELSE outs)
                /\ UNCHANGED <<series, bars, link>>
        /\ UNCHANGED <<now, interval, failures>>

Reconnects ==
    /\ link = "down"
    /\ link' = "up" /\ pending' = <<>>
    /\ UNCHANGED <<now, heard, again, interval, state, storeVars, failures>>

(* A crash loses the aggregator and the buffer; the operator restarts it. *)
Restarts ==
    /\ state' = NoState /\ pending' = <<>> /\ link' = "up" /\ failures' = failures + 1
    /\ UNCHANGED <<now, heard, again, interval, storeVars>>

Breaks ==
    /\ link = "up"
    /\ link' = "broken" /\ failures' = failures + 1
    /\ UNCHANGED <<now, heard, again, interval, state, pending, storeVars>>

MinutePasses ==
    /\ now =< MaxMinute
    /\ now' = now + 1
    /\ UNCHANGED <<recorderVars, storeVars, failures>>

Recorder ==
    \/ \E m \in Minutes : Receives(m)
    \/ Flush \/ Reconnects \/ Restarts \/ Breaks

=============================================================================
