------------------------------- MODULE History -------------------------------
(***************************************************************************)
(* What a strategy is answered when it asks for past candles               *)
(* (redis_data_provider.cpp), of the store that recorder and tools write   *)
(* to at the same time: the bars of its interval if there is one in its    *)
(* range, bars made of the stored minutes otherwise.  A query whose        *)
(* connection was lost has no answer: it returns nothing, or does not      *)
(* return, as the writer in RedisTape.                                     *)
(***************************************************************************)
EXTENDS GapFiller

(* query_raw_klines on either key: both ends are included. *)
RawMinutes(a, b) == {x \in series : x.minute \in a .. b}
RawBars(a, b) == {bar \in bars : bar.start \in a .. b}

(* Mutant: the period that still runs is answered too. *)
GroupsToNow(members) == {Period(x.minute) : x \in members}

(* do_aggregate: the periods of which a minute is there, but for the one   *)
(* that still runs.                                                        *)
Groups(members) == {Period(x.minute) : x \in members} \ {p \in Periods : p >= Period(now)}

(* aggregate_klines: from the start of the period of the first minute. *)
Aggregated(a, b) ==
    LET source == RawMinutes(Period(a), b)
    IN  {[start |-> p, sum |-> Sum({x \in source : Period(x.minute) = p})] : p \in Groups(source)}

GetKlines(a, b) == IF RawBars(a, b) # {} THEN RawBars(a, b) ELSE Aggregated(a, b)

(* get_klines_by_days: up to this moment, in the minute that is open. *)
GetKlinesBack(minutes) == GetKlines(now - minutes, now)

(* ZREVRANGE 0 n-1: get_latest_klines, batch_get_latest_klines.  Which of  *)
(* two members of one score comes first is open.                           *)
LatestBars(n) ==
    {got \in SUBSET bars :
        /\ Cardinality(got) = IF Cardinality(bars) < n THEN Cardinality(bars) ELSE n
        /\ \A x \in got, y \in bars \ got : y.start =< x.start}

(* get_data_time_range, batch_get_latest_kline_timestamps. *)
LatestStamps == {x.minute : x \in {y \in series : \A z \in series : z.minute =< y.minute}}

(* lua_batch_get_latest_timestamps: a script on the server, which is sent  *)
(* again if Redis has forgotten it, answers -1 for an empty series; what   *)
(* is not positive is left out.                                            *)
LuaStamps ==
    LET answer == IF series = {} THEN {-1} ELSE LatestStamps
    IN  {m \in answer : m > 0}

-----------------------------------------------------------------------------
(* A bar that was stored is whole; one made for the answer has each minute *)
(* that is stored, up to the end of the range, once.                       *)
TellsStored(bar, b) ==
    \/ bar.sum = Once(MinutesOf(bar.start))
    \/ bar.sum = Once({m \in MinutesOf(bar.start) \cap Stored : m =< b})

(* A bar that took in a minute twice, as a recorder that starts within a   *)
(* period counts the members it finds, two of which a tool may have made   *)
(* of one minute: the count is full before the period is over.             *)
Doubles(bar) == \E m \in Minutes : bar.sum[m] > 1
ClosedOrDoubled(bar) == bar.start + PerBar =< now \/ Doubles(bar)

(* Whatever the recorder, the tools, their crashes and lost connections    *)
(* left in the store, a strategy that asks for the bars from a to b is     *)
(* answered with bars of closed periods of its range, but for a bar that   *)
(* has a minute twice; as long as no tool has run, each bar counts a       *)
(* minute once and is cut only by the end of the range or by minutes that  *)
(* are missing; the latest stamp is of a closed minute.  Bars of periods   *)
(* with minutes stored are missing only beside a bar that the recorder or  *)
(* a tool made.                                                            *)
AnswersTrue(a, b) ==
    LET got == GetKlines(a, b)
    IN  /\ \A bar \in got : bar.start \in Period(a) .. b /\ ClosedOrDoubled(bar)
        /\ ~ran => \A bar \in got : TellsStored(bar, b)
        /\ \/ RawBars(a, b) # {}
           \/ \A m \in Stored \cap a .. b :
                 Period(m) + PerBar =< now => \E bar \in got : bar.start = Period(m)

HistoryTrue ==
    /\ \A a \in PerBar .. now : \A b \in a .. now : AnswersTrue(a, b)
    /\ \A n \in 1 .. now - PerBar : AnswersTrue(now - n, now)
    /\ \A got \in LatestBars(1) : \A bar \in got : ClosedOrDoubled(bar)
    /\ \A m \in LatestStamps \cup LuaStamps : m < now

=============================================================================
