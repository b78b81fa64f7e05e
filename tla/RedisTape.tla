------------------------------ MODULE RedisTape ------------------------------
(***************************************************************************)
(* The server's own recorder (redis_recorder.cpp): the callbacks of the    *)
(* sockets hand it what they have published, on the threads of these       *)
(* sockets, and it writes it to Redis under a mutex.  The mutex is not     *)
(* recursive, and reconnect() takes it again: the thread that finds the    *)
(* connection lost never comes back, nor does anyone who needs the mutex   *)
(* after it.  Messages are numbered by their time, for each hand.          *)
(***************************************************************************)
EXTENDS Naturals, Sequences, FiniteSets, SequencesExt

CONSTANTS
    Room,               \* max_trades_per_symbol, max_count, the 100 of the rates
    MaxHanded           \* bound of the model: messages of each hand

ASSUME RedisTapeAssumption == Room \in Nat \ {0} /\ MaxHanded \in Nat

(* What comes on which thread.  Two Binance sockets can bring the same     *)
(* candle; with its time of arrival in it, it is two members of one score. *)
Hands ==
    {<<"public", "book">>, <<"market", "trade">>, <<"market", "rate">>,
     <<"market", "candle">>, <<"batch", "candle">>}
Threads == {h[1] : h \in Hands}
Nothing == <<"nothing", 0>>

VARIABLES
    mainAt,             \* main: "starts", "runs", "joined", "stopped", "exited"
    recording,          \* running_
    redis,              \* context_: "none", "up", "broken" unnoticed, "lost"
    calls,              \* what each thread is handing over, past the first test
    stuck,              \* who waits for ever
    tape,               \* Redis: trades:, kline:, funding_rate:, orderbook:
    handed,             \* history: messages of each hand
    refused             \* history: messages that Redis refused, or nobody recorded

tapeVars == <<mainAt, recording, redis, calls, stuck, tape, handed, refused>>

TapeInit ==
    /\ mainAt = "starts" /\ recording = FALSE /\ redis = "none"
    /\ calls = [t \in Threads |-> Nothing] /\ stuck = {}
    /\ tape = [trade |-> <<>>, candle |-> {}, rate |-> {}, book |-> 0]
    /\ handed = [h \in Hands |-> 0] /\ refused = {}

-----------------------------------------------------------------------------
(* start: the server goes on without a recorder that cannot start; one     *)
(* whose password is refused keeps its connection and does not run.        *)
StartRecorder ==
    /\ mainAt = "starts"
    /\ mainAt' = "runs"
    /\ \/ recording' = TRUE /\ redis' = "up"
       \/ recording' = FALSE /\ redis' \in {"none", "up"}
    /\ UNCHANGED <<calls, stuck, tape, handed, refused>>

(* A callback has published a message and tests running_, without a lock. *)
HandsOver(h) ==
    LET t == h[1]
    IN  /\ mainAt \in {"runs", "joined", "stopped"} /\ t \notin stuck
        /\ t = "batch" => mainAt = "runs"
        /\ calls[t] = Nothing /\ handed[h] < MaxHanded
        /\ handed' = [handed EXCEPT ![h] = @ + 1]
        /\ IF recording
             THEN calls' = [calls EXCEPT ![t] = <<h[2], handed[h] + 1>>] /\ UNCHANGED refused
             ELSE refused' = refused \cup {<<h, handed[h] + 1>>} /\ UNCHANGED calls
        /\ UNCHANGED <<mainAt, recording, redis, stuck, tape>>

-----------------------------------------------------------------------------
(* The commands: LPUSH, ZADD or SET, and then LTRIM or ZREMRANGEBYRANK.    *)

Put(t, kind, n) ==
    CASE kind = "trade" -> [tape EXCEPT !.trade = <<n>> \o @]
      [] kind = "candle" -> [tape EXCEPT !.candle = @ \cup {<<n, t>>}]
      [] kind = "rate" -> [tape EXCEPT !.rate = @ \cup {<<n>>}]
      [] kind = "book" -> [tape EXCEPT !.book = n]

Fitting(members) == Min({Cardinality(members), Room})

(* What is left of members, whose score comes first: the Room highest      *)
(* ranks.  The texts decide the order of two members of one score: it is   *)
(* open here.                                                              *)
Highest(members) ==
    {kept \in SUBSET members :
        /\ Cardinality(kept) = Fitting(members)
        /\ \A x \in kept, y \in members \ kept : y[1] =< x[1]}

(* Mutant: LTRIM 0 max, one trade too many. *)
TrimLate(db) ==
    {[db EXCEPT !.trade = IF Len(@) > Room + 1 THEN SubSeq(@, 1, Room + 1) ELSE @,
                !.candle = candles, !.rate = rates] :
        candles \in Highest(db.candle), rates \in Highest(db.rate)}

Cut(db, candles, rates) ==
    [db EXCEPT !.trade = IF Len(@) > Room THEN SubSeq(@, 1, Room) ELSE @,
               !.candle = candles, !.rate = rates]

Trims(db) ==
    {Cut(db, candles, rates) : candles \in Highest(db.candle), rates \in Highest(db.rate)}

Returns(t) == calls' = [calls EXCEPT ![t] = Nothing]
StaysAs(vars) == UNCHANGED <<vars, mainAt, recording, handed>>

Records(t, kind) ==
    LET n == calls[t][2]
    IN  /\ calls[t][1] = kind /\ stuck = {}
        /\ \/ /\ redis = "up"
              /\ tape' \in Trims(Put(t, kind, n))
              /\ Returns(t) /\ StaysAs(<<redis, stuck, refused>>)
           \/ /\ redis = "up"
              /\ refused' = refused \cup {<<<<t, kind>>, n>>}
              /\ Returns(t) /\ StaysAs(<<redis, stuck, tape>>)
           \/ /\ redis = "broken"
              /\ tape' \in {tape, Put(t, kind, n)} \cup Trims(Put(t, kind, n))
              /\ redis' = "lost"
              /\ Returns(t) /\ StaysAs(<<stuck, refused>>)
           \/ /\ redis \in {"lost", "none"}
              /\ stuck' = {t}
              /\ StaysAs(<<redis, calls, tape, refused>>)

RecordTrade == Records("market", "trade")
RecordKline == \E t \in {"market", "batch"} : Records(t, "candle")
RecordOrderbook == Records("public", "book")
RecordFundingRate == Records("market", "rate")

(* The mutex is held by a thread that never comes back. *)
WaitsForMutex(t) ==
    /\ calls[t] # Nothing /\ stuck # {} /\ t \notin stuck
    /\ stuck' = stuck \cup {t}
    /\ StaysAs(<<redis, calls, tape, refused>>)

RedisBreaks ==
    /\ redis = "up" /\ recording
    /\ redis' = "broken"
    /\ UNCHANGED <<mainAt, recording, calls, stuck, tape, handed, refused>>

-----------------------------------------------------------------------------
(* The end of main: the batch sockets are closed, and their threads joined,*)
(* before the recorder stops; the market and the public socket are closed  *)
(* when the process exits.                                                 *)
JoinsBatches ==
    /\ mainAt = "runs" /\ calls["batch"] = Nothing
    /\ mainAt' = "joined"
    /\ UNCHANGED <<recording, redis, calls, stuck, tape, handed, refused>>

StopRecorder ==
    /\ mainAt = "joined" /\ "main" \notin stuck
    /\ recording' = FALSE
    /\ IF recording /\ stuck # {}
         THEN stuck' = stuck \cup {"main"} /\ UNCHANGED <<mainAt, redis>>
         ELSE /\ mainAt' = "stopped"
              /\ redis' = IF recording THEN "none" ELSE redis
              /\ UNCHANGED stuck
    /\ UNCHANGED <<calls, tape, handed, refused>>

ServerExits ==
    /\ mainAt = "stopped" /\ \A t \in Threads : calls[t] = Nothing
    /\ mainAt' = "exited"
    /\ UNCHANGED <<recording, redis, calls, stuck, tape, handed, refused>>

TapeNext ==
    \/ StartRecorder
    \/ \E h \in Hands : HandsOver(h)
    \/ RecordTrade \/ RecordKline \/ RecordOrderbook \/ RecordFundingRate
    \/ \E t \in Threads : WaitsForMutex(t)
    \/ RedisBreaks \/ JoinsBatches \/ StopRecorder \/ ServerExits

TapeSpec == TapeInit /\ [][TapeNext]_tapeVars

-----------------------------------------------------------------------------
Recorded(h) ==
    {n \in 1 .. handed[h] : <<h, n>> \notin refused /\ calls[h[1]] # <<h[2], n>>}

Ends(kept, all) == kept \subseteq all /\ \A x \in kept, y \in all \ kept : y < x

(* As long as Redis is there nobody waits, and what was handed over is on  *)
(* the tape: the last Room trades in their order, the newest rates, no     *)
(* candle older than one that was let go, and the last book.  Whatever     *)
(* happens the tape ends in what was handed over and has no holes but      *)
(* where Redis refused.  A thread stays away for ever only after the       *)
(* connection was lost or the recorder was stopped under it.               *)
TapeKept ==
    LET trades == Recorded(<<"market", "trade">>)
        rates == Recorded(<<"market", "rate">>)
        candles == UNION {{<<n, t>> : n \in Recorded(<<t, "candle">>)} : t \in {"market", "batch"}}
    IN  /\ redis = "up" /\ recording =>
              /\ stuck = {}
              /\ Ends(ToSet(tape.trade), trades) /\ Len(tape.trade) = Fitting(trades)
              /\ Ends({x[1] : x \in tape.rate}, rates) /\ Cardinality(tape.rate) = Fitting(rates)
              /\ tape.candle \subseteq candles /\ Cardinality(tape.candle) = Fitting(candles)
              /\ \A x \in candles \ tape.candle : \A y \in tape.candle : x[1] =< y[1]
              /\ \A n \in Recorded(<<"public", "book">>) : n =< tape.book
        /\ \A i \in 2 .. Len(tape.trade) :
              /\ tape.trade[i] < tape.trade[i - 1]
              /\ \A n \in tape.trade[i] + 1 .. tape.trade[i - 1] - 1 : <<<<"market", "trade">>, n>> \in refused
        /\ stuck # {} => redis \in {"lost", "none"}

=============================================================================
