------------------------------ MODULE GapFiller ------------------------------
(***************************************************************************)
(* The tools that complete the recorded candles, beside the recorder and   *)
(* unknown to it: the gap filler, which a script runs again and again, and *)
(* the fast filler, run by hand.  Every command is a step of its own; a    *)
(* ZADD adds a member and removes none.  The gap filler fetches what is    *)
(* missing of the minutes and of the bars of one hour, makes those of 5m   *)
(* to 30m, 4h and 8h of the minutes, and leaves those of one day alone.    *)
(***************************************************************************)
EXTENDS KlineStore

CONSTANTS Chunk         \* minutes of one chunk of the fast filler's scan

ASSUME GapFillerAssumption == Chunk \in Nat \ {0}

VARIABLES
    pc,                 \* the next step of the tool that runs
    copy,               \* what the deduplication has read
    gaps,               \* the runs of missing minutes still to fetch
    seen,               \* the starts of the bars there were
    ran,                \* a tool has run
    scanned             \* bound: the fast filler is run once

fillerVars == <<pc, copy, gaps, seen, ran, scanned>>
allKlineVars == <<klineVars, fillerVars>>

FillerInit == StoreInit /\ pc = "idle" /\ copy = {} /\ gaps = {} /\ seen = {} /\ ran = FALSE /\ scanned = FALSE

Stored == {x.minute : x \in series}
First(minutes) == CHOOSE m \in minutes : \A n \in minutes : m =< n
Final(minutes) == CHOOSE m \in minutes : \A n \in minutes : m >= n

-----------------------------------------------------------------------------
(* detect_gaps: the runs of minutes missing before the first one, between  *)
(* two neighbours, and from the final one to the last closed one.          *)

Leading(minutes) == {PerBar .. First(minutes) - 1}
Inner(minutes) ==
    {p[1] + 1 .. p[2] - 1 : p \in {p \in minutes \X minutes :
                          p[1] < p[2] /\ \A k \in minutes : ~(p[1] < k /\ k < p[2])}}
(* Mutant: the last closed minute is taken for the open one. *)
TrailingShort(minutes, last) == {Final(minutes) + 1 .. last - 1}
Trailing(minutes, last) == {Final(minutes) + 1 .. last}

DetectGaps(minutes, last) ==
    IF minutes = {} THEN {}
    ELSE (Leading(minutes) \cup Inner(minutes) \cup Trailing(minutes, last)) \ {{}}

(* fetch_history pages from the newest minute back on OKX, from the oldest *)
(* on at Binance; an error ends the paging and what was fetched is used.   *)
OkxFetches(gap) == {k .. Final(gap) : k \in gap \cup {Final(gap) + 1}}
BinanceFetches(gap) == {First(gap) .. k : k \in gap \cup {First(gap) - 1}}

-----------------------------------------------------------------------------
Starts ==
    /\ pc = "idle" /\ series # {}
    /\ pc' = "copy" /\ ran' = TRUE
    /\ UNCHANGED <<klineVars, copy, gaps, seen, scanned>>

(* The bars of one hour are deduplicated with the minutes, and fetched     *)
(* after them; the others are made when all is fetched.                    *)
AfterMinutes == IF interval = "hour" THEN "copybars" ELSE "detect"
AfterBars == IF interval = "hour" THEN "detect" ELSE "look"
AfterFill ==
    IF interval = "hour" THEN "detectbars" ELSE IF interval = "day" THEN "idle" ELSE "copybars"

Doubled(members) == \E x, y \in members : x # y /\ x.minute = y.minute
DoubledBars(members) == \E x, y \in members : x # y /\ x.start = y.start

(* deduplicate_klines of the minutes: read, delete the key, write one      *)
(* member of each minute back; of two texts the filler's sorts last.       *)
Copies ==
    /\ pc = "copy"
    /\ copy' = series
    /\ pc' = IF Doubled(series) THEN "delete" ELSE AfterMinutes
    /\ UNCHANGED <<klineVars, gaps, seen, ran, scanned>>

Deletes ==
    /\ pc = "delete"
    /\ series' = {} /\ pc' = "restore"
    /\ UNCHANGED <<now, recorderVars, bars, failures, copy, gaps, seen, ran, scanned>>

Kept == {x \in copy : x.by = "filler" \/ [x EXCEPT !.by = "filler"] \notin copy}

Restores ==
    /\ pc = "restore"
    /\ series' = series \cup Kept /\ copy' = {} /\ pc' = AfterMinutes
    /\ UNCHANGED <<now, recorderVars, bars, failures, gaps, seen, ran, scanned>>

Detects ==
    /\ pc = "detect"
    /\ gaps' = DetectGaps(Stored, now - 1) /\ copy' = {} /\ pc' = "fill"
    /\ UNCHANGED <<klineVars, seen, ran, scanned>>

(* fill_gaps_for_symbol and fetch_and_fill: one gap is fetched and added.  *)
Fills ==
    /\ pc \in {"fill", "fastfill"}
    /\ \E gap \in gaps :
         /\ \A other \in gaps : First(gap) =< First(other)
         /\ \E got \in OkxFetches(gap) \cup BinanceFetches(gap) :
              /\ series' = series \cup {[minute |-> m, by |-> "filler"] : m \in got}
              /\ failures' = IF got = gap THEN failures ELSE failures + 1
         /\ gaps' = gaps \ {gap}
    /\ UNCHANGED <<now, recorderVars, bars, pc, copy, seen, ran, scanned>>

Filled ==
    /\ pc \in {"fill", "fastfill", "fillbars"} /\ gaps = {}
    /\ pc' = IF pc = "fill" THEN AfterFill ELSE "idle"
    /\ UNCHANGED <<klineVars, copy, gaps, seen, ran, scanned>>

(* The same of the bars of one hour: a gap is the minutes of the bars      *)
(* that are missing, up to the last period that is over.                   *)
Covered == {m \in PerBar .. now - 1 : \E b \in bars : b.start = Period(m)}

DetectsBars ==
    /\ pc = "detectbars"
    /\ gaps' = DetectGaps(Covered, Period(now) - 1) /\ pc' = "fillbars"
    /\ UNCHANGED <<klineVars, copy, seen, ran, scanned>>

FillsBars ==
    /\ pc = "fillbars"
    /\ \E gap \in gaps :
         /\ \A other \in gaps : First(gap) =< First(other)
         /\ \E got \in OkxFetches(gap) \cup BinanceFetches(gap) :
              /\ bars' = bars \cup {[start |-> p, sum |-> Once(MinutesOf(p))] :
                                      p \in {q \in Periods : MinutesOf(q) \subseteq got}}
              /\ failures' = IF got = gap THEN failures ELSE failures + 1
         /\ gaps' = gaps \ {gap}
    /\ UNCHANGED <<now, recorderVars, series, pc, copy, seen, ran, scanned>>

(* deduplicate_klines of the bars; which of two texts sorts last is open.  *)
CopiesBars ==
    /\ pc = "copybars"
    /\ copy' = IF DoubledBars(bars) THEN bars ELSE {}
    /\ pc' = IF DoubledBars(bars) THEN "deletebars" ELSE AfterBars
    /\ UNCHANGED <<klineVars, gaps, seen, ran, scanned>>

DeletesBars ==
    /\ pc = "deletebars"
    /\ bars' = {} /\ pc' = "restorebars"
    /\ UNCHANGED <<now, recorderVars, series, failures, copy, gaps, seen, ran, scanned>>

RestoresBars ==
    /\ pc = "restorebars"
    /\ \E kept \in SUBSET copy :
         /\ ~DoubledBars(kept) /\ {x.start : x \in kept} = {x.start : x \in copy}
         /\ bars' = bars \cup kept
    /\ copy' = {} /\ pc' = AfterBars
    /\ UNCHANGED <<now, recorderVars, series, failures, gaps, seen, ran, scanned>>

Looks ==
    /\ pc = "look"
    /\ seen' = {x.start : x \in bars} /\ pc' = "aggregate"
    /\ UNCHANGED <<klineVars, copy, gaps, ran, scanned>>

(* aggregate_filled_klines: a bar for each period that had none and has    *)
(* all its minutes; of a doubled minute one member is taken.               *)
Aggregates ==
    /\ pc = "aggregate"
    /\ bars' = bars \cup {[start |-> p, sum |-> Once(MinutesOf(p))] :
                            p \in {q \in Periods \ seen : MinutesOf(q) \subseteq Stored}}
    /\ seen' = {} /\ pc' = "idle"
    /\ UNCHANGED <<now, recorderVars, series, failures, copy, gaps, ran, scanned>>

(* Ctrl+C ends the script and the tool it runs, wherever it is. *)
FillerDies ==
    /\ pc # "idle"
    /\ pc' = "idle" /\ copy' = {} /\ gaps' = {} /\ seen' = {} /\ failures' = failures + 1
    /\ UNCHANGED <<now, recorderVars, storeVars, ran, scanned>>

-----------------------------------------------------------------------------
(* The fast filler counts the members of each chunk between the first and  *)
(* the last minute, looks closer where there are too few, and fetches the  *)
(* runs of minutes it does not find.                                       *)

ChunkOf(c) == {m \in c * Chunk .. c * Chunk + Chunk - 1 : m \in First(Stored) .. Final(Stored)}
Suspect(c) == Cardinality({x \in series : x.minute \in ChunkOf(c)}) < Cardinality(ChunkOf(c))

FastScan ==
    /\ pc = "idle" /\ series # {} /\ ~scanned
    /\ copy' = UNION {ChunkOf(c) : c \in {d \in 0 .. MaxMinute : Suspect(d)}}
    /\ pc' = "closer" /\ ran' = TRUE /\ scanned' = TRUE
    /\ UNCHANGED <<klineVars, gaps, seen>>

(* merge_gaps: neighbours are one gap, across chunks too. *)
Merged(minutes) ==
    {g \in {a .. b : a, b \in minutes} :
        /\ g # {} /\ g \subseteq minutes
        /\ First(g) - 1 \notin minutes /\ Final(g) + 1 \notin minutes}

FastCloser ==
    /\ pc = "closer"
    /\ gaps' = Merged(copy \ Stored) /\ copy' = {} /\ pc' = "fastfill"
    /\ UNCHANGED <<klineVars, seen, ran, scanned>>

Filler ==
    \/ Starts \/ Copies \/ Deletes \/ Restores \/ Detects \/ Fills \/ Filled
    \/ DetectsBars \/ FillsBars
    \/ CopiesBars \/ DeletesBars \/ RestoresBars \/ Looks \/ Aggregates
FastFiller == FastScan \/ FastCloser

KlineNext ==
    \/ MinutePasses /\ UNCHANGED fillerVars
    \/ Recorder /\ UNCHANGED fillerVars
    \/ Filler \/ FastFiller \/ FillerDies

(* The recorder's main loop goes on, a tool that runs goes on, and the     *)
(* script starts the gap filler again three seconds after each run.        *)
KlineFairness ==
    /\ WF_allKlineVars((Flush \/ Reconnects) /\ UNCHANGED fillerVars)
    /\ WF_allKlineVars(Filler \/ FastCloser)

KlineSpec == FillerInit /\ [][KlineNext]_allKlineVars /\ KlineFairness

-----------------------------------------------------------------------------
(* PROPERTIES *)

(* As long as no tool has run, every bar the recorder stores is made of    *)
(* each minute of its interval once, whatever candles are lost or come     *)
(* twice, whenever Redis or the recorder fail.                             *)
RecorderBarsWhole == ~ran => \A b \in bars : Whole(b)

(* With the gap filler run again and again the store completes itself:     *)
(* from some time on every closed minute is there, once, and every closed  *)
(* interval has its bar, unless a tool died with the series deleted.  The  *)
(* bars of one hour, which are not made of the minutes, need one to start  *)
(* from; nothing heals those of one day.                                   *)
Complete ==
    /\ {[x EXCEPT !.by = "any"] : x \in series} = {[minute |-> m, by |-> "any"] : m \in PerBar .. now - 1}
    /\ ~Doubled(series)
    /\ interval \in {"short", "long"} \/ (interval = "hour" /\ bars # {}) =>
          \A p \in Periods : p + PerBar =< now => \E b \in bars : b.start = p
StoreHeals == <>[](Complete \/ series = {})

=============================================================================
