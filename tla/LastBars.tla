------------------------------- MODULE LastBars -------------------------------
(***************************************************************************)
(* What a strategy may rely on for its klines: the last MaxBars bars that  *)
(* were handed over, oldest first, where a bar with the time stamp of the  *)
(* last one corrects it.                                                   *)
(***************************************************************************)
EXTENDS Naturals, Sequences

CONSTANT MaxBars, Times, Values

VARIABLE bars

Last(n) == SubSeq(bars, IF n < Len(bars) THEN Len(bars) - n + 1 ELSE 1, Len(bars))

Corrects(b) == bars # <<>> /\ bars[Len(bars)].time = b.time

Hand(b) ==
    bars' = IF Corrects(b) THEN [bars EXCEPT ![Len(bars)] = b]
            ELSE LET longer == Append(bars, b)
                 IN  IF Len(longer) > MaxBars THEN Tail(longer) ELSE longer

Init == bars = <<>>

Next ==
    \/ \E t \in Times, v \in Values : Hand([time |-> t, value |-> v])
    \/ bars' = <<>>

Spec == Init /\ [][Next]_bars

=============================================================================
