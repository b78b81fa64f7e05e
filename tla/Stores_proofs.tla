---------------------------- MODULE Stores_proofs -----------------------------
(***************************************************************************)
(* Proofs about what is kept of the market's data, for every value of the  *)
(* constants: in a strategy's memory (KlineRing), by the server's own      *)
(* recorder (RedisTape), and in the store of candles that recorder, tools  *)
(* and strategies share (History).                                         *)
(*                                                                         *)
(* KlineRing implements LastBars; get_recent is the end of get_all; over   *)
(* one connection at a time the bars are in the order of time.  Add and    *)
(* Update change what get_all returns as an append, an append that drops   *)
(* the oldest bar, or a correction of the last bar (Grows, Shifts,         *)
(* CorrectsLast), wherever the ring's head is.  The remainder of a         *)
(* division appears only in IndexFacts.                                    *)
(*                                                                         *)
(* RedisTape: while Redis answers, its keys hold the last of what was      *)
(* handed over (Held), because a thread hands over what is newest          *)
(* (HandedOver) and all are gone from the recorder when it stops (Phases). *)
(*                                                                         *)
(* History: what is in the store, or waits to be written to it, is of      *)
(* minutes that are over (SafeMembers, SafeBars); what the aggregator      *)
(* holds is the sum of as many members as it counts, of one period         *)
(* (Gathered), so that a full count is a whole bar, unless two members are *)
(* of one minute, which only a tool makes.  What the tools keep between    *)
(* their steps is as safe (ToolInv).                                       *)
(***************************************************************************)
EXTENDS KlineRing, RedisTape, History, Induction, SequenceTheorems, TLAPS

(* The ring *)

Bar == [time : Nat, value : Values]

RingTypes ==
    /\ data \in [0 .. MaxBars - 1 -> Bar]
    /\ head \in 0 .. MaxBars - 1 /\ size \in 0 .. MaxBars

FeedTypes ==
    /\ clock \in 0 .. MaxTime /\ doubled \in BOOLEAN
    /\ reads \in [Links -> 0 .. clock + 1]

-----------------------------------------------------------------------------
(* The ring's arithmetic *)

LEMMA IndexFacts ==
  ASSUME RingTypes, NEW i \in 0 .. MaxBars
  PROVE  /\ Index(i) = IF head + i < MaxBars THEN head + i ELSE head + i - MaxBars
         /\ i < MaxBars => Index(i) \in 0 .. MaxBars - 1
  <1>1. MaxBars \in Nat \ {0} /\ head + i \in Nat /\ head + i < MaxBars + MaxBars
    BY RingAssumption DEF RingTypes
  <1>2. Index(i) = IF head + i < MaxBars THEN head + i ELSE head + i - MaxBars
    <2>1. head \in Nat /\ i \in Nat
      BY RingAssumption DEF RingTypes
    <2>2. QED
      BY <1>1, <2>1, Z3 DEF Index
  <1>3. QED
    BY <1>1, <1>2 DEF RingTypes

LEMMA LastIndexFact ==
  ASSUME RingTypes, size > 0
  PROVE  LastIndex = Index(size - 1) /\ LastIndex \in 0 .. MaxBars - 1
  <1>1. head + size - 1 = head + (size - 1) /\ size - 1 \in 0 .. MaxBars - 1
    BY RingAssumption DEF RingTypes
  <1>2. LastIndex = Index(size - 1)
    BY <1>1 DEF LastIndex, Index
  <1>3. QED
    BY <1>1, <1>2, IndexFacts, RingAssumption DEF RingTypes

(* Two places of the ring are one only if they have the same number. *)
LEMMA IndexInjective ==
  ASSUME RingTypes, NEW i \in 0 .. MaxBars - 1, NEW j \in 0 .. MaxBars - 1, Index(i) = Index(j)
  PROVE  i = j
  <1>1. i \in 0 .. MaxBars /\ j \in 0 .. MaxBars /\ MaxBars \in Nat
    BY RingAssumption
  <1>2. /\ Index(i) = IF head + i < MaxBars THEN head + i ELSE head + i - MaxBars
        /\ Index(j) = IF head + j < MaxBars THEN head + j ELSE head + j - MaxBars
    BY <1>1, IndexFacts
  <1>3. i \in Int /\ j \in Int /\ head \in Int /\ i < MaxBars /\ j < MaxBars /\ 0 =< i /\ 0 =< j
    BY <1>1 DEF RingTypes
  <1>4. head + i = head + j \/ head + i = head + j - MaxBars \/ head + i - MaxBars = head + j
          \/ head + i - MaxBars = head + j - MaxBars
    BY <1>2
  <1>5. QED
    BY <1>1, <1>3, <1>4

LEMMA ContentsSeq ==
  ASSUME RingTypes
  PROVE  /\ Contents \in [1 .. size -> Bar] /\ Contents \in Seq(Bar) /\ Len(Contents) = size
         /\ \A i \in 1 .. size : Contents[i] = data[Index(i - 1)]
  <1>0. size \in Nat /\ MaxBars \in Nat \ {0} /\ size =< MaxBars
    BY RingAssumption DEF RingTypes
  <1>1. ASSUME NEW i \in 1 .. size PROVE data[Index(i - 1)] \in Bar
    <2>1. i - 1 \in 0 .. MaxBars /\ i - 1 < MaxBars
      BY <1>0
    <2>2. Index(i - 1) \in 0 .. MaxBars - 1
      BY <2>1, IndexFacts
    <2>3. QED
      BY <2>2 DEF RingTypes
  <1>2. Contents \in [1 .. size -> Bar]
    BY <1>1 DEF Contents
  <1>3. Contents \in Seq(Bar)
    BY <1>0, <1>2, SeqDef
  <1>4. Len(Contents) = size
    BY <1>0, <1>2, <1>3, LenProperties
  <1>5. QED
    BY <1>2, <1>3, <1>4 DEF Contents

LEMMA ContentsSeqNext ==
  ASSUME RingTypes'
  PROVE  Contents' \in Seq(Bar) /\ Len(Contents') = size'
  <1>0. size' \in Nat /\ head' \in Nat /\ MaxBars \in Nat \ {0}
    BY RingAssumption DEF RingTypes
  <1>1. \A m \in Nat \ {0} : \A h, k \in Nat : (h + k) % m \in 0 .. m - 1
    BY Z3
  <1>2. ASSUME NEW i \in 1 .. size' PROVE data'[(head' + (i - 1)) % MaxBars] \in Bar
    <2>1. (head' + (i - 1)) % MaxBars \in 0 .. MaxBars - 1
      <3>1. i - 1 \in Nat
        BY <1>0
      <3>2. QED
        BY <1>0, <1>1, <3>1
    <2>2. QED
      BY <2>1 DEF RingTypes
  <1>3. Contents' \in [1 .. size' -> Bar]
    BY <1>2 DEF Contents, Index
  <1>4. Contents' \in Seq(Bar)
    BY <1>0, <1>3, SeqDef
  <1>5. QED
    BY <1>0, <1>3, <1>4, LenProperties

-----------------------------------------------------------------------------
(* What Add and Update do to the contents *)

Grows(b) ==
    /\ size' = size + 1
    /\ \A i \in 1 .. size' : Contents'[i] = IF i = size' THEN b ELSE Contents[i]
Shifts(b) ==
    /\ size = MaxBars /\ size' = size
    /\ \A i \in 1 .. size' : Contents'[i] = IF i = size' THEN b ELSE Contents[i + 1]
CorrectsLast(b) ==
    /\ size > 0 /\ Contents[size].time = b.time /\ size' = size
    /\ \A i \in 1 .. size' : Contents'[i] = IF i = size' THEN b ELSE Contents[i]

LEMMA AddContents ==
  ASSUME RingTypes, NEW b \in Bar, Add(b)
  PROVE  RingTypes' /\ ((Grows(b) /\ size' =< MaxBars) \/ Shifts(b))
  <1>0. MaxBars \in Nat \ {0} /\ size \in 0 .. MaxBars /\ head \in 0 .. MaxBars - 1
    BY RingAssumption DEF RingTypes
  <1>1. CASE size < MaxBars
    <2>1. data' = [data EXCEPT ![Index(size)] = b] /\ size' = size + 1 /\ head' = head
      BY <1>1 DEF Add
    <2>2. Index(size) \in 0 .. MaxBars - 1
      BY <1>0, <1>1, IndexFacts
    <2>3. RingTypes'
      BY <1>0, <1>1, <2>1, <2>2 DEF RingTypes
    <2>4. ASSUME NEW i \in 1 .. size' PROVE Contents'[i] = IF i = size' THEN b ELSE Contents[i]
      <3>1. Contents'[i] = data'[Index(i - 1)]
        BY <2>1, <2>3, ContentsSeq DEF Contents, Index
      <3>2. CASE i = size'
        BY <2>1, <2>2, <3>1, <3>2, <1>0 DEF RingTypes
      <3>3. CASE i # size'
        <4>1. i \in 1 .. size /\ i - 1 \in 0 .. MaxBars - 1 /\ size \in 0 .. MaxBars - 1 /\ i - 1 # size
          BY <1>0, <1>1, <2>1, <3>3
        <4>2. Index(i - 1) # Index(size) /\ Index(i - 1) \in 0 .. MaxBars - 1
          BY <1>0, <4>1, IndexInjective, IndexFacts
        <4>3. QED
          BY <2>1, <2>2, <3>1, <3>3, <4>1, <4>2, ContentsSeq DEF RingTypes
      <3>4. QED
        BY <3>2, <3>3
    <2>5. QED
      BY <1>0, <1>1, <2>1, <2>3, <2>4 DEF Grows
  <1>2. CASE ~ size < MaxBars
    <2>1. size = MaxBars
      BY <1>0, <1>2
    <2>2. data' = [data EXCEPT ![head] = b] /\ size' = size /\ head' = (head + 1) % MaxBars
      BY <1>2 DEF Add
    <2>3. head' = IF head + 1 < MaxBars THEN head + 1 ELSE 0
      <3>1. head + 1 \in Nat /\ head + 1 =< MaxBars /\ head + 1 < MaxBars + MaxBars
        BY <1>0
      <3>2. QED
        BY <1>0, <2>2, <3>1, Z3
    <2>4. RingTypes'
      BY <1>0, <2>2, <2>3 DEF RingTypes
    <2>5. ASSUME NEW i \in 1 .. size' PROVE Contents'[i] = IF i = size' THEN b ELSE Contents[i + 1]
      <3>1. Contents'[i] = data'[Index(i - 1)']
        BY <2>4, ContentsSeq DEF Contents
      <3>2. Index(i - 1)' = (head' + (i - 1)) % MaxBars
        BY DEF Index
      <3>3. i \in 1 .. MaxBars
        BY <2>1, <2>2
      <3>4. (head' + (i - 1)) % MaxBars =
              IF head' + (i - 1) < MaxBars THEN head' + (i - 1) ELSE head' + (i - 1) - MaxBars
        <4>1. head' + (i - 1) \in Nat /\ head' + (i - 1) < MaxBars + MaxBars
          BY <1>0, <2>3, <3>3
        <4>2. head' \in Nat /\ i - 1 \in Nat
          BY <1>0, <2>3, <3>3
        <4>3. \A m \in Nat \ {0} : \A h, k \in Nat : h + k < m + m =>
                (h + k) % m = IF h + k < m THEN h + k ELSE h + k - m
          BY Z3
        <4>4. QED
          BY <1>0, <4>1, <4>2, <4>3
      <3>5. CASE i = size'
        <4>1. Index(i - 1)' = head
          BY <1>0, <2>1, <2>2, <2>3, <3>2, <3>4, <3>5
        <4>2. QED
          BY <1>0, <2>2, <3>1, <3>5, <4>1 DEF RingTypes
      <3>6. CASE i # size'
        <4>1. i \in 0 .. MaxBars - 1 /\ i + 1 \in 1 .. size
          BY <1>0, <2>1, <2>2, <3>3, <3>6
        <4>2. Index(i) = IF head + i < MaxBars THEN head + i ELSE head + i - MaxBars
          BY <1>0, <4>1, IndexFacts
        <4>3. Index(i - 1)' = Index(i) /\ Index(i) # head /\ Index(i) \in 0 .. MaxBars - 1
          BY <1>0, <2>3, <3>2, <3>4, <4>1, <4>2
        <4>4. Contents[i + 1] = data[Index(i)]
          BY <4>1, ContentsSeq
        <4>5. QED
          BY <2>2, <3>1, <3>6, <4>3, <4>4 DEF RingTypes
      <3>7. QED
        BY <3>5, <3>6
    <2>6. QED
      BY <2>1, <2>2, <2>4, <2>5 DEF Shifts
  <1>3. QED
    BY <1>1, <1>2

LEMMA UpdateContents ==
  ASSUME RingTypes, NEW b \in Bar, Update(b)
  PROVE  /\ RingTypes'
         /\ \/ CorrectsLast(b)
            \/ /\ size = 0 \/ Contents[size].time # b.time
               /\ (Grows(b) /\ size' =< MaxBars) \/ Shifts(b)
  <1>0. MaxBars \in Nat \ {0} /\ size \in 0 .. MaxBars
    BY RingAssumption DEF RingTypes
  <1>1. CASE size > 0 /\ data[LastIndex].time = b.time
    <2>1. LastIndex = Index(size - 1) /\ LastIndex \in 0 .. MaxBars - 1
      BY <1>1, LastIndexFact
    <2>2. data' = [data EXCEPT ![LastIndex] = b] /\ head' = head /\ size' = size
      BY <1>1 DEF Update
    <2>3. RingTypes'
      BY <2>1, <2>2 DEF RingTypes
    <2>4. size \in 1 .. size /\ Contents[size] = data[Index(size - 1)]
      BY <1>0, <1>1, ContentsSeq
    <2>5. ASSUME NEW i \in 1 .. size' PROVE Contents'[i] = IF i = size' THEN b ELSE Contents[i]
      <3>1. Contents'[i] = data'[Index(i - 1)]
        BY <2>2, <2>3, ContentsSeq DEF Contents, Index
      <3>2. CASE i = size
        BY <2>1, <2>2, <3>1, <3>2 DEF RingTypes
      <3>3. CASE i # size
        <4>1. i \in 1 .. size /\ i - 1 \in 0 .. MaxBars - 1 /\ size - 1 \in 0 .. MaxBars - 1 /\ i - 1 # size - 1
          BY <1>0, <1>1, <2>2, <3>3
        <4>2. Index(i - 1) # Index(size - 1) /\ Index(i - 1) \in 0 .. MaxBars - 1
          BY <1>0, <4>1, IndexInjective, IndexFacts
        <4>3. QED
          BY <2>1, <2>2, <3>1, <3>3, <4>1, <4>2, ContentsSeq DEF RingTypes
      <3>4. QED
        BY <3>2, <3>3
    <2>6. QED
      BY <1>1, <2>1, <2>2, <2>3, <2>4, <2>5 DEF CorrectsLast
  <1>2. CASE ~ (size > 0 /\ data[LastIndex].time = b.time)
    <2>1. Add(b)
      BY <1>2 DEF Update
    <2>2. size = 0 \/ Contents[size].time # b.time
      <3> SUFFICES ASSUME size # 0 PROVE Contents[size].time # b.time
        OBVIOUS
      <3>1. size > 0 /\ size \in 1 .. size
        BY <1>0
      <3>2. QED
        BY <1>2, <3>1, LastIndexFact, ContentsSeq
    <2>3. QED
      BY <2>1, <2>2, AddContents
  <1>3. QED
    BY <1>1, <1>2

LEMMA ClearContents ==
  ASSUME RingTypes, Clear
  PROVE  RingTypes' /\ FeedTypes = FeedTypes' /\ size' = 0 /\ Contents' = <<>>
  <1>1. RingTypes' /\ size' = 0
    BY RingAssumption DEF RingTypes, Clear
  <1>2. Contents' \in Seq(Bar) /\ Len(Contents') = 0
    BY <1>1, ContentsSeq DEF Contents, Index, Bar
  <1>3. QED
    BY <1>1, <1>2, EmptySeq DEF Clear, feedVars, FeedTypes

LEMMA StillContents == UNCHANGED ringVars => Contents' = Contents /\ (RingTypes => RingTypes')
  BY DEF ringVars, Contents, Index, RingTypes

(* The bar a connection brings. *)
Brought(l) == [time |-> reads[l], value |-> IF l = 1 THEN "first" ELSE "again"]

LEMMA BroughtType ==
  ASSUME FeedTypes, NEW l \in Links, NEW lost \in BOOLEAN, Delivers(l, lost)
  PROVE  Brought(l) \in Bar /\ Brought(l).time \in Times /\ Brought(l).value \in Values
  BY RingAssumption DEF FeedTypes, Delivers, Brought, Bar, Times, Values

-----------------------------------------------------------------------------
(* Types *)

LEMMA InitRing == RingInit => RingTypes /\ FeedTypes /\ Contents = <<>>
  <1> SUFFICES ASSUME RingInit PROVE RingTypes /\ FeedTypes /\ Contents = <<>>
    OBVIOUS
  <1>1. RingTypes /\ size = 0
    BY RingAssumption DEF RingInit, RingTypes, Bar, Empty, Values
  <1>2. FeedTypes
    <2>1. clock \in 0 .. MaxTime /\ doubled \in BOOLEAN
      <3>1. clock = 0 /\ doubled = FALSE
        BY DEF RingInit
      <3>2. 0 \in 0 .. MaxTime
        BY RingAssumption
      <3>3. QED
        BY <3>1, <3>2
    <2>2. 0 \in 0 .. clock + 1 /\ reads = [l \in Links |-> 0]
      BY DEF RingInit
    <2>3. QED
      BY <2>1, <2>2 DEF FeedTypes
  <1>3. Contents \in Seq(Bar) /\ Len(Contents) = 0
    BY <1>1, ContentsSeq
  <1>4. QED
    BY <1>1, <1>2, <1>3, EmptySeq

LEMMA NextRingTypes ==
  ASSUME RingTypes, FeedTypes, [RingNext]_<<ringVars, feedVars>>
  PROVE  RingTypes' /\ FeedTypes'
  <1>1. CASE CandleCloses
    BY <1>1, StillContents, RingAssumption DEF CandleCloses, FeedTypes, Links
  <1>2. CASE Clear
    BY <1>2, ClearContents
  <1>3. ASSUME NEW l \in Links, LinkOpens(l) \/ LinkCloses(l) PROVE RingTypes' /\ FeedTypes'
    <2>1. UNCHANGED ringVars /\ clock' = clock /\ clock \in 0 .. MaxTime
      BY <1>3 DEF LinkOpens, LinkCloses, FeedTypes
    <2>2. doubled' \in BOOLEAN
      BY <1>3 DEF LinkOpens, LinkCloses, FeedTypes
    <2>3. clock + 1 \in 0 .. clock + 1 /\ 0 \in 0 .. clock + 1
      BY <2>1, RingAssumption
    <2>4. reads' \in [Links -> 0 .. clock + 1]
      BY <1>3, <2>3 DEF LinkOpens, LinkCloses, FeedTypes
    <2>5. QED
      BY <2>1, <2>2, <2>4, StillContents DEF FeedTypes
  <1>4. ASSUME NEW l \in Links, NEW lost \in BOOLEAN, Delivers(l, lost) PROVE RingTypes' /\ FeedTypes'
    <2>1. FeedTypes'
      BY <1>4, RingAssumption DEF Delivers, FeedTypes
    <2>2. RingTypes'
      BY <1>4, BroughtType, UpdateContents, StillContents DEF Delivers, Brought
    <2>3. QED
      BY <2>1, <2>2
  <1>5. CASE UNCHANGED <<ringVars, feedVars>>
    BY <1>5, StillContents DEF feedVars, FeedTypes
  <1>6. QED
    BY <1>1, <1>2, <1>3, <1>4, <1>5 DEF RingNext

-----------------------------------------------------------------------------
(* The refinement *)

LEMMA HandStep ==
  ASSUME RingTypes, RingTypes', NEW b \in Bar,
         CorrectsLast(b) \/ ((size = 0 \/ Contents[size].time # b.time) /\ ((Grows(b) /\ size' =< MaxBars) \/ Shifts(b)))
  PROVE  Bars!Hand(b)
  <1> DEFINE C == Contents
             D == Contents'
             longer == Append(C, b)
  <1>0. MaxBars \in Nat \ {0} /\ size \in 0 .. MaxBars /\ size' \in 0 .. MaxBars
    BY RingAssumption DEF RingTypes
  <1>1. C \in Seq(Bar) /\ Len(C) = size
    BY ContentsSeq
  <1>2. D \in Seq(Bar) /\ Len(D) = size'
    BY ContentsSeqNext
  <1>3. C # <<>> <=> size # 0
    BY <1>0, <1>1, EmptySeq
  <1>4. CASE CorrectsLast(b)
    <2>1. size \in 1 .. Len(C) /\ Bars!Corrects(b)
      BY <1>0, <1>1, <1>3, <1>4 DEF CorrectsLast, Bars!Corrects
    <2>2. [C EXCEPT ![size] = b] \in Seq(Bar) /\ Len([C EXCEPT ![size] = b]) = size
            /\ \A j \in 1 .. size : [C EXCEPT ![size] = b][j] = IF j = size THEN b ELSE C[j]
      BY <1>1, <2>1, ExceptSeq
    <2>3. D = [C EXCEPT ![size] = b]
      BY <1>2, <1>4, <2>2, SeqEqual DEF CorrectsLast
    <2>4. QED
      BY <1>1, <2>1, <2>3 DEF Bars!Hand
  <1>5. CASE (size = 0 \/ C[size].time # b.time) /\ ((Grows(b) /\ size' =< MaxBars) \/ Shifts(b))
    <2>1. ~ Bars!Corrects(b)
      BY <1>1, <1>3, <1>5 DEF Bars!Corrects
    <2>2. longer \in Seq(Bar) /\ Len(longer) = size + 1
            /\ \A j \in 1 .. size + 1 : longer[j] = IF j = size + 1 THEN b ELSE C[j]
      BY <1>0, <1>1, AppendProperties
    <2>3. CASE Grows(b) /\ size' =< MaxBars
      <3>1. D = longer
        BY <1>2, <2>2, <2>3, SeqEqual DEF Grows
      <3>2. ~ Len(longer) > MaxBars
        BY <1>0, <2>2, <2>3 DEF Grows
      <3>3. QED
        BY <2>1, <3>1, <3>2 DEF Bars!Hand
    <2>4. CASE Shifts(b)
      <3>1. Len(longer) > MaxBars /\ longer # <<>>
        BY <1>0, <2>2, <2>4, EmptySeq DEF Shifts
      <3>2. Tail(longer) \in Seq(Bar) /\ Len(Tail(longer)) = size
              /\ \A j \in 1 .. size : Tail(longer)[j] = longer[j + 1]
        BY <1>0, <2>2, <3>1, HeadTailProperties
      <3>3. ASSUME NEW j \in 1 .. size PROVE D[j] = Tail(longer)[j]
        BY <1>0, <2>2, <2>4, <3>2 DEF Shifts
      <3>4. D = Tail(longer)
        BY <1>2, <2>4, <3>2, <3>3, SeqEqual DEF Shifts
      <3>5. QED
        BY <2>1, <3>1, <3>4 DEF Bars!Hand
    <2>5. QED
      BY <1>5, <2>3, <2>4
  <1>6. QED
    BY <1>4, <1>5

LEMMA StepSimulates ==
  ASSUME RingTypes, FeedTypes, [RingNext]_<<ringVars, feedVars>>
  PROVE  [Bars!Next]_Contents
  <1>1. CASE CandleCloses \/ UNCHANGED <<ringVars, feedVars>>
    BY <1>1, StillContents DEF CandleCloses
  <1>2. CASE Clear
    BY <1>2, ClearContents DEF Bars!Next
  <1>3. ASSUME NEW l \in Links, LinkOpens(l) \/ LinkCloses(l) PROVE [Bars!Next]_Contents
    BY <1>3, StillContents DEF LinkOpens, LinkCloses
  <1>4. ASSUME NEW l \in Links, NEW lost \in BOOLEAN, Delivers(l, lost) PROVE [Bars!Next]_Contents
    <2>1. CASE lost
      BY <1>4, <2>1, StillContents DEF Delivers
    <2>2. CASE ~ lost
      <3>1. Update(Brought(l)) /\ Brought(l) \in Bar
        BY <1>4, <2>2, BroughtType DEF Delivers, Brought
      <3>2. Bars!Hand(Brought(l))
        BY <3>1, UpdateContents, HandStep
      <3>3. Brought(l) = [time |-> Brought(l).time, value |-> Brought(l).value]
        BY DEF Brought
      <3>4. QED
        BY <1>4, <3>2, <3>3, BroughtType DEF Bars!Next
    <2>3. QED
      BY <2>1, <2>2
  <1>5. QED
    BY <1>1, <1>2, <1>3, <1>4 DEF RingNext

(* KlineBuffer shows the last bars handed to it (market_data_module.h), at *)
(* any size and wherever its head is.                                      *)
THEOREM RingImplements == RingSpec => ShowsLastBars
  <1>1. RingInit => Bars!Init
    BY InitRing DEF Bars!Init
  <1>2. RingInit => RingTypes /\ FeedTypes
    BY InitRing
  <1>3. RingTypes /\ FeedTypes /\ [RingNext]_<<ringVars, feedVars>> => RingTypes' /\ FeedTypes'
    BY NextRingTypes
  <1>4. RingTypes /\ FeedTypes /\ [RingNext]_<<ringVars, feedVars>> => [Bars!Next]_Contents
    BY StepSimulates
  <1>5. QED
    BY <1>1, <1>2, <1>3, <1>4, PTL DEF RingSpec, ShowsLastBars, Bars!Spec

-----------------------------------------------------------------------------
(* get_recent *)

(* get_recent is the end of get_all. *)
LEMMA RecentLast ==
  ASSUME RingTypes
  PROVE  RecentIsEnd
  <1> SUFFICES ASSUME NEW n \in 0 .. MaxBars + 1 PROVE Recent(n) = Bars!Last(n)
    BY DEF RecentIsEnd
  <1> DEFINE m == IF n < size THEN n ELSE size
             from == IF n < size THEN size - n + 1 ELSE 1
  <1>0. MaxBars \in Nat \ {0} /\ size \in 0 .. MaxBars /\ size \in Nat
    BY RingAssumption DEF RingTypes
  <1>1. Contents \in Seq(Bar) /\ Len(Contents) = size
          /\ \A i \in 1 .. size : Contents[i] = data[Index(i - 1)]
    BY ContentsSeq
  <1>2. Bars!Last(n) = SubSeq(Contents, from, size)
    BY <1>1 DEF Bars!Last
  <1>3. m \in 0 .. size /\ from \in 1 .. size + 1 /\ from = size - m + 1
    BY <1>0
  <1>4. SubSeq(Contents, from, size) = [i \in 1 .. m |-> Contents[i + from - 1]]
    <2>1. size - from + 1 = m
      BY <1>0, <1>3
    <2>2. SubSeq(Contents, from, size) = [i \in 1 .. (1 + size - from) |-> Contents[i + from - 1]]
      BY <1>0, <1>1, <1>3
    <2>3. 1 + size - from = m
      BY <1>0, <1>3
    <2>4. QED
      BY <2>2, <2>3
  <1>5. ASSUME NEW i \in 1 .. m PROVE Contents[i + from - 1] = data[Index(size - m + i - 1)]
    <2>1. i + from - 1 \in 1 .. size /\ (i + from - 1) - 1 = size - m + i - 1
      BY <1>0, <1>3
    <2>2. QED
      BY <1>1, <2>1
  <1>6. Recent(n) = [i \in 1 .. m |-> data[Index(size - m + i - 1)]]
    BY DEF Recent
  <1>7. QED
    BY <1>2, <1>4, <1>5, <1>6

-----------------------------------------------------------------------------
(* The order of the bars *)

(* What keeps the order while no two connections were open at a time: the  *)
(* open one has yet to bring only bars later than all that are shown, and  *)
(* none that is shown is later than the clock, from which the next         *)
(* connection starts.                                                      *)
OrderInv ==
    ~ doubled =>
      /\ \A k, l \in Links : reads[k] # 0 /\ reads[l] # 0 => k = l
      /\ \A i \in 1 .. size : Contents[i].time =< clock
      /\ \A i \in 1 .. size, l \in Links : reads[l] # 0 => Contents[i].time < reads[l]
      /\ \A i \in 1 .. size - 1 : Contents[i].time < Contents[i + 1].time

Inv == RingTypes /\ FeedTypes /\ OrderInv

LEMMA ContentsTime ==
  ASSUME RingTypes, NEW i \in 1 .. size
  PROVE  Contents[i].time \in Nat
  BY ContentsSeq DEF Bar

LEMMA Neighbours ==
  ASSUME NEW n \in Nat, NEW i \in 1 .. n - 1
  PROVE  i \in 1 .. n /\ i + 1 \in 1 .. n /\ i # n
  OBVIOUS

LEMMA DeliveredInOrder ==
  ASSUME Inv, NEW l \in Links, Delivers(l, FALSE), ~ doubled
  PROVE  OrderInv'
  <1> DEFINE b == Brought(l)
  <1>0. /\ MaxBars \in Nat \ {0} /\ size \in 0 .. MaxBars /\ clock \in Nat /\ clock' = clock
        /\ reads \in [Links -> 0 .. clock + 1] /\ reads[l] # 0 /\ reads[l] =< clock
        /\ reads' = [reads EXCEPT ![l] = @ + 1]
    BY RingAssumption DEF Inv, RingTypes, FeedTypes, Delivers
  <1>1. Update(b) /\ b \in Bar /\ b.time = reads[l]
    BY BroughtType DEF Inv, Delivers, Brought
  <1>2. \A i \in 1 .. size : Contents[i].time \in Nat /\ Contents[i].time < b.time
    BY <1>0, <1>1, ContentsTime DEF Inv, OrderInv
  <1>3. RingTypes' /\ ((Grows(b) /\ size' =< MaxBars) \/ Shifts(b))
    <2>1. ~ CorrectsLast(b)
      BY <1>0, <1>1, <1>2 DEF CorrectsLast
    <2>2. QED
      BY <1>1, <2>1, UpdateContents DEF Inv
  <1>4. size' \in 0 .. MaxBars
    BY <1>3 DEF RingTypes
  <1>5. ASSUME NEW i \in 1 .. size'
        PROVE  /\ Contents'[i].time \in Nat /\ Contents'[i].time =< b.time
               /\ i # size' => Contents'[i].time < b.time
    <2>1. CASE Grows(b)
      BY <1>0, <1>1, <1>2, <2>1 DEF Grows
    <2>2. CASE Shifts(b)
      BY <1>0, <1>1, <1>2, <2>2 DEF Shifts
    <2>3. QED
      BY <1>3, <2>1, <2>2
  <1>6. \A k, j \in Links : reads'[k] # 0 /\ reads'[j] # 0 => k = j
    BY <1>0 DEF Inv, OrderInv
  <1>7. \A i \in 1 .. size' : Contents'[i].time =< clock'
    BY <1>0, <1>1, <1>5
  <1>8. \A i \in 1 .. size', k \in Links : reads'[k] # 0 => Contents'[i].time < reads'[k]
    <2>1. reads'[l] = reads[l] + 1
      BY <1>0
    <2>2. \A k \in Links : reads'[k] # 0 => k = l
      BY <1>0, <1>6, <2>1
    <2>3. QED
      BY <1>0, <1>1, <1>5, <2>1, <2>2
  <1>9. ASSUME NEW i \in 1 .. size' - 1 PROVE Contents'[i].time < Contents'[i + 1].time
    <2>0. size' \in Nat
      BY <1>0, <1>4
    <2>1. i \in 1 .. size' /\ i + 1 \in 1 .. size' /\ i # size'
      BY <2>0, Neighbours
    <2>2. CASE i + 1 = size'
      <3>1. Contents'[i + 1] = b
        BY <1>3, <2>1, <2>2 DEF Grows, Shifts
      <3>2. QED
        BY <1>5, <2>1, <3>1
    <2>3. CASE i + 1 # size'
      <3>1. \A j \in 1 .. size - 1 : Contents[j].time < Contents[j + 1].time
        BY DEF Inv, OrderInv
      <3>2. CASE Grows(b)
        <4>1. i \in 1 .. size - 1 /\ Contents'[i] = Contents[i] /\ Contents'[i + 1] = Contents[i + 1]
          BY <1>0, <2>1, <2>3, <3>2 DEF Grows
        <4>2. QED
          BY <3>1, <4>1
      <3>3. CASE Shifts(b)
        <4>1. i + 1 \in 1 .. size - 1 /\ Contents'[i] = Contents[i + 1]
                /\ Contents'[i + 1] = Contents[(i + 1) + 1]
          BY <1>0, <2>1, <2>3, <3>3 DEF Shifts
        <4>2. QED
          BY <3>1, <4>1
      <3>4. QED
        BY <1>3, <3>2, <3>3
    <2>4. QED
      BY <2>2, <2>3
  <1>10. QED
    BY <1>6, <1>7, <1>8, <1>9 DEF OrderInv

LEMMA NextInv ==
  ASSUME Inv, [RingNext]_<<ringVars, feedVars>>
  PROVE  Inv'
  <1>0. RingTypes' /\ FeedTypes'
    BY NextRingTypes DEF Inv
  <1> SUFFICES ASSUME ~ doubled' PROVE OrderInv'
    BY <1>0 DEF Inv, OrderInv
  <1>a. \A i \in 1 .. size : Contents[i].time \in Nat
    BY ContentsTime DEF Inv
  <1>b. /\ MaxBars \in Nat \ {0} /\ size \in 0 .. MaxBars /\ clock \in Nat
        /\ reads \in [Links -> 0 .. clock + 1]
    BY RingAssumption DEF Inv, RingTypes, FeedTypes
  <1>1. CASE CandleCloses
    <2>1. Contents' = Contents /\ size' = size /\ doubled' = doubled /\ reads' = reads /\ clock' = clock + 1
      BY <1>1, StillContents DEF CandleCloses, ringVars
    <2>2. QED
      BY <1>a, <1>b, <2>1 DEF Inv, OrderInv
  <1>2. CASE Clear
    <2>1. size' = 0 /\ doubled' = doubled /\ reads' = reads /\ clock' = clock
      BY <1>2 DEF Clear, feedVars
    <2>2. QED
      BY <2>1 DEF Inv, OrderInv
  <1>3. ASSUME NEW l \in Links, LinkOpens(l) PROVE OrderInv'
    <2>1. Contents' = Contents /\ size' = size /\ clock' = clock /\ reads' = [reads EXCEPT ![l] = clock + 1]
      BY <1>3, StillContents DEF LinkOpens, ringVars
    <2>2. ~ doubled /\ \A k \in Links \ {l} : reads[k] = 0
      BY <1>3 DEF LinkOpens
    <2>3. QED
      BY <1>a, <1>b, <2>1, <2>2 DEF Inv, OrderInv
  <1>4. ASSUME NEW l \in Links, LinkCloses(l) PROVE OrderInv'
    <2>1. Contents' = Contents /\ size' = size /\ clock' = clock /\ doubled' = doubled
            /\ reads' = [reads EXCEPT ![l] = 0]
      BY <1>4, StillContents DEF LinkCloses, ringVars
    <2>2. QED
      BY <1>b, <2>1 DEF Inv, OrderInv
  <1>5. ASSUME NEW l \in Links, NEW lost \in BOOLEAN, Delivers(l, lost) PROVE OrderInv'
    <2>1. doubled' = doubled
      BY <1>5 DEF Delivers
    <2>2. CASE lost
      <3>1. Contents' = Contents /\ size' = size /\ clock' = clock /\ reads' = [reads EXCEPT ![l] = @ + 1]
              /\ reads[l] # 0
        BY <1>5, <2>2, StillContents DEF Delivers, ringVars
      <3>2. QED
        BY <1>a, <1>b, <2>1, <3>1 DEF Inv, OrderInv
    <2>3. CASE ~ lost
      BY <1>5, <2>1, <2>3, DeliveredInOrder
    <2>4. QED
      BY <2>2, <2>3
  <1>6. CASE UNCHANGED <<ringVars, feedVars>>
    <2>1. Contents' = Contents /\ size' = size /\ clock' = clock /\ reads' = reads /\ doubled' = doubled
      BY <1>6, StillContents DEF ringVars, feedVars
    <2>2. QED
      BY <2>1 DEF Inv, OrderInv
  <1>7. QED
    BY <1>1, <1>2, <1>3, <1>4, <1>5, <1>6 DEF RingNext

LEMMA InitInv == RingInit => Inv
  <1> SUFFICES ASSUME RingInit PROVE Inv
    OBVIOUS
  <1>1. RingTypes /\ FeedTypes
    BY InitRing
  <1>2. OrderInv
    BY DEF RingInit, OrderInv
  <1>3. QED
    BY <1>1, <1>2 DEF Inv

(* The bars a strategy reads (market_data_module.h) are in the order of    *)
(* time and none comes twice, unless two connections brought them.         *)
THEOREM OrderedOverOne == RingSpec => []InOrder
  <1>1. Inv => InOrder
    BY DEF Inv, OrderInv, InOrder
  <1>2. Inv /\ [RingNext]_<<ringVars, feedVars>> => Inv'
    BY NextInv
  <1>3. QED
    BY <1>1, <1>2, InitInv, PTL DEF RingSpec

(* KlineBuffer::get_recent returns the end of what get_all returns.        *)
THEOREM RecentOfAll == RingSpec => []RecentIsEnd
  <1>1. Inv => RecentIsEnd
    BY RecentLast DEF Inv
  <1>2. Inv /\ [RingNext]_<<ringVars, feedVars>> => Inv'
    BY NextInv
  <1>3. QED
    BY <1>1, <1>2, InitInv, PTL DEF RingSpec

-----------------------------------------------------------------------------
(* The recorder of the server *)

Kinds == {"nothing", "trade", "candle", "rate", "book"}

Tapes == [trade : Seq(Nat), candle : SUBSET (Nat \X Threads), rate : SUBSET {<<n>> : n \in Nat}, book : Nat]

TapeTypes ==
    /\ mainAt \in {"starts", "runs", "joined", "stopped", "exited"}
    /\ recording \in BOOLEAN /\ redis \in {"none", "up", "broken", "lost"}
    /\ calls \in [Threads -> Kinds \X Nat]
    /\ handed \in [Hands -> Nat] /\ refused \subseteq Hands \X Nat
    /\ tape \in Tapes

(* A thread that hands a message over hands over its newest. *)
HandedOver ==
    \A t \in Threads :
        calls[t] # Nothing =>
            /\ <<t, calls[t][1]>> \in Hands
            /\ calls[t][2] = handed[<<t, calls[t][1]>>] /\ calls[t][2] > 0
            /\ \A n \in Nat : <<<<t, calls[t][1]>>, n>> \in refused => n < calls[t][2]

RefusedHanded == \A h \in Hands, n \in Nat : <<h, n>> \in refused => n \in 1 .. handed[h]

(* Nothing has happened before the recorder is started; nobody waits as    *)
(* long as Redis answers, and then calls only reach a recorder that runs.  *)
Phases ==
    /\ mainAt = "starts" =>
          /\ recording = FALSE /\ redis = "none" /\ stuck = {}
          /\ \A h \in Hands : handed[h] = 0
          /\ \A t \in Threads : calls[t] = Nothing
          /\ tape.trade = <<>> /\ tape.candle = {} /\ tape.rate = {} /\ tape.book = 0
    /\ redis \in {"up", "broken"} =>
          /\ stuck = {}
          /\ recording \/ \A t \in Threads : calls[t] = Nothing

Trades == Recorded(<<"market", "trade">>)
Rates == {<<n>> : n \in Recorded(<<"market", "rate">>)}
Candles == UNION {{<<n, t>> : n \in Recorded(<<t, "candle">>)} : t \in {"market", "batch"}}

TradesEnd ==
    /\ ToSet(tape.trade) \subseteq Trades
    /\ \A x \in ToSet(tape.trade), y \in Trades \ ToSet(tape.trade) : y < x
    /\ Len(tape.trade) = Fitting(Trades)

Downward == \A i, j \in 1 .. Len(tape.trade) : i < j => tape.trade[j] < tape.trade[i]

NoHoles ==
    \A i \in 2 .. Len(tape.trade) : \A n \in tape.trade[i] + 1 .. tape.trade[i - 1] - 1 :
        <<<<"market", "trade">>, n>> \in refused

Held ==
    /\ TradesEnd
    /\ tape.rate \in Highest(Rates)
    /\ tape.candle \in Highest(Candles)
    /\ \A n \in Recorded(<<"public", "book">>) : n =< tape.book

InRedis == redis \in {"up", "broken"} /\ recording => Held

TapeInv ==
    /\ TapeTypes /\ HandedOver /\ RefusedHanded /\ Phases
    /\ Downward /\ NoHoles /\ InRedis

-----------------------------------------------------------------------------
LEMMA HandFacts ==
  /\ Threads = {"public", "market", "batch"}
  /\ \A h \in Hands : h = <<h[1], h[2]>> /\ h[1] \in Threads /\ h[2] \in Kinds \ {"nothing"}
  /\ \A t \in Threads, k \in Kinds : <<t, k>> \in Hands => k # "nothing"
  /\ {<<"market", "trade">>, <<"market", "rate">>, <<"public", "book">>,
      <<"market", "candle">>, <<"batch", "candle">>} = Hands
  <1>1. Threads = {"public", "market", "batch"}
    BY DEF Threads, Hands
  <1>2. \A h \in Hands : h = <<h[1], h[2]>> /\ h[1] \in Threads /\ h[2] \in Kinds \ {"nothing"}
    BY <1>1 DEF Hands, Kinds
  <1>3. QED
    BY <1>1, <1>2 DEF Hands

(* What fits: all, or as many as there is room for. *)
LEMMA FittingIs ==
  ASSUME NEW S, IsFiniteSet(S)
  PROVE  Fitting(S) = IF Cardinality(S) =< Room THEN Cardinality(S) ELSE Room
  <1>1. Cardinality(S) \in Nat /\ Room \in Nat
    BY FS_CardinalityType, RedisTapeAssumption
  <1>2. QED
    BY <1>1 DEF Fitting, Min

(* Members that fit are all kept. *)
LEMMA HighestOfFitting ==
  ASSUME NEW S, IsFiniteSet(S), Cardinality(S) =< Room, NEW kept \in Highest(S)
  PROVE  kept = S
  <1>1. kept \subseteq S /\ Cardinality(kept) = Cardinality(S)
    BY FittingIs DEF Highest
  <1>2. QED
    BY <1>1, FS_Subset

LEMMA HighestSize ==
  ASSUME NEW S, IsFiniteSet(S), NEW kept \in Highest(S)
  PROVE  kept \subseteq S /\ IsFiniteSet(kept) /\ Cardinality(kept) \in Nat /\ Cardinality(kept) =< Room
  <1>1. kept \subseteq S /\ Cardinality(kept) = Fitting(S)
    BY DEF Highest
  <1>2. IsFiniteSet(kept) /\ Cardinality(S) \in Nat
    BY <1>1, FS_Subset, FS_CardinalityType
  <1>3. QED
    BY <1>1, <1>2, FittingIs, FS_CardinalityType, RedisTapeAssumption

(* What is kept of what was kept and one member more is what is kept of    *)
(* all of them.                                                            *)
LEMMA HighestAdds ==
  ASSUME NEW S, IsFiniteSet(S), NEW new, new \notin S,
         \A x \in S \cup {new} : x[1] \in Nat,
         NEW old \in Highest(S), NEW kept \in Highest(old \cup {new})
  PROVE  kept \in Highest(S \cup {new})
  <1> DEFINE a == Cardinality(S)  b == Cardinality(old)
  <1>1. a \in Nat /\ Room \in Nat /\ b \in Nat /\ IsFiniteSet(old) /\ old \subseteq S
    BY FS_CardinalityType, HighestSize, RedisTapeAssumption
  <1>2. b = IF a =< Room THEN a ELSE Room
    BY FittingIs DEF Highest
  <1>3. /\ IsFiniteSet(S \cup {new}) /\ Cardinality(S \cup {new}) = a + 1
        /\ IsFiniteSet(old \cup {new}) /\ Cardinality(old \cup {new}) = b + 1
    BY <1>1, FS_AddElement
  <1>4. Cardinality(kept) = IF b + 1 =< Room THEN b + 1 ELSE Room
    BY <1>3, FittingIs DEF Highest
  <1>5. Cardinality(kept) = Fitting(S \cup {new})
    <2>1. Fitting(S \cup {new}) = IF a + 1 =< Room THEN a + 1 ELSE Room
      BY <1>3, FittingIs
    <2>2. QED
      BY <1>1, <1>2, <1>4, <2>1
  <1>6. kept \subseteq old \cup {new} /\ kept \subseteq S \cup {new}
    BY <1>1 DEF Highest
  <1>7. ASSUME NEW x \in kept, NEW y \in (S \cup {new}) \ kept
        PROVE  y[1] =< x[1]
    <2>1. CASE y \in old \cup {new}
      BY <2>1, <1>7 DEF Highest
    <2>2. CASE y \in S \ old /\ x \in old
      BY <2>2 DEF Highest
    <2>3. CASE y \in S \ old /\ x = new
      <3>1. a # b
        BY <1>1, <2>3, FS_Subset
      <3>2. b = Room /\ Cardinality(kept) = Room
        BY <1>1, <1>2, <1>4, <3>1
      <3>3. kept # old \cup {new}
        <4>1. Cardinality(old \cup {new}) = Room + 1
          BY <1>3, <3>2
        <4>2. QED
          BY <1>1, <3>2, <4>1
      <3>4. PICK z \in old : z \notin kept
        BY <3>3, <2>3 DEF Highest
      <3>5. z[1] =< new[1]
        BY <3>4, <2>3 DEF Highest
      <3>6. y[1] =< z[1]
        BY <2>3, <3>4 DEF Highest
      <3>7. y[1] \in Nat /\ z[1] \in Nat /\ new[1] \in Nat
        BY <1>1, <2>3, <3>4
      <3>8. QED
        BY <2>3, <3>5, <3>6, <3>7
    <2>4. QED
      BY <1>6, <1>7, <2>1, <2>2, <2>3
  <1>8. QED
    BY <1>5, <1>6, <1>7 DEF Highest

(* What was recorded is finite, and older than what is being handed over.  *)
LEMMA RecordedFinite ==
  ASSUME TapeTypes, NEW h \in Hands
  PROVE  IsFiniteSet(Recorded(h)) /\ Recorded(h) \subseteq Nat /\ \A n \in Recorded(h) : n =< handed[h]
  <1>1. handed[h] \in Nat
    BY DEF TapeTypes
  <1>2. IsFiniteSet(1 .. handed[h]) /\ Recorded(h) \subseteq 1 .. handed[h]
    BY <1>1, FS_Interval DEF Recorded
  <1>3. QED
    BY <1>1, <1>2, FS_Subset

LEMMA RatesFinite == TapeTypes => IsFiniteSet(Rates) /\ \A x \in Rates : x[1] \in Nat
  <1> SUFFICES ASSUME TapeTypes
               PROVE  IsFiniteSet(Rates) /\ \A x \in Rates : x[1] \in Nat
    OBVIOUS
  <1> DEFINE R == Recorded(<<"market", "rate">>)
  <1>1. IsFiniteSet(R) /\ R \subseteq Nat
    BY HandFacts, RecordedFinite
  <1>2. Rates = {<<n>> : n \in R}
    BY DEF Rates
  <1> HIDE DEF R
  <1>3. IsFiniteSet(Rates)
    <2>1. [n \in R |-> <<n>>] \in Surjection(R, Rates)
      BY <1>2 DEF Surjection
    <2>2. QED
      BY <1>1, <2>1, FS_Surjection
  <1>4. QED
    BY <1>1, <1>2, <1>3

LEMMA CandlesFinite == TapeTypes => IsFiniteSet(Candles) /\ \A x \in Candles : x[1] \in Nat
  <1> SUFFICES ASSUME TapeTypes
               PROVE  IsFiniteSet(Candles) /\ \A x \in Candles : x[1] \in Nat
    OBVIOUS
  <1> DEFINE M == Recorded(<<"market", "candle">>)  B == Recorded(<<"batch", "candle">>)
             P == {<<n, "market">> : n \in M}  Q == {<<n, "batch">> : n \in B}
  <1>1. IsFiniteSet(M) /\ M \subseteq Nat /\ IsFiniteSet(B) /\ B \subseteq Nat
    BY HandFacts, RecordedFinite
  <1>2. Candles = P \cup Q
    BY DEF Candles
  <1>3. IsFiniteSet(P) /\ IsFiniteSet(Q)
    <2> HIDE DEF M, B
    <2>1. [n \in M |-> <<n, "market">>] \in Surjection(M, P) /\ [n \in B |-> <<n, "batch">>] \in Surjection(B, Q)
      BY DEF Surjection
    <2> HIDE DEF P, Q
    <2>2. QED
      BY <1>1, <2>1, FS_Surjection
  <1>4. IsFiniteSet(P \cup Q)
    BY <1>3, FS_Union
  <1>5. QED
    BY <1>1, <1>2, <1>4

(* Who hands a message over has recorded nothing new. *)
LEMMA HandsOverRecords ==
  ASSUME TapeTypes, recording, NEW h \in Hands, HandsOver(h), NEW g \in Hands
  PROVE  Recorded(g)' = Recorded(g)
  <1> DEFINE t == h[1]
  <1>1. /\ calls[t] = Nothing
        /\ handed' = [handed EXCEPT ![h] = @ + 1]
        /\ calls' = [calls EXCEPT ![t] = <<h[2], handed[h] + 1>>]
        /\ refused' = refused
    BY DEF HandsOver
  <1>2. t \in Threads /\ g = <<g[1], g[2]>> /\ h = <<h[1], h[2]>> /\ g[2] # "nothing"
    BY HandFacts
  <1>3. handed[g] \in Nat /\ handed[h] \in Nat
    BY DEF TapeTypes
  <1>4. CASE g = h
    <2>1. handed'[g] = handed[g] + 1 /\ calls'[g[1]] = <<g[2], handed[g] + 1>>
      BY <1>1, <1>2, <1>4 DEF TapeTypes
    <2>2. \A n \in Nat : calls[g[1]] # <<g[2], n>>
      BY <1>1, <1>2, <1>4 DEF Nothing
    <2>3. \A n \in Nat : n \in 1 .. handed[g] + 1 /\ calls'[g[1]] # <<g[2], n>> <=> n \in 1 .. handed[g]
      BY <1>3, <2>1
    <2>4. QED
      BY <1>1, <1>3, <2>1, <2>2, <2>3 DEF Recorded
  <1>5. CASE g # h
    <2>1. handed'[g] = handed[g]
      BY <1>1, <1>5 DEF TapeTypes
    <2>2. \A n \in Nat : calls[g[1]] = <<g[2], n>> <=> calls'[g[1]] = <<g[2], n>>
      <3>1. CASE g[1] = t
        <4>1. g[2] # h[2]
          BY <1>2, <1>5, <3>1
        <4>2. QED
          BY <1>1, <1>2, <3>1, <4>1 DEF Nothing, TapeTypes
      <3>2. CASE g[1] # t
        BY <1>1, <3>2 DEF TapeTypes
      <3>3. QED
        BY <3>1, <3>2
    <2>3. QED
      BY <1>1, <1>3, <2>1, <2>2 DEF Recorded
  <1>6. QED
    BY <1>4, <1>5

(* What is handed over is newer than what was recorded. *)
LEMMA CallFacts ==
  ASSUME TapeTypes, HandedOver, NEW t \in Threads, NEW kind \in Kinds \ {"nothing"}, calls[t][1] = kind
  PROVE  /\ <<t, kind>> \in Hands /\ calls[t] = <<kind, calls[t][2]>> /\ calls[t][2] \in Nat
         /\ calls[t][2] > 0 /\ calls[t][2] = handed[<<t, kind>>]
         /\ \A n \in Recorded(<<t, kind>>) : n < calls[t][2]
         /\ \A n \in Nat : <<<<t, kind>>, n>> \in refused => n < calls[t][2]
  <1>1. calls[t] \in Kinds \X Nat
    BY DEF TapeTypes
  <1>2. calls[t] = <<kind, calls[t][2]>> /\ calls[t][2] \in Nat
    BY <1>1
  <1>3. calls[t] # Nothing
    BY <1>2 DEF Nothing
  <1>4. <<t, kind>> \in Hands /\ calls[t][2] > 0 /\ calls[t][2] = handed[<<t, kind>>]
        /\ \A n \in Nat : <<<<t, kind>>, n>> \in refused => n < calls[t][2]
    BY <1>3 DEF HandedOver
  <1>5. \A n \in Recorded(<<t, kind>>) : n \in 1 .. handed[<<t, kind>>] /\ calls[t] # <<kind, n>>
    BY DEF Recorded
  <1>6. \A n \in Recorded(<<t, kind>>) : n < calls[t][2]
    BY <1>2, <1>4, <1>5
  <1>7. QED
    BY <1>2, <1>4, <1>6

(* Who returns without a refusal has recorded one message more. *)
LEMMA ReturnsRecords ==
  ASSUME TapeTypes, HandedOver, NEW t \in Threads, NEW kind \in Kinds \ {"nothing"}, calls[t][1] = kind,
         Returns(t), handed' = handed, refused' = refused, NEW g \in Hands
  PROVE  Recorded(g)' = IF g = <<t, kind>> THEN Recorded(g) \cup {calls[t][2]} ELSE Recorded(g)
  <1>1. /\ <<t, kind>> \in Hands /\ calls[t] = <<kind, calls[t][2]>> /\ calls[t][2] \in Nat
        /\ calls[t][2] > 0 /\ calls[t][2] = handed[<<t, kind>>]
        /\ \A n \in Nat : <<<<t, kind>>, n>> \in refused => n < calls[t][2]
    BY CallFacts
  <1>2. g = <<g[1], g[2]>> /\ g[2] # "nothing" /\ g[1] \in Threads /\ handed[g] \in Nat
    BY HandFacts DEF TapeTypes
  <1>3. calls'[t] = Nothing /\ \A u \in Threads \ {t} : calls'[u] = calls[u]
    BY DEF Returns, TapeTypes
  <1>4. \A n \in Nat : calls'[g[1]] # <<g[2], n>> <=> (calls[g[1]] # <<g[2], n>> \/ (g = <<t, kind>> /\ n = calls[t][2]))
    <2>1. CASE g[1] = t
      BY <1>1, <1>2, <1>3, <2>1 DEF Nothing
    <2>2. CASE g[1] # t
      <3>1. calls'[g[1]] = calls[g[1]] /\ g # <<t, kind>>
        BY <1>2, <1>3, <2>2
      <3>2. QED
        BY <3>1
    <2>3. QED
      BY <2>1, <2>2
  <1>5. g = <<t, kind>> => calls[t][2] \in 1 .. handed[g] /\ <<g, calls[t][2]>> \notin refused
    BY <1>1
  <1>6. Recorded(g)' = {n \in 1 .. handed[g] : <<g, n>> \notin refused /\ calls'[g[1]] # <<g[2], n>>}
    BY DEF Recorded
  <1>7. \A n \in 1 .. handed[g] : n \in Nat
    BY <1>2
  <1>8. QED
    BY <1>4, <1>5, <1>6, <1>7 DEF Recorded

(* ... with one it has not. *)
LEMMA RefusalRecords ==
  ASSUME TapeTypes, HandedOver, NEW t \in Threads, NEW kind \in Kinds \ {"nothing"}, calls[t][1] = kind,
         Returns(t), handed' = handed, refused' = refused \cup {<<<<t, kind>>, calls[t][2]>>}, NEW g \in Hands
  PROVE  Recorded(g)' = Recorded(g)
  <1>1. /\ <<t, kind>> \in Hands /\ calls[t] = <<kind, calls[t][2]>> /\ calls[t][2] \in Nat
    BY CallFacts
  <1>2. g = <<g[1], g[2]>> /\ g[2] # "nothing" /\ g[1] \in Threads /\ handed[g] \in Nat
    BY HandFacts DEF TapeTypes
  <1>3. calls'[t] = Nothing /\ \A u \in Threads \ {t} : calls'[u] = calls[u]
    BY DEF Returns, TapeTypes
  <1>4. \A n \in Nat : <<g, n>> \notin refused' /\ calls'[g[1]] # <<g[2], n>> <=> <<g, n>> \notin refused /\ calls[g[1]] # <<g[2], n>>
    <2>1. CASE g[1] = t
      BY <1>1, <1>2, <1>3, <2>1 DEF Nothing
    <2>2. CASE g[1] # t
      <3>1. calls'[g[1]] = calls[g[1]] /\ g # <<t, kind>>
        BY <1>2, <1>3, <2>2
      <3>2. QED
        BY <3>1
    <2>3. QED
      BY <2>1, <2>2
  <1>5. \A n \in 1 .. handed[g] : n \in Nat
    BY <1>2
  <1>6. QED
    BY <1>4, <1>5 DEF Recorded

-----------------------------------------------------------------------------
(* The list r is s with n in front, or the first part of it. *)
Pushed(r, s, n) ==
    /\ r \in Seq(Nat) /\ Len(r) \in 1 .. Len(s) + 1
    /\ r[1] = n /\ \A i \in 2 .. Len(r) : r[i] = s[i - 1]

LEMMA PushedOne ==
  ASSUME NEW s \in Seq(Nat), NEW n \in Nat
  PROVE  /\ Pushed(<<n>> \o s, s, n) /\ Len(<<n>> \o s) = Len(s) + 1
         /\ Len(s) + 1 > Room =>
               Pushed(SubSeq(<<n>> \o s, 1, Room), s, n) /\ Len(SubSeq(<<n>> \o s, 1, Room)) = Room
  <1> DEFINE r == <<n>> \o s  q == SubSeq(r, 1, Room)
  <1>1. Len(s) \in Nat /\ Room \in Nat /\ Room > 0
    BY RedisTapeAssumption
  <1>2. r \in Seq(Nat) /\ Len(r) = Len(s) + 1 /\ r[1] = n /\ \A i \in 2 .. Len(r) : r[i] = s[i - 1]
    OBVIOUS
  <1>3. ASSUME Len(s) + 1 > Room
        PROVE  Pushed(q, s, n) /\ Len(q) = Room
    <2> HIDE DEF r
    <2>1. q \in Seq(Nat) /\ Len(q) = Room /\ \A i \in 1 .. Room : q[i] = r[i]
      BY <1>1, <1>2, <1>3
    <2> HIDE DEF q
    <2>2. \A i \in 2 .. Room : i \in 2 .. Len(r) /\ i \in 1 .. Room
      BY <1>1, <1>2, <1>3
    <2>3. 1 \in 1 .. Room
      BY <1>1
    <2>4. QED
      BY <1>1, <1>2, <1>3, <2>1, <2>2, <2>3 DEF Pushed
  <1>4. Pushed(r, s, n)
    <2> HIDE DEF r
    <2>1. QED
      BY <1>1, <1>2 DEF Pushed
  <1>5. QED
    BY <1>2, <1>3, <1>4

(* What the commands make of a tape. *)
LEMMA PutTape ==
  ASSUME NEW t \in Threads, NEW kind \in Kinds \ {"nothing"}, NEW n \in Nat, tape \in Tapes
  PROVE  LET db == Put(t, kind, n) IN
         /\ db \in Tapes
         /\ db.trade = IF kind = "trade" THEN <<n>> \o tape.trade ELSE tape.trade
         /\ db.candle = IF kind = "candle" THEN tape.candle \cup {<<n, t>>} ELSE tape.candle
         /\ db.rate = IF kind = "rate" THEN tape.rate \cup {<<n>>} ELSE tape.rate
         /\ db.book = IF kind = "book" THEN n ELSE tape.book
  <1>1. CASE kind = "trade"
    <2>1. Put(t, kind, n) = [tape EXCEPT !.trade = <<n>> \o tape.trade]
      BY <1>1 DEF Put
    <2>2. <<n>> \o tape.trade \in Seq(Nat)
      BY DEF Tapes
    <2>3. QED
      BY <1>1, <2>1, <2>2 DEF Tapes
  <1>2. CASE kind = "candle"
    <2>1. Put(t, kind, n) = [tape EXCEPT !.candle = tape.candle \cup {<<n, t>>}]
      BY <1>2 DEF Put
    <2>2. tape.candle \cup {<<n, t>>} \in SUBSET (Nat \X Threads)
      BY DEF Tapes
    <2>3. QED
      BY <1>2, <2>1, <2>2 DEF Tapes
  <1>3. CASE kind = "rate"
    <2>1. Put(t, kind, n) = [tape EXCEPT !.rate = tape.rate \cup {<<n>>}]
      BY <1>3 DEF Put
    <2>2. tape.rate \cup {<<n>>} \in SUBSET {<<m>> : m \in Nat}
      BY DEF Tapes
    <2>3. QED
      BY <1>3, <2>1, <2>2 DEF Tapes
  <1>4. CASE kind = "book"
    BY <1>4 DEF Put, Tapes
  <1>5. QED
    BY <1>1, <1>2, <1>3, <1>4 DEF Kinds

LEMMA TrimmedTape ==
  ASSUME NEW db \in Tapes, NEW x \in Trims(db)
  PROVE  /\ x \in Tapes
         /\ x.trade = IF Len(db.trade) > Room THEN SubSeq(db.trade, 1, Room) ELSE db.trade
         /\ x.candle \in Highest(db.candle) /\ x.rate \in Highest(db.rate) /\ x.book = db.book
  <1>1. PICK c \in Highest(db.candle), r \in Highest(db.rate) : x = Cut(db, c, r)
    BY DEF Trims
  <1>2. /\ x.trade = IF Len(db.trade) > Room THEN SubSeq(db.trade, 1, Room) ELSE db.trade
        /\ x.candle = c /\ x.rate = r /\ x.book = db.book
    BY <1>1 DEF Cut, Tapes
  <1>3. c \subseteq Nat \X Threads /\ r \subseteq {<<n>> : n \in Nat} /\ db.trade \in Seq(Nat)
    BY DEF Highest, Tapes
  <1>4. (IF Len(db.trade) > Room THEN SubSeq(db.trade, 1, Room) ELSE db.trade) \in Seq(Nat)
    <2>1. Room \in Nat /\ Len(db.trade) \in Nat
      BY <1>3, RedisTapeAssumption
    <2>2. QED
      BY <1>3, <2>1
  <1>5. x \in Tapes
    BY <1>1, <1>3, <1>4 DEF Cut, Tapes
  <1>6. QED
    BY <1>2, <1>5

-----------------------------------------------------------------------------
(* A trade that is newer than the others goes in front of them, with no    *)
(* hole behind it but what Redis refused.                                  *)
LEMMA PushedKeeps ==
  ASSUME TapeTypes, HandedOver, RefusedHanded, Downward, NoHoles, TradesEnd,
         calls["market"][1] = "trade", Pushed(tape'.trade, tape.trade, calls["market"][2]),
         refused' = refused
  PROVE  Downward' /\ NoHoles'
  <1> DEFINE s == tape.trade  r == tape'.trade  n == calls["market"][2]  h == <<"market", "trade">>
  <1>1. /\ h \in Hands /\ n \in Nat /\ n = handed[h]
        /\ calls["market"] = <<"trade", n>>
        /\ \A k \in Trades : k < n
    BY HandFacts, CallFacts DEF Trades, Kinds
  <1>2. s \in Seq(Nat) /\ Len(s) \in Nat /\ DOMAIN s = 1 .. Len(s)
    BY DEF TapeTypes, Tapes
  <1>3. /\ r \in Seq(Nat) /\ Len(r) \in 1 .. Len(s) + 1
        /\ r[1] = n /\ \A i \in 2 .. Len(r) : r[i] = s[i - 1]
    BY DEF Pushed
  <1>4. ToSet(s) = {s[i] : i \in 1 .. Len(s)}
    BY <1>2 DEF ToSet
  <1>5. \A i \in 1 .. Len(s) : s[i] \in Nat /\ s[i] < n
    BY <1>1, <1>2, <1>4 DEF TradesEnd
  <1>6. Downward'
    <2>1. ASSUME NEW i \in 1 .. Len(r), NEW j \in 1 .. Len(r), i < j
          PROVE  r[j] < r[i]
      <3>1. j \in 2 .. Len(r) /\ j - 1 \in 1 .. Len(s)
        BY <1>2, <1>3, <2>1
      <3>2. CASE i = 1
        BY <1>3, <1>5, <3>1, <3>2
      <3>3. CASE i # 1
        <4>1. i \in 2 .. Len(r) /\ i - 1 \in 1 .. Len(s) /\ i - 1 < j - 1
          BY <1>2, <1>3, <2>1, <3>3
        <4>2. QED
          BY <1>3, <3>1, <4>1 DEF Downward
      <3>4. QED
        BY <3>2, <3>3
    <2>2. QED
      BY <2>1 DEF Downward
  <1>7. NoHoles'
    <2>1. ASSUME NEW i \in 2 .. Len(r), NEW k \in r[i] + 1 .. r[i - 1] - 1
          PROVE  <<h, k>> \in refused
      <3>1. i - 1 \in 1 .. Len(s) /\ r[i] = s[i - 1] /\ i \in Nat
        BY <1>2, <1>3
      <3>2. CASE i = 2
        <4>1. k \in 1 .. n - 1 /\ s[1] < k /\ k \in Nat
          <5>1. r[i] = s[1] /\ r[i - 1] = n /\ s[1] \in Nat
            BY <1>3, <1>5, <3>1, <3>2
          <5>2. QED
            BY <1>1, <2>1, <5>1
        <4>2. k \notin ToSet(s)
          <5>1. ASSUME NEW j \in 1 .. Len(s), s[j] = k
                PROVE  FALSE
            <6>1. j = 1 \/ (1 \in 1 .. Len(s) /\ 1 < j)
              BY <1>2
            <6>2. j = 1 \/ s[j] < s[1]
              BY <6>1 DEF Downward
            <6>3. QED
              BY <1>5, <3>1, <3>2, <4>1, <5>1, <6>2
          <5>2. QED
            BY <1>4, <5>1
        <4>3. k \notin Trades
          <5>1. s[1] \in ToSet(s)
            BY <1>4, <3>1, <3>2
          <5>2. QED
            BY <1>5, <3>1, <3>2, <4>1, <4>2, <5>1 DEF TradesEnd
        <4>4. k \in 1 .. handed[h] /\ calls["market"] # <<"trade", k>>
          BY <1>1, <4>1
        <4>5. QED
          BY <4>3, <4>4 DEF Trades, Recorded
      <3>3. CASE i # 2
        <4>1. i - 1 \in 2 .. Len(r) /\ i - 1 \in 2 .. Len(s)
          <5>1. Len(r) \in Nat /\ i =< Len(r) /\ i - 1 =< Len(s) /\ i - 1 >= 2
            BY <1>2, <1>3, <3>1, <3>3
          <5>2. QED
            BY <1>2, <3>1, <5>1
        <4>2. k \in s[i - 1] + 1 .. s[(i - 1) - 1] - 1
          <5>1. r[i - 1] = s[(i - 1) - 1]
            BY <1>3, <4>1
          <5>2. QED
            BY <2>1, <3>1, <5>1
        <4>3. QED
          BY <4>1, <4>2 DEF NoHoles
      <3>4. QED
        BY <3>2, <3>3
    <2>2. QED
      BY <2>1 DEF NoHoles
  <1>8. QED
    BY <1>6, <1>7

(* ... and the newest of all trades are kept. *)
LEMMA PushedEnds ==
  ASSUME TapeTypes, HandedOver, Downward, TradesEnd,
         calls["market"][1] = "trade", Pushed(tape'.trade, tape.trade, calls["market"][2]),
         Len(tape'.trade) = (IF Len(tape.trade) + 1 > Room THEN Room ELSE Len(tape.trade) + 1),
         Trades' = Trades \cup {calls["market"][2]}
  PROVE  TradesEnd'
  <1> DEFINE s == tape.trade  r == tape'.trade  n == calls["market"][2]
  <1>1. n \in Nat /\ (\A k \in Trades : k < n) /\ IsFiniteSet(Trades) /\ Trades \subseteq Nat
    BY HandFacts, CallFacts, RecordedFinite DEF Trades, Kinds
  <1>2. s \in Seq(Nat) /\ Len(s) \in Nat /\ DOMAIN s = 1 .. Len(s)
    BY DEF TapeTypes, Tapes
  <1>3. /\ r \in Seq(Nat) /\ Len(r) \in 1 .. Len(s) + 1 /\ DOMAIN r = 1 .. Len(r)
        /\ r[1] = n /\ \A i \in 2 .. Len(r) : r[i] = s[i - 1]
    BY DEF Pushed
  <1>4. ToSet(s) = {s[i] : i \in 1 .. Len(s)} /\ ToSet(r) = {r[i] : i \in 1 .. Len(r)}
    BY <1>2, <1>3 DEF ToSet
  <1>5. \A i \in 1 .. Len(s) : s[i] \in Trades
    BY <1>4 DEF TradesEnd
  <1>6. \A i \in 2 .. Len(r) : i - 1 \in 1 .. Len(s) /\ r[i] = s[i - 1]
    BY <1>2, <1>3
  <1>7. ToSet(r) \subseteq Trades'
    <2>1. ASSUME NEW i \in 1 .. Len(r)
          PROVE  r[i] \in Trades \cup {n}
      <3>1. i = 1 \/ i \in 2 .. Len(r)
        BY <1>3
      <3>2. QED
        BY <1>3, <1>5, <1>6, <3>1
    <2>2. QED
      BY <1>4, <2>1
  <1>8. ASSUME NEW x \in ToSet(r), NEW y \in (Trades \cup {n}) \ ToSet(r)
        PROVE  y < x
    <2>1. PICK i \in 1 .. Len(r) : x = r[i]
      BY <1>4
    <2>2. y \in Trades /\ y < n
      <3>1. n \in ToSet(r)
        BY <1>3, <1>4
      <3>2. QED
        BY <1>1, <3>1
    <2>3. CASE i = 1
      BY <1>3, <2>1, <2>2, <2>3
    <2>4. CASE i # 1
      <3>1. i \in 2 .. Len(r) /\ i - 1 \in 1 .. Len(s) /\ x = s[i - 1]
        BY <1>3, <1>6, <2>1, <2>4
      <3>2. CASE y \notin ToSet(s)
        BY <1>4, <2>2, <3>1, <3>2 DEF TradesEnd
      <3>3. CASE y \in ToSet(s)
        <4>1. PICK j \in 1 .. Len(s) : y = s[j]
          BY <1>4, <3>3
        <4>2. j + 1 \notin 2 .. Len(r)
          <5>1. ASSUME j + 1 \in 2 .. Len(r)
                PROVE  FALSE
            <6>1. r[j + 1] = s[(j + 1) - 1] /\ (j + 1) - 1 = j /\ j + 1 \in 1 .. Len(r)
              BY <1>3, <5>1
            <6>2. QED
              BY <1>4, <1>8, <4>1, <6>1
          <5>2. QED
            BY <5>1
        <4>3. i - 1 < j
          BY <1>2, <1>3, <3>1, <4>2
        <4>4. QED
          BY <3>1, <4>1, <4>3 DEF Downward
      <3>4. QED
        BY <3>2, <3>3
    <2>5. QED
      BY <2>3, <2>4
  <1>9. Len(r) = Fitting(Trades')
    <2>1. Len(s) = (IF Cardinality(Trades) =< Room THEN Cardinality(Trades) ELSE Room) /\ Cardinality(Trades) \in Nat
      BY <1>1, FittingIs, FS_CardinalityType DEF TradesEnd
    <2>2. IsFiniteSet(Trades \cup {n}) /\ Cardinality(Trades \cup {n}) = Cardinality(Trades) + 1
      <3>1. n \notin Trades
        BY <1>1
      <3>2. QED
        BY <1>1, <3>1, FS_AddElement
    <2>3. Fitting(Trades \cup {n}) = IF Cardinality(Trades) + 1 =< Room THEN Cardinality(Trades) + 1 ELSE Room
      BY <2>2, FittingIs
    <2>4. Room \in Nat
      BY RedisTapeAssumption
    <2> HIDE DEF s, r, n
    <2>5. Fitting(Trades') = Fitting(Trades \cup {n})
      BY DEF n
    <2>6. Len(r) = (IF Len(s) + 1 > Room THEN Room ELSE Len(s) + 1)
      BY DEF r, s
    <2>7. QED
      BY <2>1, <2>3, <2>4, <2>5, <2>6
  <1>10. Fitting(Trades)' = Fitting(Trades')
    BY DEF Fitting
  <1>11. QED
    BY <1>7, <1>8, <1>9, <1>10 DEF TradesEnd

-----------------------------------------------------------------------------
(* Steps that leave the tape and what is handed over alone. *)
LEMMA TapeStill ==
  ASSUME HandedOver, RefusedHanded, Downward, NoHoles, UNCHANGED <<calls, tape, handed, refused>>
  PROVE  /\ HandedOver' /\ RefusedHanded' /\ Downward' /\ NoHoles' /\ (Held' <=> Held)
  <1>1. HandedOver' /\ RefusedHanded' /\ Downward' /\ NoHoles'
    BY DEF HandedOver, RefusedHanded, Downward, NoHoles
  <1>2. Held' <=> Held
    BY DEF Held, TradesEnd, Trades, Rates, Candles, Recorded, Fitting, Highest
  <1>3. QED
    BY <1>1, <1>2

LEMMA HandsOverKeeps ==
  ASSUME TapeInv, NEW h \in Hands, HandsOver(h)
  PROVE  TapeInv'
  <1> DEFINE t == h[1]
  <1>1. /\ TapeTypes /\ HandedOver /\ RefusedHanded /\ Phases /\ Downward /\ NoHoles /\ InRedis
        /\ h = <<h[1], h[2]>> /\ t \in Threads /\ h[2] \in Kinds \ {"nothing"}
        /\ handed[h] \in Nat /\ handed \in [Hands -> Nat] /\ calls \in [Threads -> Kinds \X Nat]
    BY HandFacts DEF TapeInv, TapeTypes
  <1>2. /\ mainAt # "starts" /\ calls[t] = Nothing
        /\ handed' = [handed EXCEPT ![h] = @ + 1]
        /\ UNCHANGED <<mainAt, recording, redis, stuck, tape>>
    BY DEF HandsOver
  <1>3. \/ recording /\ calls' = [calls EXCEPT ![t] = <<h[2], handed[h] + 1>>] /\ refused' = refused
        \/ ~ recording /\ refused' = refused \cup {<<h, handed[h] + 1>>} /\ calls' = calls
    BY DEF HandsOver
  <1>4. handed' \in [Hands -> Nat] /\ handed'[h] = handed[h] + 1 /\ \A g \in Hands \ {h} : handed'[g] = handed[g]
    BY <1>1, <1>2
  <1>5. calls' \in [Threads -> Kinds \X Nat] /\ \A u \in Threads \ {t} : calls'[u] = calls[u]
    BY <1>1, <1>3
  <1>6. calls'[t] = Nothing \/ (calls'[t] = <<h[2], handed[h] + 1>> /\ refused' = refused)
    BY <1>1, <1>2, <1>3
  <1>7. \A g \in Hands, n \in Nat : <<g, n>> \in refused' => <<g, n>> \in refused \/ (g = h /\ n = handed[h] + 1)
    BY <1>3
  <1>8. TapeTypes'
    <2>1. refused' \subseteq Hands \X Nat
      BY <1>1, <1>3 DEF TapeTypes
    <2>2. QED
      BY <1>1, <1>2, <1>4, <1>5, <2>1 DEF TapeTypes
  <1>9. HandedOver'
    <2>1. ASSUME NEW u \in Threads, calls'[u] # Nothing
          PROVE  /\ <<u, calls'[u][1]>> \in Hands
                 /\ calls'[u][2] = handed'[<<u, calls'[u][1]>>] /\ calls'[u][2] > 0
                 /\ \A n \in Nat : <<<<u, calls'[u][1]>>, n>> \in refused' => n < calls'[u][2]
      <3>1. CASE u = t
        <4>1. calls'[u] = <<h[2], handed[h] + 1>> /\ refused' = refused /\ <<u, calls'[u][1]>> = h
          BY <1>1, <1>6, <2>1, <3>1
        <4>2. \A n \in Nat : <<h, n>> \in refused' => n < handed[h] + 1
          <5>1. ASSUME NEW n \in Nat, <<h, n>> \in refused
                PROVE  n < handed[h] + 1
            <6>1. n \in 1 .. handed[h]
              BY <1>1, <5>1 DEF RefusedHanded
            <6>2. QED
              BY <1>1, <6>1
          <5>2. QED
            BY <4>1, <5>1
        <4>3. QED
          BY <1>1, <1>4, <4>1, <4>2
      <3>2. CASE u # t
        <4>1. calls'[u] = calls[u] /\ <<u, calls[u][1]>> \in Hands /\ <<u, calls[u][1]>> # h
          BY <1>1, <1>5, <2>1, <3>2 DEF HandedOver
        <4>2. \A n \in Nat : <<<<u, calls[u][1]>>, n>> \in refused' => <<<<u, calls[u][1]>>, n>> \in refused
          BY <1>7, <4>1
        <4>3. QED
          BY <1>1, <1>4, <2>1, <4>1, <4>2 DEF HandedOver
      <3>3. QED
        BY <3>1, <3>2
    <2>2. QED
      BY <2>1 DEF HandedOver
  <1>10. RefusedHanded'
    <2>1. ASSUME NEW g \in Hands, NEW n \in Nat, <<g, n>> \in refused'
          PROVE  n \in 1 .. handed'[g]
      <3>1. handed[g] \in Nat /\ (n \in 1 .. handed[g] \/ (g = h /\ n = handed[h] + 1))
        BY <1>1, <1>7, <2>1 DEF RefusedHanded
      <3>2. QED
        BY <1>4, <3>1
    <2>2. QED
      BY <2>1 DEF RefusedHanded
  <1>11. Phases'
    <2>1. redis \in {"up", "broken"} => stuck = {} /\ (recording \/ \A u \in Threads : calls'[u] = Nothing)
      BY <1>1, <1>3 DEF Phases
    <2>2. QED
      BY <1>2, <2>1 DEF Phases
  <1>12. Downward' /\ NoHoles'
    BY <1>1, <1>2, <1>3 DEF Downward, NoHoles
  <1>13. InRedis'
    <2>1. ASSUME recording, Held
          PROVE  Held'
      <3>1. \A g \in Hands : Recorded(g)' = Recorded(g)
        BY <1>1, <2>1, HandsOverRecords
      <3>2. Trades' = Trades /\ Rates' = Rates /\ Candles' = Candles
            /\ Recorded(<<"public", "book">>)' = Recorded(<<"public", "book">>)
        <4>1. Recorded(<<"market", "trade">>)' = Recorded(<<"market", "trade">>)
              /\ Recorded(<<"market", "rate">>)' = Recorded(<<"market", "rate">>)
              /\ Recorded(<<"market", "candle">>)' = Recorded(<<"market", "candle">>)
              /\ Recorded(<<"batch", "candle">>)' = Recorded(<<"batch", "candle">>)
              /\ Recorded(<<"public", "book">>)' = Recorded(<<"public", "book">>)
          BY <3>1, HandFacts
        <4>2. Candles = {<<n, "market">> : n \in Recorded(<<"market", "candle">>)} \cup {<<n, "batch">> : n \in Recorded(<<"batch", "candle">>)}
          BY DEF Candles
        <4>3. Candles' = {<<n, "market">> : n \in Recorded(<<"market", "candle">>)'} \cup {<<n, "batch">> : n \in Recorded(<<"batch", "candle">>)'}
          BY DEF Candles
        <4>4. QED
          BY <4>1, <4>2, <4>3 DEF Trades, Rates
      <3>3. QED
        BY <1>2, <2>1, <3>2 DEF Held, TradesEnd, Fitting, Highest
    <2>2. QED
      BY <1>1, <1>2, <2>1 DEF InRedis
  <1>14. QED
    BY <1>8, <1>9, <1>10, <1>11, <1>12, <1>13 DEF TapeInv

LEMMA ReturnsKeeps ==
  ASSUME TapeInv, NEW t \in Threads, NEW kind \in Kinds \ {"nothing"}, calls[t][1] = kind,
         Returns(t), handed' = handed,
         refused' = refused \/ refused' = refused \cup {<<<<t, kind>>, calls[t][2]>>}
  PROVE  /\ calls' \in [Threads -> Kinds \X Nat] /\ refused' \subseteq Hands \X Nat
         /\ HandedOver' /\ RefusedHanded'
  <1>1. /\ TapeTypes /\ HandedOver /\ RefusedHanded
        /\ calls \in [Threads -> Kinds \X Nat] /\ refused \subseteq Hands \X Nat /\ handed \in [Hands -> Nat]
    BY DEF TapeInv, TapeTypes
  <1>2. /\ <<t, kind>> \in Hands /\ calls[t] = <<kind, calls[t][2]>> /\ calls[t][2] \in Nat
        /\ calls[t][2] > 0 /\ calls[t][2] = handed[<<t, kind>>]
    BY <1>1, CallFacts
  <1>3. calls' = [calls EXCEPT ![t] = Nothing] /\ Nothing \in Kinds \X Nat
    BY DEF Returns, Nothing, Kinds
  <1>4. calls' \in [Threads -> Kinds \X Nat] /\ calls'[t] = Nothing /\ \A u \in Threads \ {t} : calls'[u] = calls[u]
    BY <1>1, <1>3
  <1>5. refused' \subseteq Hands \X Nat
    BY <1>1, <1>2
  <1>6. \A g \in Hands, n \in Nat : <<g, n>> \in refused' => <<g, n>> \in refused \/ (g = <<t, kind>> /\ n = calls[t][2])
    OBVIOUS
  <1>7. HandedOver'
    <2>1. ASSUME NEW u \in Threads, calls'[u] # Nothing
          PROVE  /\ <<u, calls'[u][1]>> \in Hands
                 /\ calls'[u][2] = handed'[<<u, calls'[u][1]>>] /\ calls'[u][2] > 0
                 /\ \A n \in Nat : <<<<u, calls'[u][1]>>, n>> \in refused' => n < calls'[u][2]
      <3>1. calls'[u] = calls[u] /\ u # t /\ <<u, calls[u][1]>> # <<t, kind>>
        BY <1>4, <2>1
      <3>2. QED
        BY <1>1, <1>6, <2>1, <3>1 DEF HandedOver
    <2>2. QED
      BY <2>1 DEF HandedOver
  <1>8. RefusedHanded'
    <2>1. ASSUME NEW g \in Hands, NEW n \in Nat, <<g, n>> \in refused'
          PROVE  n \in 1 .. handed[g]
      BY <1>1, <1>2, <1>6, <2>1 DEF RefusedHanded
    <2>2. QED
      BY <2>1 DEF RefusedHanded
  <1>9. QED
    BY <1>4, <1>5, <1>7, <1>8

(* What the commands of a message that Redis takes make of the tape. *)
LEMMA StoredKeeps ==
  ASSUME TapeInv, Held, NEW t \in Threads, NEW kind \in Kinds \ {"nothing"}, calls[t][1] = kind,
         refused' = refused, tape' \in Trims(Put(t, kind, calls[t][2]))
  PROVE  /\ tape' \in Tapes /\ Downward' /\ NoHoles'
         /\ Returns(t) /\ handed' = handed => Held'
  <1> DEFINE n == calls[t][2]  db == Put(t, kind, n)  h == <<t, kind>>
  <1>1. /\ TapeTypes /\ HandedOver /\ RefusedHanded /\ Downward /\ NoHoles /\ tape \in Tapes
    BY DEF TapeInv, TapeTypes
  <1>2. /\ h \in Hands /\ n \in Nat /\ (\A k \in Recorded(h) : k < n)
    BY <1>1, CallFacts
  <1>3. /\ db \in Tapes
        /\ db.trade = IF kind = "trade" THEN <<n>> \o tape.trade ELSE tape.trade
        /\ db.candle = IF kind = "candle" THEN tape.candle \cup {<<n, t>>} ELSE tape.candle
        /\ db.rate = IF kind = "rate" THEN tape.rate \cup {<<n>>} ELSE tape.rate
        /\ db.book = IF kind = "book" THEN n ELSE tape.book
    BY <1>1, <1>2, PutTape
  <1>4. /\ tape' \in Tapes
        /\ tape'.trade = IF Len(db.trade) > Room THEN SubSeq(db.trade, 1, Room) ELSE db.trade
        /\ tape'.candle \in Highest(db.candle) /\ tape'.rate \in Highest(db.rate) /\ tape'.book = db.book
    BY <1>3, TrimmedTape
  <1>5. /\ IsFiniteSet(Rates) /\ (\A x \in Rates : x[1] \in Nat)
        /\ IsFiniteSet(Candles) /\ (\A x \in Candles : x[1] \in Nat)
        /\ IsFiniteSet(Trades) /\ Trades \subseteq Nat
    BY <1>1, RatesFinite, CandlesFinite, RecordedFinite, HandFacts DEF Trades
  <1>6. /\ TradesEnd /\ tape.rate \in Highest(Rates) /\ tape.candle \in Highest(Candles)
        /\ \A k \in Recorded(<<"public", "book">>) : k =< tape.book
    BY DEF Held
  <1>7. kind = "trade" => t = "market"
    BY <1>2 DEF Hands
  <1>8. /\ tape.trade \in Seq(Nat) /\ Len(tape.trade) \in Nat /\ Room \in Nat /\ Len(tape.trade) =< Room
    <2>1. tape.trade \in Seq(Nat) /\ Len(tape.trade) \in Nat /\ Room \in Nat
      BY <1>1, RedisTapeAssumption DEF Tapes
    <2>2. Len(tape.trade) = IF Cardinality(Trades) =< Room THEN Cardinality(Trades) ELSE Room
      BY <1>5, <1>6, FittingIs DEF TradesEnd
    <2>3. QED
      BY <1>5, <2>1, <2>2, FS_CardinalityType
  <1>9. kind # "trade" => tape'.trade = tape.trade
    BY <1>3, <1>4, <1>8
  <1>10. kind = "trade" => /\ Pushed(tape'.trade, tape.trade, n)
                          /\ Len(tape'.trade) = IF Len(tape.trade) + 1 > Room THEN Room ELSE Len(tape.trade) + 1
    BY <1>2, <1>3, <1>4, <1>8, PushedOne
  <1>11. Downward' /\ NoHoles'
    <2>1. CASE kind = "trade"
      BY <1>1, <1>6, <1>7, <1>10, <2>1, PushedKeeps
    <2>2. CASE kind # "trade"
      BY <1>1, <1>9, <2>2 DEF Downward, NoHoles
    <2>3. QED
      BY <2>1, <2>2
  <1>12. ASSUME Returns(t), handed' = handed
         PROVE  Held'
    <2>1. \A g \in Hands : Recorded(g)' = IF g = h THEN Recorded(g) \cup {n} ELSE Recorded(g)
      BY <1>1, <1>12, ReturnsRecords
    <2>2. TradesEnd'
      <3>1. Trades' = IF kind = "trade" THEN Trades \cup {n} ELSE Trades
        BY <1>7, <2>1, HandFacts DEF Trades
      <3>2. CASE kind = "trade"
        BY <1>1, <1>6, <1>7, <1>10, <3>1, <3>2, PushedEnds
      <3>3. CASE kind # "trade"
        <4>1. Trades' = Trades /\ tape'.trade = tape.trade
          BY <1>9, <3>1, <3>3
        <4>2. QED
          BY <1>6, <4>1 DEF TradesEnd, Fitting
      <3>4. QED
        BY <3>2, <3>3
    <2>3. (tape.rate \in Highest(Rates))'
      <3>1. CASE kind = "rate"
        <4>1. t = "market"
          BY <1>2, <3>1 DEF Hands
        <4>2. Rates' = Rates \cup {<<n>>} /\ <<n>> \notin Rates
          <5>1. Recorded(<<"market", "rate">>)' = Recorded(<<"market", "rate">>) \cup {n} /\ n \notin Recorded(<<"market", "rate">>)
            BY <1>2, <2>1, <3>1, <4>1
          <5>2. QED
            BY <5>1 DEF Rates
        <4>3. tape'.rate \in Highest(tape.rate \cup {<<n>>})
          BY <1>3, <1>4, <3>1
        <4>4. \A x \in Rates \cup {<<n>>} : x[1] \in Nat
          BY <1>2, <1>5
        <4>5. tape'.rate \in Highest(Rates \cup {<<n>>})
          BY <1>5, <1>6, <4>2, <4>3, <4>4, HighestAdds
        <4>6. QED
          BY <4>2, <4>5 DEF Highest, Fitting
      <3>2. CASE kind # "rate"
        <4>1. Recorded(<<"market", "rate">>)' = Recorded(<<"market", "rate">>)
          BY <2>1, <3>2, HandFacts
        <4>2. Rates' = Rates
          BY <4>1 DEF Rates
        <4>3. tape'.rate = tape.rate
          BY <1>3, <1>4, <1>5, <1>6, <3>2, HighestSize, HighestOfFitting
        <4>4. QED
          BY <1>6, <4>2, <4>3 DEF Highest, Fitting
      <3>3. QED
        BY <3>1, <3>2
    <2>4. (tape.candle \in Highest(Candles))'
      <3>1. /\ Candles = {<<k, "market">> : k \in Recorded(<<"market", "candle">>)} \cup {<<k, "batch">> : k \in Recorded(<<"batch", "candle">>)}
            /\ Candles' = {<<k, "market">> : k \in Recorded(<<"market", "candle">>)'} \cup {<<k, "batch">> : k \in Recorded(<<"batch", "candle">>)'}
        BY DEF Candles
      <3>2. CASE kind = "candle"
        <4>1. t \in {"market", "batch"}
          BY <1>2, <3>2 DEF Hands
        <4>2. Candles' = Candles \cup {<<n, t>>} /\ <<n, t>> \notin Candles
          <5>1. /\ Recorded(<<"market", "candle">>)' = IF t = "market" THEN Recorded(<<"market", "candle">>) \cup {n} ELSE Recorded(<<"market", "candle">>)
                /\ Recorded(<<"batch", "candle">>)' = IF t = "batch" THEN Recorded(<<"batch", "candle">>) \cup {n} ELSE Recorded(<<"batch", "candle">>)
            BY <2>1, <3>2, HandFacts
          <5>2. n \notin Recorded(<<t, "candle">>)
            BY <1>2, <3>2
          <5>3. QED
            BY <3>1, <4>1, <5>1, <5>2
        <4>3. tape'.candle \in Highest(tape.candle \cup {<<n, t>>})
          BY <1>3, <1>4, <3>2
        <4>4. \A x \in Candles \cup {<<n, t>>} : x[1] \in Nat
          BY <1>2, <1>5
        <4>5. tape'.candle \in Highest(Candles \cup {<<n, t>>})
          BY <1>5, <1>6, <4>2, <4>3, <4>4, HighestAdds
        <4>6. QED
          BY <4>2, <4>5 DEF Highest, Fitting
      <3>3. CASE kind # "candle"
        <4>1. Recorded(<<"market", "candle">>)' = Recorded(<<"market", "candle">>) /\ Recorded(<<"batch", "candle">>)' = Recorded(<<"batch", "candle">>)
          BY <2>1, <3>3, HandFacts
        <4>2. Candles' = Candles
          BY <3>1, <4>1
        <4>3. tape'.candle = tape.candle
          BY <1>3, <1>4, <1>5, <1>6, <3>3, HighestSize, HighestOfFitting
        <4>4. QED
          BY <1>6, <4>2, <4>3 DEF Highest, Fitting
      <3>4. QED
        BY <3>2, <3>3
    <2>5. \A k \in Recorded(<<"public", "book">>)' : k =< tape'.book
      <3>1. CASE kind = "book"
        <4>1. t = "public"
          BY <1>2, <3>1 DEF Hands
        <4>2. Recorded(<<"public", "book">>)' = Recorded(<<"public", "book">>) \cup {n}
          BY <1>2, <2>1, <3>1, <4>1
        <4>3. Recorded(<<"public", "book">>) \subseteq Nat /\ tape'.book = n
          BY <1>1, <1>3, <1>4, <3>1, HandFacts, RecordedFinite
        <4>4. QED
          BY <1>2, <3>1, <4>1, <4>2, <4>3
      <3>2. CASE kind # "book"
        <4>1. Recorded(<<"public", "book">>)' = Recorded(<<"public", "book">>) /\ tape'.book = tape.book
          BY <1>3, <1>4, <2>1, <3>2, HandFacts
        <4>2. QED
          BY <1>6, <4>1
      <3>3. QED
        BY <3>1, <3>2
    <2>6. QED
      BY <2>2, <2>3, <2>4, <2>5 DEF Held
  <1>13. QED
    BY <1>4, <1>11, <1>12

LEMMA RecordsKeeps ==
  ASSUME TapeInv, NEW t \in Threads, NEW kind \in Kinds \ {"nothing"}, Records(t, kind)
  PROVE  TapeInv'
  <1> DEFINE n == calls[t][2]  db == Put(t, kind, n)
  <1>1. /\ TapeTypes /\ HandedOver /\ RefusedHanded /\ Phases /\ Downward /\ NoHoles /\ InRedis /\ tape \in Tapes
        /\ calls[t][1] = kind /\ calls[t] # Nothing /\ stuck = {}
        /\ handed' = handed /\ mainAt' = mainAt /\ recording' = recording
    BY DEF TapeInv, TapeTypes, Records, StaysAs, Nothing
  <1>2. /\ <<t, kind>> \in Hands /\ n \in Nat
    BY <1>1, CallFacts
  <1>3. redis \in {"up", "broken"} => recording /\ Held
    BY <1>1 DEF Phases, InRedis
  <1>4. mainAt # "starts"
    BY <1>1 DEF Phases
  <1>5. CASE redis = "up" /\ tape' \in Trims(db) /\ Returns(t) /\ UNCHANGED <<redis, stuck, refused>>
    <2>1. /\ calls' \in [Threads -> Kinds \X Nat] /\ refused' \subseteq Hands \X Nat
          /\ HandedOver' /\ RefusedHanded'
      BY <1>1, <1>5, ReturnsKeeps
    <2>2. tape' \in Tapes /\ Downward' /\ NoHoles' /\ Held'
      BY <1>1, <1>3, <1>5, StoredKeeps
    <2>3. TapeTypes'
      BY <1>1, <1>5, <2>1, <2>2 DEF TapeTypes
    <2>4. Phases' /\ InRedis'
      BY <1>1, <1>3, <1>4, <1>5, <2>2 DEF Phases, InRedis
    <2>5. QED
      BY <2>1, <2>2, <2>3, <2>4 DEF TapeInv
  <1>6. CASE /\ redis = "up" /\ refused' = refused \cup {<<<<t, kind>>, n>>}
             /\ Returns(t) /\ UNCHANGED <<redis, stuck, tape>>
    <2>1. /\ calls' \in [Threads -> Kinds \X Nat] /\ refused' \subseteq Hands \X Nat
          /\ HandedOver' /\ RefusedHanded'
      BY <1>1, <1>6, ReturnsKeeps
    <2>2. Downward' /\ NoHoles'
      BY <1>1, <1>6 DEF Downward, NoHoles
    <2>3. Held'
      <3>1. /\ Recorded(<<"market", "trade">>)' = Recorded(<<"market", "trade">>)
            /\ Recorded(<<"market", "rate">>)' = Recorded(<<"market", "rate">>)
            /\ Recorded(<<"market", "candle">>)' = Recorded(<<"market", "candle">>)
            /\ Recorded(<<"batch", "candle">>)' = Recorded(<<"batch", "candle">>)
            /\ Recorded(<<"public", "book">>)' = Recorded(<<"public", "book">>)
        BY <1>1, <1>6, RefusalRecords, HandFacts
      <3>2. /\ Candles = {<<k, "market">> : k \in Recorded(<<"market", "candle">>)} \cup {<<k, "batch">> : k \in Recorded(<<"batch", "candle">>)}
            /\ Candles' = {<<k, "market">> : k \in Recorded(<<"market", "candle">>)'} \cup {<<k, "batch">> : k \in Recorded(<<"batch", "candle">>)'}
        BY DEF Candles
      <3>3. Trades' = Trades /\ Rates' = Rates /\ Candles' = Candles
        BY <3>1, <3>2 DEF Trades, Rates
      <3>4. QED
        BY <1>3, <1>6, <3>1, <3>3 DEF Held, TradesEnd, Fitting, Highest
    <2>4. TapeTypes'
      BY <1>1, <1>6, <2>1 DEF TapeTypes
    <2>5. Phases' /\ InRedis'
      BY <1>1, <1>3, <1>4, <1>6, <2>3 DEF Phases, InRedis
    <2>6. QED
      BY <2>1, <2>2, <2>4, <2>5 DEF TapeInv
  <1>7. CASE /\ redis = "broken" /\ tape' \in {tape, db} \cup Trims(db)
             /\ redis' = "lost" /\ Returns(t) /\ UNCHANGED <<stuck, refused>>
    <2>1. /\ calls' \in [Threads -> Kinds \X Nat] /\ refused' \subseteq Hands \X Nat
          /\ HandedOver' /\ RefusedHanded'
      BY <1>1, <1>7, ReturnsKeeps
    <2>2. tape' \in Tapes /\ Downward' /\ NoHoles'
      <3>1. CASE tape' = tape
        BY <1>1, <1>7, <3>1 DEF Downward, NoHoles
      <3>2. CASE tape' = db
        <4>1. db \in Tapes /\ db.trade = IF kind = "trade" THEN <<n>> \o tape.trade ELSE tape.trade
          BY <1>1, <1>2, PutTape
        <4>2. CASE kind = "trade"
          <5>1. t = "market"
            BY <1>2, <4>2 DEF Hands
          <5>2. tape.trade \in Seq(Nat)
            BY <1>1 DEF Tapes
          <5>3. Pushed(tape'.trade, tape.trade, n)
            BY <1>2, <3>2, <4>1, <4>2, <5>2, PushedOne
          <5>4. TradesEnd
            BY <1>3, <1>7 DEF Held
          <5>5. QED
            BY <1>1, <1>7, <3>2, <4>1, <4>2, <5>1, <5>3, <5>4, PushedKeeps
        <4>3. CASE kind # "trade"
          BY <1>1, <1>7, <3>2, <4>1, <4>3 DEF Downward, NoHoles
        <4>4. QED
          BY <4>2, <4>3
      <3>3. CASE tape' \in Trims(db)
        BY <1>1, <1>3, <1>7, <3>3, StoredKeeps
      <3>4. QED
        BY <1>7, <3>1, <3>2, <3>3
    <2>3. TapeTypes'
      BY <1>1, <1>7, <2>1, <2>2 DEF TapeTypes
    <2>4. Phases' /\ InRedis'
      BY <1>1, <1>4, <1>7 DEF Phases, InRedis
    <2>5. QED
      BY <2>1, <2>2, <2>3, <2>4 DEF TapeInv
  <1>8. CASE redis \in {"lost", "none"} /\ UNCHANGED <<redis, calls, tape, refused>>
    <2>1. HandedOver' /\ RefusedHanded' /\ Downward' /\ NoHoles'
      BY <1>1, <1>8, TapeStill
    <2>2. TapeTypes'
      BY <1>1, <1>8 DEF TapeTypes
    <2>3. Phases' /\ InRedis'
      BY <1>1, <1>4, <1>8 DEF Phases, InRedis
    <2>4. QED
      BY <2>1, <2>2, <2>3 DEF TapeInv
  <1>9. QED
    BY <1>5, <1>6, <1>7, <1>8 DEF Records, StaysAs

LEMMA InitTape == TapeInit => TapeInv
  <1> SUFFICES ASSUME TapeInit
               PROVE  TapeInv
    OBVIOUS
  <1>1. tape \in Tapes /\ tape.trade = <<>> /\ Len(tape.trade) = 0
        /\ tape.candle = {} /\ tape.rate = {} /\ tape.book = 0
    BY DEF TapeInit, Tapes
  <1>2. TapeTypes
    BY <1>1 DEF TapeInit, TapeTypes, Nothing, Kinds
  <1>3. HandedOver /\ RefusedHanded
    BY DEF TapeInit, HandedOver, RefusedHanded
  <1>4. Phases /\ InRedis
    BY <1>1 DEF TapeInit, Phases, InRedis
  <1>5. Downward /\ NoHoles
    BY <1>1 DEF Downward, NoHoles
  <1>6. QED
    BY <1>2, <1>3, <1>4, <1>5 DEF TapeInv

(* Before the recorder is started nothing was recorded, and the tape is    *)
(* empty.                                                                  *)
LEMMA StartHeld == TapeInv /\ mainAt = "starts" => Held
  <1> SUFFICES ASSUME TapeInv, mainAt = "starts"
               PROVE  Held
    OBVIOUS
  <1>1. TapeTypes /\ (\A h \in Hands : handed[h] = 0) /\ tape.trade = <<>> /\ tape.candle = {} /\ tape.rate = {}
    BY DEF TapeInv, Phases
  <1>2. \A h \in Hands : Recorded(h) = {}
    BY <1>1 DEF Recorded
  <1>3. /\ Recorded(<<"market", "trade">>) = {} /\ Recorded(<<"market", "rate">>) = {}
        /\ Recorded(<<"market", "candle">>) = {} /\ Recorded(<<"batch", "candle">>) = {}
        /\ Recorded(<<"public", "book">>) = {}
    BY <1>2, HandFacts
  <1>4. Trades = {} /\ Rates = {} /\ Candles = {}
    BY <1>3 DEF Trades, Rates, Candles
  <1>5. Fitting({}) = 0 /\ Cardinality({}) = 0
    BY FittingIs, FS_EmptySet, RedisTapeAssumption
  <1>6. TradesEnd
    BY <1>1, <1>4, <1>5 DEF TradesEnd, ToSet
  <1>7. {} \in Highest({})
    BY <1>5 DEF Highest
  <1>8. QED
    BY <1>1, <1>3, <1>4, <1>6, <1>7 DEF Held

LEMMA OthersKeep ==
  ASSUME TapeInv,
         StartRecorder \/ (\E t \in Threads : WaitsForMutex(t)) \/ RedisBreaks
         \/ JoinsBatches \/ StopRecorder \/ ServerExits
  PROVE  TapeInv'
  <1>1. /\ TapeTypes /\ HandedOver /\ RefusedHanded /\ Phases /\ Downward /\ NoHoles /\ InRedis
        /\ UNCHANGED <<calls, tape, handed, refused>>
    BY DEF TapeInv, StartRecorder, WaitsForMutex, StaysAs, RedisBreaks, JoinsBatches, StopRecorder, ServerExits
  <1>2. HandedOver' /\ RefusedHanded' /\ Downward' /\ NoHoles' /\ (Held' <=> Held)
    BY <1>1, TapeStill
  <1>3. TapeTypes'
    BY <1>1 DEF TapeTypes, StartRecorder, WaitsForMutex, StaysAs, RedisBreaks, JoinsBatches, StopRecorder, ServerExits
  <1>4. Phases' /\ InRedis'
    <2>1. CASE StartRecorder
      BY <1>1, <1>2, <2>1, StartHeld DEF StartRecorder, Phases, InRedis
    <2>2. CASE \E t \in Threads : WaitsForMutex(t)
      BY <1>1, <1>2, <2>2 DEF WaitsForMutex, StaysAs, Phases, InRedis
    <2>3. CASE RedisBreaks
      BY <1>1, <1>2, <2>3 DEF RedisBreaks, Phases, InRedis
    <2>4. CASE JoinsBatches
      BY <1>1, <1>2, <2>4 DEF JoinsBatches, Phases, InRedis
    <2>5. CASE StopRecorder
      BY <1>1, <1>2, <2>5 DEF StopRecorder, Phases, InRedis, TapeTypes
    <2>6. CASE ServerExits
      BY <1>1, <1>2, <2>6 DEF ServerExits, Phases, InRedis
    <2>7. QED
      BY <2>1, <2>2, <2>3, <2>4, <2>5, <2>6
  <1>5. QED
    BY <1>2, <1>3, <1>4 DEF TapeInv

LEMMA NextTape == TapeInv /\ [TapeNext]_tapeVars => TapeInv'
  <1> SUFFICES ASSUME TapeInv, [TapeNext]_tapeVars
               PROVE  TapeInv'
    OBVIOUS
  <1>1. CASE UNCHANGED tapeVars
    <2>1. HandedOver' /\ RefusedHanded' /\ Downward' /\ NoHoles' /\ (Held' <=> Held)
      BY <1>1, TapeStill DEF TapeInv, tapeVars
    <2>2. TapeTypes' /\ Phases' /\ InRedis'
      BY <1>1, <2>1 DEF TapeInv, tapeVars, TapeTypes, Phases, InRedis
    <2>3. QED
      BY <2>1, <2>2 DEF TapeInv
  <1>2. ASSUME NEW h \in Hands, HandsOver(h)
        PROVE  TapeInv'
    BY <1>2, HandsOverKeeps
  <1>3. CASE RecordTrade \/ RecordKline \/ RecordOrderbook \/ RecordFundingRate
    <2>1. \E t \in Threads, kind \in Kinds \ {"nothing"} : Records(t, kind)
      BY <1>3, HandFacts DEF RecordTrade, RecordKline, RecordOrderbook, RecordFundingRate, Kinds
    <2>2. QED
      BY <2>1, RecordsKeeps
  <1>4. CASE StartRecorder \/ (\E t \in Threads : WaitsForMutex(t)) \/ RedisBreaks
             \/ JoinsBatches \/ StopRecorder \/ ServerExits
    BY <1>4, OthersKeep
  <1>5. QED
    BY <1>1, <1>2, <1>3, <1>4 DEF TapeNext

LEMMA TapeInvKept == TapeInv => TapeKept
  <1> SUFFICES ASSUME TapeInv
               PROVE  TapeKept
    OBVIOUS
  <1> DEFINE R == Recorded(<<"market", "rate">>)  firsts == {x[1] : x \in tape.rate}
  <1>1. TapeTypes /\ Phases /\ Downward /\ NoHoles /\ InRedis /\ tape.trade \in Seq(Nat)
    BY DEF TapeInv, TapeTypes, Tapes
  <1>2. ASSUME redis = "up", recording
        PROVE  /\ stuck = {}
               /\ Ends(ToSet(tape.trade), Trades) /\ Len(tape.trade) = Fitting(Trades)
               /\ Ends(firsts, R) /\ Cardinality(tape.rate) = Fitting(R)
               /\ tape.candle \subseteq Candles /\ Cardinality(tape.candle) = Fitting(Candles)
               /\ \A x \in Candles \ tape.candle : \A y \in tape.candle : x[1] =< y[1]
               /\ \A n \in Recorded(<<"public", "book">>) : n =< tape.book
    <2>1. stuck = {} /\ Held
      BY <1>1, <1>2 DEF Phases, InRedis
    <2>2. Ends(ToSet(tape.trade), Trades) /\ Len(tape.trade) = Fitting(Trades)
      BY <2>1 DEF Held, TradesEnd, Ends
    <2>3. tape.rate \subseteq Rates /\ R \subseteq Nat /\ IsFiniteSet(R) /\ Rates = {<<n>> : n \in R}
      BY <1>1, <2>1, HandFacts, RecordedFinite DEF Held, Highest, Rates
    <2>4. Ends(firsts, R)
      <3>1. ASSUME NEW x \in firsts, NEW y \in R \ firsts
            PROVE  y < x
        <4>1. <<x>> \in tape.rate /\ <<y>> \in Rates \ tape.rate /\ x \in Nat /\ y \in Nat /\ x # y
          BY <2>3, <3>1
        <4>2. y =< x
          BY <2>1, <4>1 DEF Held, Highest
        <4>3. QED
          BY <4>1, <4>2
      <3>2. firsts \subseteq R
        BY <2>3
      <3>3. QED
        BY <3>1, <3>2 DEF Ends
    <2>5. Cardinality(tape.rate) = Fitting(R)
      <3>1. [n \in R |-> <<n>>] \in Surjection(R, Rates) /\ [n \in R |-> <<n>>] \in Injection(R, Rates)
        BY <2>3 DEF Surjection, Injection, IsInjective
      <3>2. Cardinality(Rates) = Cardinality(R)
        <4> HIDE DEF R
        <4>1. QED
          BY <2>3, <3>1, FS_Surjection
      <3>3. Fitting(Rates) = Fitting(R)
        BY <3>2 DEF Fitting
      <3>4. QED
        BY <2>1, <3>3 DEF Held, Highest
    <2>6. /\ tape.candle \subseteq Candles /\ Cardinality(tape.candle) = Fitting(Candles)
          /\ \A x \in Candles \ tape.candle : \A y \in tape.candle : x[1] =< y[1]
          /\ \A n \in Recorded(<<"public", "book">>) : n =< tape.book
      BY <2>1 DEF Held, Highest
    <2>7. QED
      BY <2>1, <2>2, <2>4, <2>5, <2>6
  <1>3. ASSUME NEW i \in 2 .. Len(tape.trade)
        PROVE  /\ tape.trade[i] < tape.trade[i - 1]
               /\ \A n \in tape.trade[i] + 1 .. tape.trade[i - 1] - 1 : <<<<"market", "trade">>, n>> \in refused
    <2>1. i \in 1 .. Len(tape.trade) /\ i - 1 \in 1 .. Len(tape.trade) /\ i - 1 < i
      BY <1>1
    <2>2. QED
      BY <1>1, <1>3, <2>1 DEF Downward, NoHoles
  <1>4. stuck # {} => redis \in {"lost", "none"}
    BY <1>1 DEF Phases, TapeTypes
  <1>5. QED
    <2> HIDE DEF firsts
    <2>1. QED
      BY <1>2, <1>3, <1>4 DEF TapeKept, Trades, Candles, firsts

(* Redis keeps what it was handed, in order and without holes but those of *)
(* messages that it refused, for as long as it is there.                   *)
THEOREM TapeIsKept == TapeSpec => []TapeKept
  <1>1. TapeInv /\ [TapeNext]_tapeVars => TapeInv'
    BY NextTape
  <1>2. QED
    BY InitTape, TapeInvKept, <1>1, PTL DEF TapeSpec

-----------------------------------------------------------------------------
(* The store of candles *)

Tagged == [minute : Minutes, by : {"recorder", "filler", "heard"}]
MinutesIn(members) == {x.minute : x \in members}
Single(members) == \A x, y \in members : x.minute = y.minute => x = y

-----------------------------------------------------------------------------
(* Periods. *)

LEMMA PeriodIs ==
  ASSUME NEW m \in Nat
  PROVE  /\ Period(m) \in Nat /\ Period(m) =< m /\ m < Period(m) + PerBar
         /\ m \in MinutesOf(Period(m)) /\ PerBar \in Nat \ {0}
  <1>1. PerBar \in Nat \ {0}
    BY KlineStoreAssumption
  <1>2. Period(m) \in Nat /\ Period(m) =< m /\ m < Period(m) + PerBar
    BY <1>1 DEF Period
  <1>3. QED
    BY <1>1, <1>2 DEF MinutesOf

LEMMA PeriodOrder ==
  ASSUME NEW m \in Nat, NEW k \in Nat, Period(m) # Period(k), m =< k
  PROVE  Period(m) + PerBar =< Period(k)
  <1> DEFINE p == m \div PerBar  q == k \div PerBar
  <1>1. PerBar \in Nat \ {0}
    BY KlineStoreAssumption
  <1>2. p \in Nat /\ q \in Nat /\ p * PerBar =< m /\ m < p * PerBar + PerBar /\ q * PerBar =< k /\ k < q * PerBar + PerBar
    BY <1>1
  <1>3. Period(m) = p * PerBar /\ Period(k) = q * PerBar
    BY DEF Period
  <1> HIDE DEF p, q
  <1>4. \A i, j \in Nat : i < j => i * PerBar + PerBar =< j * PerBar
    BY <1>1
  <1>5. ~ (q < p)
    BY <1>1, <1>2, <1>4
  <1>6. p # q
    BY <1>3
  <1>7. p < q
    BY <1>2, <1>5, <1>6
  <1>8. QED
    BY <1>2, <1>3, <1>4, <1>7

LEMMA PeriodOf ==
  ASSUME NEW m \in Nat, NEW k \in MinutesOf(Period(m))
  PROVE  k \in Nat /\ Period(k) = Period(m)
  <1>1. /\ PerBar \in Nat \ {0} /\ Period(m) \in Nat /\ k \in Nat /\ Period(m) =< k /\ k < Period(m) + PerBar
        /\ Period(m) =< m /\ m < Period(m) + PerBar
    BY PeriodIs DEF MinutesOf
  <1>2. Period(k) \in Nat /\ Period(k) =< k /\ k < Period(k) + PerBar
    BY <1>1, PeriodIs
  <1>3. CASE m =< k /\ Period(k) # Period(m)
    BY <1>1, <1>2, <1>3, PeriodOrder
  <1>4. CASE k =< m /\ Period(k) # Period(m)
    BY <1>1, <1>2, <1>4, PeriodOrder
  <1>5. QED
    BY <1>1, <1>3, <1>4

LEMMA PeriodOfPeriod ==
  ASSUME NEW m \in Nat
  PROVE  Period(Period(m)) = Period(m)
  <1>1. Period(m) \in MinutesOf(Period(m))
    BY PeriodIs DEF MinutesOf
  <1>2. QED
    BY <1>1, PeriodOf

-----------------------------------------------------------------------------
(* What members add up to. *)

LEMMA MinutesAre ==
  /\ Minutes \subseteq Nat /\ IsFiniteSet(Minutes) /\ PerBar \in Nat \ {0} /\ MaxMinute \in Nat
  /\ \A m \in Minutes : m >= PerBar /\ m =< MaxMinute
  <1>1. PerBar \in Nat \ {0} /\ MaxMinute \in Nat
    BY KlineStoreAssumption
  <1>2. IsFiniteSet(PerBar .. MaxMinute)
    BY <1>1, FS_Interval
  <1>3. QED
    BY <1>1, <1>2 DEF Minutes

LEMMA TaggedFinite ==
  ASSUME NEW M \in SUBSET Tagged
  PROVE  IsFiniteSet(M) /\ Cardinality(M) \in Nat
  <1> DEFINE Tags == {"recorder", "filler", "heard"}
             f == [p \in Minutes \X Tags |-> [minute |-> p[1], by |-> p[2]]]
  <1>1. IsFiniteSet(Tags)
    <2>1. IsFiniteSet({"recorder"})
      BY FS_Singleton
    <2>2. IsFiniteSet({"recorder"} \cup {"filler"})
      BY <2>1, FS_AddElement
    <2>3. IsFiniteSet(({"recorder"} \cup {"filler"}) \cup {"heard"})
      BY <2>2, FS_AddElement
    <2>4. Tags = ({"recorder"} \cup {"filler"}) \cup {"heard"}
      OBVIOUS
    <2>5. QED
      BY <2>3, <2>4
  <1>2. IsFiniteSet(Minutes \X Tags)
    BY <1>1, MinutesAre, FS_Product
  <1>3. f \in Surjection(Minutes \X Tags, Tagged)
    <2>1. f \in [Minutes \X Tags -> Tagged]
      BY DEF Tagged
    <2>2. ASSUME NEW x \in Tagged
          PROVE  \E p \in Minutes \X Tags : f[p] = x
      <3>1. x = [minute |-> x.minute, by |-> x.by] /\ x.minute \in Minutes /\ x.by \in Tags
        BY DEF Tagged
      <3>2. <<x.minute, x.by>> \in Minutes \X Tags /\ f[<<x.minute, x.by>>] = x
        BY <3>1
      <3>3. QED
        BY <3>2
    <2>3. QED
      BY <2>1, <2>2 DEF Surjection
  <1>4. IsFiniteSet(Tagged)
    BY <1>2, <1>3, FS_Surjection
  <1>5. QED
    BY <1>4, FS_Subset, FS_CardinalityType

LEMMA SumIs ==
  ASSUME NEW M \in SUBSET Tagged
  PROVE  /\ Sum(M) \in [Minutes -> Nat]
         /\ \A m \in Minutes : LET at == {x \in M : x.minute = m}
                               IN  IsFiniteSet(at) /\ Cardinality(at) \in Nat /\ Sum(M)[m] = Cardinality(at)
  <1>1. ASSUME NEW m \in Minutes
        PROVE  LET at == {x \in M : x.minute = m} IN IsFiniteSet(at) /\ Cardinality(at) \in Nat
    BY TaggedFinite, FS_Subset
  <1>2. QED
    BY <1>1 DEF Sum

LEMMA SumSingle ==
  ASSUME NEW M \in SUBSET Tagged, Single(M)
  PROVE  Sum(M) = Once(MinutesIn(M)) /\ Cardinality(M) = Cardinality(MinutesIn(M))
  <1>1. ASSUME NEW m \in Minutes
        PROVE  Cardinality({x \in M : x.minute = m}) = IF m \in MinutesIn(M) THEN 1 ELSE 0
    <2>1. CASE m \in MinutesIn(M)
      <3>1. PICK x \in M : x.minute = m
        BY <2>1 DEF MinutesIn
      <3>2. {y \in M : y.minute = m} = {x}
        BY <3>1 DEF Single
      <3>3. QED
        BY <2>1, <3>2, FS_Singleton
    <2>2. CASE m \notin MinutesIn(M)
      <3>1. {y \in M : y.minute = m} = {}
        BY <2>2 DEF MinutesIn
      <3>2. QED
        BY <2>2, <3>1, FS_EmptySet
    <2>3. QED
      BY <2>1, <2>2
  <1>2. Sum(M) = Once(MinutesIn(M))
    BY <1>1 DEF Sum, Once
  <1> DEFINE f == [x \in M |-> x.minute]
  <1>3. f \in Bijection(M, MinutesIn(M))
    <2>1. f \in [M -> MinutesIn(M)]
      BY DEF MinutesIn
    <2>2. \A x, y \in M : f[x] = f[y] => x = y
      BY DEF Single
    <2>3. \A m \in MinutesIn(M) : \E x \in M : f[x] = m
      BY DEF MinutesIn
    <2>4. QED
      BY <2>1, <2>2, <2>3, Zenon DEF Bijection, Injection, Surjection, IsInjective
  <1>4. Cardinality(M) = Cardinality(MinutesIn(M))
    BY <1>3, TaggedFinite, FS_Bijection DEF ExistsBijection
  <1>5. QED
    BY <1>2, <1>4

LEMMA SumAdd ==
  ASSUME NEW M \in SUBSET Tagged, NEW x \in Tagged, x \notin M
  PROVE  /\ Sum(M \cup {x}) = [Sum(M) EXCEPT ![x.minute] = @ + 1]
         /\ Cardinality(M \cup {x}) = Cardinality(M) + 1 /\ Cardinality(M) \in Nat
  <1>1. Cardinality(M \cup {x}) = Cardinality(M) + 1 /\ Cardinality(M) \in Nat
    BY TaggedFinite, FS_AddElement
  <1>2. ASSUME NEW m \in Minutes, m # x.minute
        PROVE  Sum(M \cup {x})[m] = Sum(M)[m]
    <2>1. {y \in M \cup {x} : y.minute = m} = {y \in M : y.minute = m}
      BY <1>2
    <2>2. QED
      BY <2>1 DEF Sum
  <1>3. Sum(M \cup {x})[x.minute] = Sum(M)[x.minute] + 1
    <2> DEFINE at == {y \in M : y.minute = x.minute}
    <2>1. {y \in M \cup {x} : y.minute = x.minute} = at \cup {x}
      OBVIOUS
    <2>2. IsFiniteSet(at) /\ x \notin at
      BY TaggedFinite, FS_Subset
    <2>3. Cardinality(at \cup {x}) = Cardinality(at) + 1
      BY <2>2, FS_AddElement
    <2>4. x.minute \in Minutes
      BY DEF Tagged
    <2>5. QED
      BY <2>1, <2>3, <2>4 DEF Sum
  <1>4. Sum(M) \in [Minutes -> Nat] /\ Sum(M \cup {x}) \in [Minutes -> Nat] /\ x.minute \in Minutes
    BY SumIs DEF Tagged
  <1>5. QED
    BY <1>1, <1>2, <1>3, <1>4

LEMMA SumDoubled ==
  ASSUME NEW M \in SUBSET Tagged, ~ Single(M)
  PROVE  \E m \in Minutes : Sum(M)[m] > 1
  <1>1. PICK x \in M, y \in M : x.minute = y.minute /\ x # y
    BY DEF Single
  <1> DEFINE at == {z \in M : z.minute = x.minute}
  <1>2. x.minute \in Minutes
    BY DEF Tagged
  <1>3. IsFiniteSet(at) /\ Cardinality(at) \in Nat /\ Sum(M)[x.minute] = Cardinality(at)
    BY <1>2, SumIs
  <1>4. {x, y} \subseteq at
    BY <1>1
  <1>5. Cardinality({x, y}) = 2
    <2>1. IsFiniteSet({x}) /\ Cardinality({x}) = 1
      BY FS_Singleton
    <2>2. y \notin {x} /\ {x, y} = {x} \cup {y}
      BY <1>1
    <2>3. Cardinality({x} \cup {y}) = Cardinality({x}) + 1
      BY <2>1, <2>2, FS_AddElement
    <2>4. QED
      BY <2>1, <2>2, <2>3
  <1>6. Cardinality({x, y}) =< Cardinality(at)
    BY <1>3, <1>4, FS_Subset
  <1>7. QED
    BY <1>2, <1>3, <1>5, <1>6

(* As many distinct minutes of a period as it has are all of them. *)
LEMMA FullPeriod ==
  ASSUME NEW M \in SUBSET Tagged, Single(M), NEW p \in Nat, MinutesIn(M) \subseteq MinutesOf(p),
         Cardinality(M) >= PerBar
  PROVE  MinutesIn(M) = MinutesOf(p) /\ Sum(M) = Once(MinutesOf(p))
  <1>1. PerBar \in Nat \ {0} /\ p + PerBar - 1 \in Int /\ (p + PerBar - 1) - p + 1 = PerBar /\ p =< p + PerBar - 1
    BY KlineStoreAssumption
  <1>2. IsFiniteSet(MinutesOf(p)) /\ Cardinality(MinutesOf(p)) = PerBar
    BY <1>1, FS_Interval DEF MinutesOf
  <1>3. Cardinality(MinutesIn(M)) = Cardinality(M) /\ Sum(M) = Once(MinutesIn(M)) /\ Cardinality(M) \in Nat
    BY SumSingle, TaggedFinite
  <1>4. Cardinality(MinutesIn(M)) =< PerBar
    BY <1>2, FS_Subset
  <1>5. Cardinality(MinutesIn(M)) = Cardinality(MinutesOf(p))
    BY <1>1, <1>2, <1>3, <1>4
  <1>6. MinutesIn(M) = MinutesOf(p)
    BY <1>2, <1>5, FS_Subset
  <1>7. QED
    BY <1>3, <1>6

-----------------------------------------------------------------------------
(* What writes leave in the store was there or was written. *)

Writes(A, B) == [key : {"series"}, item : A] \cup [key : {"bars"}, item : B]
Dbs(A, B) == [series : SUBSET A, bars : SUBSET B]

LEMMA WriteIs ==
  ASSUME NEW A, NEW B, NEW db \in Dbs(A, B), NEW w \in Writes(A, B)
  PROVE  Removed(db, w) \in Dbs(A, B) /\ Written(db, w) \in Dbs(A, B)
  <1>1. db.series \subseteq A /\ db.bars \subseteq B
    BY DEF Dbs
  <1>2. CASE w.key = "series"
    <2>1. w.item \in A
      BY <1>2 DEF Writes
    <2>2. Removed(db, w) = [db EXCEPT !.series = {x \in @ : x.minute # w.item.minute}]
      BY <1>2 DEF Removed
    <2>3. Removed(db, w) \in Dbs(A, B) /\ Removed(db, w).series \subseteq A
      BY <1>1, <2>2 DEF Dbs
    <2>4. Written(db, w) = [Removed(db, w) EXCEPT !.series = @ \cup {w.item}]
      BY <1>2 DEF Written
    <2>5. Written(db, w) \in Dbs(A, B)
      BY <2>1, <2>3, <2>4 DEF Dbs
    <2>6. QED
      BY <2>3, <2>5
  <1>3. CASE w.key # "series"
    <2>1. w.item \in B
      BY <1>3 DEF Writes
    <2>2. Removed(db, w) = [db EXCEPT !.bars = {x \in @ : x.start # w.item.start}]
      BY <1>3 DEF Removed
    <2>3. Removed(db, w) \in Dbs(A, B) /\ Removed(db, w).bars \subseteq B
      BY <1>1, <2>2 DEF Dbs
    <2>4. Written(db, w) = [Removed(db, w) EXCEPT !.bars = @ \cup {w.item}]
      BY <1>3 DEF Written
    <2>5. Written(db, w) \in Dbs(A, B)
      BY <2>1, <2>3, <2>4 DEF Dbs
    <2>6. QED
      BY <2>3, <2>5
  <1>4. QED
    BY <1>2, <1>3

LEMMA AppliedFrom ==
  ASSUME NEW A, NEW B, series \subseteq A, bars \subseteq B, NEW writes \in Seq(Writes(A, B))
  PROVE  Applied(writes) \in Dbs(A, B)
  <1> DEFINE D == DOMAIN writes  n == Len(writes)  base == [series |-> series, bars |-> bars]
             choose == [s \in SUBSET D |-> Max(s)]
             op == [p \in (SUBSET D) \X Dbs(A, B) |->
                       IF p[1] = {} THEN base ELSE Written(p[2], writes[choose[p[1]]])]
             Solves(it) == it = [s \in SUBSET D |-> IF s = {} THEN base ELSE Written(it[s \ {Max(s)}], writes[Max(s)])]
             iter == CHOOSE it : Solves(it)
  <1>1. n \in Nat /\ D = 1 .. n /\ IsFiniteSet(D) /\ \A i \in D : writes[i] \in Writes(A, B)
    BY FS_Interval
  <1>2. base \in Dbs(A, B)
    BY DEF Dbs
  <1>3. \A s \in (SUBSET D) \ {{}} : Max(s) \in s
    <2>1. ASSUME NEW s \in SUBSET D, s # {}
          PROVE  Max(s) \in s
      <3>1. s \in SUBSET (0 .. n)
        BY <1>1, <2>1
      <3>2. \E m \in s : \A j \in s : j =< m
        BY <1>1, <2>1, <3>1, Greatest
      <3>3. \E m \in s : \A j \in s : m >= j
        BY <1>1, <2>1, <3>2
      <3>4. QED
        BY <3>3 DEF Max
    <2>2. QED
      BY <2>1
  <1>4. \A s \in (SUBSET D) \ {{}} : choose[s] \in s
    BY <1>3
  <1>5. op \in [((SUBSET D) \X Dbs(A, B)) -> Dbs(A, B)]
    <2>1. ASSUME NEW p \in (SUBSET D) \X Dbs(A, B)
          PROVE  op[p] \in Dbs(A, B)
      <3>1. CASE p[1] = {}
        BY <1>2, <3>1
      <3>2. CASE p[1] # {}
        <4>1. choose[p[1]] \in D /\ p[2] \in Dbs(A, B)
          BY <1>4, <3>2
        <4>2. Written(p[2], writes[choose[p[1]]]) \in Dbs(A, B)
          BY <1>1, <4>1, WriteIs
        <4>3. QED
          BY <3>2, <4>2
      <3>3. QED
        BY <3>1, <3>2
    <2>2. QED
      BY <2>1
  <1>6. \E g : Solves(g)
    <2>1. PICK g \in [SUBSET D -> Dbs(A, B)] : Folds(D, base, op, choose, g)
      <3> HIDE DEF D, base, op, choose
      <3>1. QED
        BY <1>1, <1>2, <1>4, <1>5, FoldExists
    <2>2. ASSUME NEW s \in SUBSET D, s # {}
          PROVE  op[<<s, g[s \ {choose[s]}]>>] = Written(g[s \ {Max(s)}], writes[Max(s)])
      <3>1. g[s \ {choose[s]}] \in Dbs(A, B) /\ choose[s] = Max(s)
        BY <2>1
      <3>2. <<s, g[s \ {choose[s]}]>> \in (SUBSET D) \X Dbs(A, B)
        BY <3>1
      <3>3. QED
        BY <2>2, <3>1, <3>2
    <2>3. g = [s \in SUBSET D |-> IF s = {} THEN base ELSE op[<<s, g[s \ {choose[s]}]>>]]
      BY <2>1 DEF Folds
    <2>4. Solves(g)
      <3> HIDE DEF op, choose, base
      <3>1. QED
        BY <2>2, <2>3
    <2>5. QED
      BY <2>4
  <1>7. Solves(iter)
    <2> HIDE DEF Solves
    <2>1. QED
      BY <1>6
  <1>8. Applied(writes) = iter[D]
    BY DEF Applied, FoldLeft, MapThenFoldSet
  <1> HIDE DEF iter
  <1>9. \A s \in SUBSET D : iter[s] \in Dbs(A, B)
    <2> DEFINE T == {s \in SUBSET D : iter[s] \notin Dbs(A, B)}
    <2>1. SUFFICES ASSUME T # {}
                   PROVE  FALSE
      OBVIOUS
    <2>2. PICK s \in T : \A y \in T : y \subseteq s => y = s
      <3>1. T \in SUBSET SUBSET D /\ T # {} /\ IsFiniteSet(D)
        BY <1>1, <2>1
      <3> HIDE DEF T, D
      <3>2. QED
        BY <3>1, SmallestPart
    <2>3. iter[s] = IF s = {} THEN base ELSE Written(iter[s \ {Max(s)}], writes[Max(s)])
      BY <1>7
    <2>4. s # {}
      BY <1>2, <2>3
    <2>5. Max(s) \in s /\ s \in SUBSET D
      BY <1>3, <2>4
    <2>6. s \ {Max(s)} \in SUBSET D /\ s \ {Max(s)} # s /\ s \ {Max(s)} \subseteq s
      BY <2>5
    <2>7. iter[s \ {Max(s)}] \in Dbs(A, B)
      BY <2>2, <2>6
    <2>8. Written(iter[s \ {Max(s)}], writes[Max(s)]) \in Dbs(A, B)
      BY <1>1, <2>5, <2>7, WriteIs
    <2>9. QED
      BY <2>3, <2>4, <2>8
  <1>10. QED
    BY <1>8, <1>9

LEMMA TornFrom ==
  ASSUME NEW A, NEW B, series \subseteq A, bars \subseteq B, NEW writes \in Seq(Writes(A, B)),
         NEW db \in Torn(writes)
  PROVE  db \in Dbs(A, B)
  <1>1. Len(writes) \in Nat
    OBVIOUS
  <1>2. PICK k \in 0 .. Len(writes) :
             db \in {Applied(SubSeq(writes, 1, k))} \cup
                    (IF k < Len(writes) THEN {Removed(Applied(SubSeq(writes, 1, k)), writes[k + 1])} ELSE {})
    BY DEF Torn
  <1>3. SubSeq(writes, 1, k) \in Seq(Writes(A, B))
    <2>1. k \in Nat /\ \A i \in 1 .. k : writes[i] \in Writes(A, B)
      BY <1>1
    <2>2. QED
      BY <2>1
  <1>4. Applied(SubSeq(writes, 1, k)) \in Dbs(A, B)
    BY <1>3, AppliedFrom
  <1>5. CASE db = Applied(SubSeq(writes, 1, k))
    BY <1>4, <1>5
  <1>6. CASE k < Len(writes) /\ db = Removed(Applied(SubSeq(writes, 1, k)), writes[k + 1])
    <2>1. k + 1 \in 1 .. Len(writes)
      BY <1>1, <1>6
    <2>2. writes[k + 1] \in Writes(A, B)
      BY <2>1
    <2>3. QED
      BY <1>4, <1>6, <2>2, WriteIs
  <1>7. QED
    BY <1>2, <1>5, <1>6

-----------------------------------------------------------------------------
(* The invariant. *)

(* A stored minute is over; without a tool it is the recorder's. *)
SafeMembers == {x \in Members : x.minute < now /\ (~ ran => x.by = "recorder" /\ x.minute =< heard)}
SumBars == [start : Nat, sum : [Minutes -> Nat]]
SafeBars == {b \in SumBars : ClosedOrDoubled(b) /\ (~ ran => Whole(b))}
PastMinutes == {m \in Minutes : m < now}

(* What the aggregator holds is the sum of as many members as it counts. *)
Gathered(s, h) ==
    \E M \in SUBSET Tagged :
       /\ s.sum = Sum(M) /\ s.count = Cardinality(M)
       /\ \A x \in M : x.minute \in MinutesOf(s.start) /\ x.minute =< h
       /\ ~ ran => Single(M)

StateOf(s, h) ==
    /\ s \in [start : Nat, sum : [Minutes -> Nat], count : Nat, last : Nat]
    /\ s.last =< h
    /\ s.start # 0 => s.last = h /\ h \in Minutes /\ s.start = Period(h) /\ Gathered(s, h)

StoreInv ==
    /\ now \in Nat /\ heard \in Nat /\ heard < now /\ now =< MaxMinute + 1
    /\ series \subseteq SafeMembers /\ bars \subseteq SafeBars
    /\ pending \in Seq(Writes(SafeMembers, SafeBars))
    /\ StateOf(state, heard)

ToolInv ==
    /\ ~ ran => pc = "idle"
    /\ pc \in {"delete", "restore"} => copy \subseteq SafeMembers
    /\ pc = "closer" => copy \subseteq PastMinutes
    /\ pc \in {"deletebars", "restorebars"} => copy \subseteq SafeBars
    /\ \A g \in gaps : g # {} /\ g \subseteq PastMinutes

KlineInv == StoreInv /\ ToolInv

-----------------------------------------------------------------------------
(* The aggregator. *)

LEMMA BarFull ==
  ASSUME NEW M \in SUBSET Tagged, NEW p \in Nat, Cardinality(M) >= PerBar, MinutesIn(M) \subseteq MinutesOf(p),
         \A x \in M : x.minute < now, ~ ran => Single(M), now \in Nat
  PROVE  [start |-> p, sum |-> Sum(M)] \in SafeBars
  <1> DEFINE b == [start |-> p, sum |-> Sum(M)]
  <1>1. b \in SumBars /\ b.start = p /\ b.sum = Sum(M)
    BY SumIs DEF SumBars
  <1> HIDE DEF b
  <1>2. CASE Single(M)
    <2>1. MinutesIn(M) = MinutesOf(p) /\ Sum(M) = Once(MinutesOf(p))
      BY <1>2, FullPeriod
    <2>2. Whole(b)
      BY <1>1, <2>1 DEF Whole
    <2>3. PerBar \in Nat \ {0} /\ p + PerBar - 1 \in MinutesOf(p)
      BY KlineStoreAssumption DEF MinutesOf
    <2>4. p + PerBar - 1 < now
      BY <2>1, <2>3 DEF MinutesIn
    <2>5. b.start + PerBar =< now
      BY <1>1, <2>3, <2>4
    <2>6. QED
      BY <1>1, <2>2, <2>5 DEF SafeBars, ClosedOrDoubled, b
  <1>3. CASE ~ Single(M)
    <2>1. Doubles(b)
      BY <1>1, <1>3, SumDoubled DEF Doubles
    <2>2. QED
      BY <1>1, <1>3, <2>1 DEF SafeBars, ClosedOrDoubled, b
  <1>4. QED
    BY <1>2, <1>3

LEMMA BarClosed ==
  ASSUME NEW M \in SUBSET Tagged, NEW p \in Nat, Cardinality(M) >= PerBar, p + PerBar =< now,
         ~ ran => Single(M) /\ MinutesIn(M) \subseteq MinutesOf(p)
  PROVE  [start |-> p, sum |-> Sum(M)] \in SafeBars
  <1> DEFINE b == [start |-> p, sum |-> Sum(M)]
  <1>1. b \in SumBars /\ b.start = p /\ b.sum = Sum(M)
    BY SumIs DEF SumBars
  <1> HIDE DEF b
  <1>2. ~ ran => Whole(b)
    BY <1>1, FullPeriod DEF Whole
  <1>3. ClosedOrDoubled(b)
    BY <1>1 DEF ClosedOrDoubled
  <1>4. QED
    BY <1>1, <1>2, <1>3 DEF SafeBars, b

(* What Redis may know when minute m is heard. *)
KnownAt(m) == SafeMembers \cup {[minute |-> m, by |-> "recorder"]}

LEMMA KnownIs ==
  ASSUME StoreInv, NEW m \in Minutes, m < now, heard =< m, NEW known \in SUBSET KnownAt(m)
  PROVE  /\ known \subseteq Tagged /\ \A x \in known : x.minute \in Minutes /\ x.minute < now
         /\ ~ ran => Single(known) /\ \A x \in known : x.minute =< heard \/ x.minute = m
  <1>1. SafeMembers \subseteq Members
    BY DEF SafeMembers
  <1>2. Members \subseteq Tagged /\ [minute |-> m, by |-> "recorder"] \in Members
    BY DEF Members, Tagged
  <1>3. known \subseteq Members /\ known \subseteq Tagged
    BY <1>1, <1>2 DEF KnownAt
  <1>4. \A x \in known : x.minute \in Minutes /\ x.minute < now
    BY <1>3 DEF KnownAt, SafeMembers, Members
  <1>5. ASSUME ~ ran
        PROVE  Single(known) /\ \A x \in known : x.minute =< heard \/ x.minute = m
    <2>1. \A x \in known : x.by = "recorder" /\ (x.minute =< heard \/ x.minute = m)
      BY <1>5 DEF KnownAt, SafeMembers
    <2>2. \A x, y \in known : x.minute = y.minute => x = y
      BY <1>3, <2>1 DEF Members
    <2>3. QED
      BY <2>1, <2>2 DEF Single
  <1>6. QED
    BY <1>3, <1>4, <1>5

LEMMA Begins ==
  ASSUME StoreInv, NEW m \in Minutes, NEW hist \in SUBSET Tagged,
         \A x \in hist : x.minute \in MinutesOf(Period(m)) /\ x.minute < m,
         ~ ran => Single(hist)
  PROVE  StateOf(Begun(m, hist), m) /\ Begun(m, hist).start = Period(m) /\ Period(m) # 0
  <1> DEFINE x0 == [minute |-> m, by |-> "heard"]  M == hist \cup {x0}  s == Begun(m, hist)
  <1>1. m \in Nat /\ Period(m) \in Nat /\ m \in MinutesOf(Period(m)) /\ Period(m) # 0
    BY MinutesAre, PeriodIs
  <1>2. x0 \in Tagged /\ x0.minute = m /\ x0 \notin hist
    BY <1>1 DEF Tagged
  <1>3. M \in SUBSET Tagged
    BY <1>2
  <1>4. Cardinality(M) = Cardinality(hist) + 1 /\ Cardinality(hist) \in Nat
    BY <1>2, SumAdd
  <1>5. Sum(M) \in [Minutes -> Nat]
    BY <1>3, SumIs
  <1>6. s = [start |-> Period(m), sum |-> Sum(M), count |-> 1 + Cardinality(hist), last |-> m]
    BY DEF Begun
  <1>7. \A x \in M : x.minute \in MinutesOf(Period(m)) /\ x.minute =< m
    <2>1. \A x \in hist : x.minute \in Nat
      BY MinutesAre DEF Tagged
    <2>2. QED
      BY <1>1, <1>2, <2>1
  <1>8. ~ ran => Single(M)
    <2>1. \A x \in hist : x.minute # m
      BY <1>1
    <2>2. QED
      BY <1>2, <2>1 DEF Single
  <1> HIDE DEF M, s, x0
  <1>9. s.start = Period(m) /\ s.sum = Sum(M) /\ s.count = Cardinality(M) /\ s.last = m
    BY <1>4, <1>6
  <1>10. Gathered(s, m)
    BY <1>3, <1>7, <1>8, <1>9 DEF Gathered
  <1>11. s \in [start : Nat, sum : [Minutes -> Nat], count : Nat, last : Nat]
    BY <1>1, <1>4, <1>5, <1>6
  <1>12. QED
    BY <1>1, <1>9, <1>10, <1>11 DEF StateOf, s

LEMMA StateGrows ==
  ASSUME StoreInv, NEW m \in Minutes, heard =< m, state.start = Period(m), ~ Repeats(m)
  PROVE  StateOf(Grown(m), m) /\ Grown(m).start = Period(m)
  <1> DEFINE x0 == [minute |-> m, by |-> "heard"]  s == Grown(m)
  <1>1. m \in Nat /\ Period(m) \in Nat /\ m \in MinutesOf(Period(m)) /\ Period(m) # 0
    BY MinutesAre, PeriodIs
  <1>2. /\ state \in [start : Nat, sum : [Minutes -> Nat], count : Nat, last : Nat]
        /\ state.last = heard /\ heard \in Nat /\ Gathered(state, heard)
    BY <1>1 DEF StoreInv, StateOf
  <1>3. heard < m
    BY <1>1, <1>2 DEF Repeats
  <1>4. PICK M \in SUBSET Tagged :
             /\ state.sum = Sum(M) /\ state.count = Cardinality(M)
             /\ \A x \in M : x.minute \in MinutesOf(Period(m)) /\ x.minute =< heard
             /\ ~ ran => Single(M)
    BY <1>2 DEF Gathered
  <1>5. \A x \in M : x.minute \in Nat /\ x.minute < m
    <2>1. \A x \in M : x.minute \in Nat
      BY MinutesAre DEF Tagged
    <2>2. QED
      BY <1>1, <1>2, <1>3, <1>4, <2>1
  <1>6. x0 \in Tagged /\ x0.minute = m /\ x0 \notin M
    BY <1>1, <1>5 DEF Tagged
  <1> DEFINE N == M \cup {x0}
  <1>7. N \in SUBSET Tagged
    BY <1>6
  <1>8. /\ Sum(N) = [Sum(M) EXCEPT ![m] = @ + 1]
        /\ Cardinality(N) = Cardinality(M) + 1 /\ Cardinality(M) \in Nat
    BY <1>6, SumAdd
  <1>9. s = [start |-> Period(m), sum |-> Sum(N), count |-> Cardinality(N), last |-> m]
    <2>1. s = [start |-> state.start, sum |-> [state.sum EXCEPT ![m] = @ + 1], count |-> state.count + 1, last |-> m]
      <3> DEFINE grown == [state.sum EXCEPT ![m] = @ + 1]
      <3>1. s = [state EXCEPT !.sum = grown, !.count = @ + 1, !.last = m]
        BY DEF Grown
      <3> HIDE DEF grown, s
      <3>2. s = [start |-> state.start, sum |-> grown, count |-> state.count + 1, last |-> m]
        BY <1>2, <3>1
      <3>3. QED
        BY <3>2 DEF grown
    <2>2. [state.sum EXCEPT ![m] = @ + 1] = Sum(N)
      BY <1>4, <1>8
    <2>3. QED
      BY <1>4, <1>8, <2>1, <2>2
  <1>10. Sum(N) \in [Minutes -> Nat]
    BY <1>7, SumIs
  <1>11. \A x \in N : x.minute \in MinutesOf(Period(m)) /\ x.minute =< m
    BY <1>1, <1>4, <1>5, <1>6
  <1>12. ~ ran => Single(N)
    <2>1. \A x \in M : x.minute # m
      BY <1>1, <1>5
    <2>2. QED
      BY <1>4, <1>6, <2>1 DEF Single
  <1> HIDE DEF N, s, x0
  <1>13. s.start = Period(m) /\ s.sum = Sum(N) /\ s.count = Cardinality(N) /\ s.last = m
    BY <1>2, <1>9
  <1>14. Gathered(s, m)
    BY <1>7, <1>11, <1>12, <1>13 DEF Gathered
  <1>15. s \in [start : Nat, sum : [Minutes -> Nat], count : Nat, last : Nat]
    BY <1>1, <1>8, <1>9, <1>10
  <1>16. QED
    BY <1>1, <1>13, <1>14, <1>15 DEF StateOf, s

(* What the aggregator makes of a minute: its new state, and a bar at most.*)
Made(done, m) ==
    /\ StateOf(done.state, m)
    /\ done.out = {} \/ \E b \in SafeBars : done.out = {b}

LEMMA RebuiltIs ==
  ASSUME NEW p, NEW hist, Cardinality(hist) >= PerBar => [start |-> p, sum |-> Sum(hist)] \in SafeBars
  PROVE  Rebuilt(p, hist) = {} \/ \E b \in SafeBars : Rebuilt(p, hist) = {b}
  BY DEF Rebuilt

LEMMA BetweenIs ==
  ASSUME NEW known, NEW a, NEW b
  PROVE  Between(known, a, b) \subseteq known /\ \A x \in Between(known, a, b) : x.minute \in a .. b
  BY DEF Between

LEMMA TurnMade ==
  ASSUME StoreInv, NEW m \in Minutes, m < now, heard =< m, NEW known \in SUBSET KnownAt(m), NewPeriod(m)
  PROVE  Made(AfterTurn(m, known), m)
  <1> DEFINE p == state.start  hist == Between(known, p, Period(m) - 1)
  <1>1. m \in Nat /\ now \in Nat /\ heard \in Nat /\ PerBar \in Nat \ {0} /\ Period(m) \in Nat /\ Period(m) =< m
    BY MinutesAre, PeriodIs DEF StoreInv
  <1>2. p # 0 /\ p # Period(m) /\ p = Period(heard) /\ p \in Nat
    <2>1. StateOf(state, heard) /\ p # 0 /\ p # Period(m)
      BY DEF StoreInv, NewPeriod
    <2>2. p = Period(heard)
      BY <2>1 DEF StateOf
    <2>3. QED
      BY <1>1, <2>1, <2>2, PeriodIs
  <1>3. p + PerBar =< Period(m)
    BY <1>1, <1>2, PeriodOrder
  <1>4. p + PerBar =< now
    BY <1>1, <1>2, <1>3
  <1>5. hist \subseteq known /\ \A x \in hist : x.minute \in p .. Period(m) - 1
    BY BetweenIs
  <1> HIDE DEF hist
  <1>6. /\ hist \in SUBSET Tagged
        /\ ~ ran => Single(hist) /\ \A x \in hist : x.minute =< heard \/ x.minute = m
    BY <1>5, KnownIs DEF Single
  <1>7. ASSUME ~ ran
        PROVE  MinutesIn(hist) \subseteq MinutesOf(p)
    <2>1. heard < p + PerBar
      BY <1>1, <1>2, PeriodIs
    <2>2. \A x \in hist : x.minute \in Nat /\ p =< x.minute /\ x.minute < p + PerBar
      BY <1>1, <1>2, <1>5, <1>6, <1>7, <2>1
    <2>3. \A x \in hist : x.minute \in MinutesOf(p)
      BY <1>1, <1>2, <2>2 DEF MinutesOf
    <2>4. QED
      BY <2>3 DEF MinutesIn
  <1>8. Cardinality(hist) >= PerBar => [start |-> p, sum |-> Sum(hist)] \in SafeBars
    BY <1>2, <1>4, <1>6, <1>7, BarClosed
  <1>9. StateOf(Begun(m, {}), m)
    <2>1. \A x \in {} : x.minute \in MinutesOf(Period(m)) /\ x.minute < m
      OBVIOUS
    <2>2. Single({})
      BY DEF Single
    <2>3. QED
      BY <2>1, <2>2, Begins
  <1>10. AfterTurn(m, known).state = Begun(m, {}) /\ AfterTurn(m, known).out = Rebuilt(p, hist)
    BY DEF AfterTurn, hist
  <1>11. QED
    BY <1>8, <1>9, <1>10, RebuiltIs DEF Made

LEMMA WithinMade ==
  ASSUME StoreInv, NEW m \in Minutes, m < now, heard =< m, NEW known \in SUBSET KnownAt(m),
         ~ NewPeriod(m), ~ Repeats(m)
  PROVE  Made(Within(m, known), m)
  <1> DEFINE p == Period(m)  hist == IF ColdStart(m) THEN Between(known, p, m - 1) ELSE {}
             s == IF state.start = 0 THEN Begun(m, hist) ELSE Grown(m)
             full == {[start |-> s.start, sum |-> s.sum]}
             late == Between(known, p, p + PerBar - 1)
             done == IF s.count >= PerBar THEN full ELSE IF LastOfPeriod(m) THEN Rebuilt(p, late) ELSE {}
  <1>1. m \in Nat /\ now \in Nat /\ heard \in Nat /\ PerBar \in Nat \ {0} /\ p \in Nat /\ p =< m /\ m < p + PerBar /\ p # 0
    BY MinutesAre, PeriodIs DEF StoreInv
  <1>2. StateOf(s, m) /\ s.start = p
    <2>1. CASE state.start = 0
      <3>1. hist \subseteq known /\ \A x \in hist : x.minute \in p .. m - 1
        BY BetweenIs
      <3>2. hist \in SUBSET Tagged /\ (~ ran => Single(hist))
        BY <3>1, KnownIs DEF Single
      <3>3. \A x \in hist : x.minute \in MinutesOf(p) /\ x.minute < m
        <4>1. ASSUME NEW x \in hist
              PROVE  x.minute \in MinutesOf(p) /\ x.minute < m
          <5>1. x.minute \in p .. m - 1
            BY <3>1
          <5>2. QED
            BY <1>1, <5>1 DEF MinutesOf
        <4>2. QED
          BY <4>1
      <3> HIDE DEF hist
      <3>4. StateOf(Begun(m, hist), m) /\ Begun(m, hist).start = p
        BY <3>2, <3>3, Begins
      <3>5. QED
        BY <2>1, <3>4
    <2>2. CASE state.start # 0
      <3>1. state.start = p
        BY <2>2 DEF NewPeriod
      <3>2. QED
        BY <2>2, <3>1, StateGrows
    <2>3. QED
      BY <2>1, <2>2
  <1> HIDE DEF s
  <1>3. ASSUME s.count >= PerBar
        PROVE  [start |-> s.start, sum |-> s.sum] \in SafeBars
    <2>1. PICK M \in SUBSET Tagged :
               /\ s.sum = Sum(M) /\ s.count = Cardinality(M)
               /\ \A x \in M : x.minute \in MinutesOf(p) /\ x.minute =< m
               /\ ~ ran => Single(M)
      BY <1>1, <1>2 DEF StateOf, Gathered
    <2>2. MinutesIn(M) \subseteq MinutesOf(p)
      BY <2>1 DEF MinutesIn
    <2>3. \A x \in M : x.minute < now
      <3>1. \A x \in M : x.minute \in Nat
        BY MinutesAre DEF Tagged
      <3>2. QED
        BY <1>1, <2>1, <3>1
    <2>4. [start |-> p, sum |-> Sum(M)] \in SafeBars
      BY <1>1, <1>3, <2>1, <2>2, <2>3, BarFull
    <2>5. QED
      BY <1>2, <2>1, <2>4
  <1>4. ASSUME LastOfPeriod(m)
        PROVE  Rebuilt(p, late) = {} \/ \E b \in SafeBars : Rebuilt(p, late) = {b}
    <2>1. late \subseteq known /\ \A x \in late : x.minute \in p .. p + PerBar - 1
      BY BetweenIs
    <2> HIDE DEF late
    <2>2. late \in SUBSET Tagged /\ (~ ran => Single(late))
      BY <2>1, KnownIs DEF Single
    <2>3. MinutesIn(late) \subseteq MinutesOf(p)
      BY <2>1 DEF MinutesIn, MinutesOf
    <2>4. p + PerBar =< now
      BY <1>1, <1>4 DEF LastOfPeriod
    <2>5. QED
      BY <1>1, <2>2, <2>3, <2>4, BarClosed, RebuiltIs
  <1>5. done = {} \/ \E b \in SafeBars : done = {b}
    <2>1. CASE s.count >= PerBar
      <3>1. done = full
        BY <2>1
      <3>2. QED
        BY <1>3, <2>1, <3>1
    <2>2. CASE ~ (s.count >= PerBar) /\ LastOfPeriod(m)
      <3>1. done = Rebuilt(p, late)
        BY <2>2
      <3>2. QED
        BY <1>4, <2>2, <3>1
    <2>3. CASE ~ (s.count >= PerBar) /\ ~ LastOfPeriod(m)
      <3>1. done = {}
        BY <2>3
      <3>2. QED
        BY <3>1
    <2>4. QED
      BY <2>1, <2>2, <2>3
  <1>6. StateOf([NoState EXCEPT !.last = m], m)
    <2>1. Once({}) \in [Minutes -> Nat]
      BY DEF Once
    <2>2. [NoState EXCEPT !.last = m] = [start |-> 0, sum |-> Once({}), count |-> 0, last |-> m]
      BY DEF NoState
    <2>3. QED
      BY <1>1, <2>1, <2>2 DEF StateOf
  <1>7. Within(m, known).state = (IF done = {} THEN s ELSE [NoState EXCEPT !.last = m]) /\ Within(m, known).out = done
    BY DEF Within, s
  <1> HIDE DEF done
  <1>8. QED
    BY <1>2, <1>5, <1>6, <1>7 DEF Made

LEMMA AggregateMade ==
  ASSUME StoreInv, NEW m \in Minutes, m < now, heard =< m, NEW known \in SUBSET KnownAt(m)
  PROVE  Made(Aggregate(m, known), m)
  <1>1. CASE Repeats(m)
    <2>1. StateOf(state, heard) /\ state.last = m
      BY <1>1 DEF StoreInv, Repeats
    <2>2. heard = m
      <3>1. m \in Nat /\ heard \in Nat /\ state.last =< heard
        BY <2>1, MinutesAre DEF StoreInv, StateOf
      <3>2. QED
        BY <2>1, <3>1
    <2>3. Aggregate(m, known) = [state |-> state, out |-> {}]
      BY <1>1 DEF Aggregate
    <2>4. QED
      BY <2>1, <2>2, <2>3 DEF Made
  <1>2. CASE ~ Repeats(m) /\ NewPeriod(m)
    BY <1>2, TurnMade DEF Aggregate
  <1>3. CASE ~ Repeats(m) /\ ~ NewPeriod(m)
    BY <1>3, WithinMade DEF Aggregate
  <1>4. QED
    BY <1>1, <1>2, <1>3

-----------------------------------------------------------------------------
(* The recorder. *)

LEMMA IsSequence ==
  ASSUME NEW S, NEW n \in Nat, NEW f \in [1 .. n -> S]
  PROVE  f \in Seq(S)
  OBVIOUS

LEMMA OneWrite ==
  ASSUME NEW A, NEW B, NEW out, out = {} \/ \E b \in B : out = {b}
  PROVE  SetToSeq({WriteBar(b) : b \in out}) \in Seq(Writes(A, B))
  <1> DEFINE S == {WriteBar(b) : b \in out}  f == SetToSeq(S)
  <1>1. S \subseteq Writes(A, B)
    BY DEF WriteBar, Writes
  <1>2. S = {} \/ \E w \in Writes(A, B) : S = {w}
    <2>1. CASE out = {}
      BY <2>1
    <2>2. ASSUME NEW b \in B, out = {b}
          PROVE  \E w \in Writes(A, B) : S = {w}
      <3>1. S = {WriteBar(b)}
        BY <2>2
      <3>2. QED
        BY <1>1, <3>1
    <2>3. QED
      BY <2>1, <2>2
  <1> HIDE DEF S
  <1>3. CASE S = {}
    <2>1. Cardinality(S) = 0
      BY <1>3, FS_EmptySet
    <2>2. [i \in 1 .. 0 |-> 0] \in [1 .. 0 -> S] /\ IsInjective([i \in 1 .. 0 |-> 0])
      BY DEF IsInjective
    <2>3. f \in [1 .. Cardinality(S) -> S]
      BY <2>1, <2>2 DEF SetToSeq
    <2>4. f \in [1 .. Cardinality(S) -> Writes(A, B)] /\ Cardinality(S) \in Nat
      BY <1>3, <2>1, <2>3
    <2> HIDE DEF f
    <2>5. f \in Seq(Writes(A, B))
      BY <2>4, IsSequence
    <2>6. QED
      BY <2>5 DEF f, S
  <1>4. ASSUME NEW w \in Writes(A, B), S = {w}
        PROVE  f \in Seq(Writes(A, B))
    <2>1. Cardinality(S) = 1
      BY <1>4, FS_Singleton
    <2>2. [i \in 1 .. 1 |-> w] \in [1 .. 1 -> S] /\ IsInjective([i \in 1 .. 1 |-> w])
      BY <1>4 DEF IsInjective
    <2>3. f \in [1 .. 1 -> S]
      BY <2>1, <2>2 DEF SetToSeq
    <2>4. f \in [1 .. 1 -> Writes(A, B)]
      BY <1>4, <2>3
    <2>5. QED
      BY <2>4, IsSequence
  <1>5. QED
    BY <1>2, <1>3, <1>4 DEF S

LEMMA MoreWrites ==
  ASSUME NEW A, NEW B, NEW C, NEW D, A \subseteq C, B \subseteq D, NEW q \in Seq(Writes(A, B))
  PROVE  q \in Seq(Writes(C, D))
  <1>1. Writes(A, B) \subseteq Writes(C, D)
    BY DEF Writes
  <1>2. q \in [1 .. Len(q) -> Writes(A, B)] /\ Len(q) \in Nat
    OBVIOUS
  <1>3. q \in [1 .. Len(q) -> Writes(C, D)]
    BY <1>1, <1>2
  <1>4. QED
    BY <1>2, <1>3

(* What was safe stays so. *)
Later ==
    /\ now \in Nat /\ now' \in Nat /\ heard \in Nat /\ heard' \in Nat
    /\ now =< now' /\ heard =< heard' /\ (~ ran' => ~ ran)

LEMMA StaysSafe ==
  ASSUME Later
  PROVE  SafeMembers \subseteq SafeMembers' /\ SafeBars \subseteq SafeBars' /\ PastMinutes \subseteq PastMinutes'
  <1>1. /\ now \in Nat /\ now' \in Nat /\ heard \in Nat /\ heard' \in Nat
        /\ now =< now' /\ heard =< heard' /\ (~ ran' => ~ ran)
    BY DEF Later
  <1>2. \A m \in Minutes : m \in Nat
    BY MinutesAre
  <1>3. SafeMembers \subseteq SafeMembers'
    <2>1. \A x \in Members : x.minute \in Nat
      BY <1>2 DEF Members
    <2>2. ASSUME NEW x \in SafeMembers
          PROVE  x \in SafeMembers'
      <3>1. x \in Members /\ x.minute \in Nat /\ x.minute < now /\ (~ ran => x.by = "recorder" /\ x.minute =< heard)
        BY <2>1 DEF SafeMembers
      <3>2. x.minute < now' /\ (~ ran' => x.by = "recorder" /\ x.minute =< heard')
        BY <1>1, <3>1
      <3>3. QED
        BY <3>1, <3>2 DEF SafeMembers
    <2>3. QED
      BY <2>2
  <1>4. SafeBars \subseteq SafeBars'
    <2>1. ASSUME NEW b \in SumBars, ClosedOrDoubled(b)
          PROVE  ClosedOrDoubled(b)'
      <3>1. b.start \in Nat /\ PerBar \in Nat
        BY MinutesAre DEF SumBars
      <3>2. QED
        BY <1>1, <2>1, <3>1 DEF ClosedOrDoubled
    <2>2. QED
      BY <1>1, <2>1 DEF SafeBars
  <1>5. PastMinutes \subseteq PastMinutes'
    BY <1>1, <1>2 DEF PastMinutes
  <1>6. QED
    BY <1>3, <1>4, <1>5

(* A step that leaves the aggregator alone and stores what is safe. *)
LEMMA StoreKept ==
  ASSUME StoreInv, Later, now' =< MaxMinute + 1, UNCHANGED <<heard, state>>,
         series' \subseteq SafeMembers', bars' \subseteq SafeBars',
         pending' = pending \/ pending' = <<>>
  PROVE  StoreInv'
  <1>1. /\ now \in Nat /\ heard \in Nat /\ heard < now /\ now' \in Nat /\ now =< now' /\ (~ ran' => ~ ran)
        /\ pending \in Seq(Writes(SafeMembers, SafeBars)) /\ StateOf(state, heard)
    BY DEF StoreInv, Later
  <1>2. pending' \in Seq(Writes(SafeMembers', SafeBars'))
    <2>1. CASE pending' = pending
      BY <1>1, <2>1, StaysSafe, MoreWrites
    <2>2. CASE pending' = <<>>
      BY <2>2
    <2>3. QED
      BY <2>1, <2>2
  <1>3. StateOf(state, heard)'
    BY <1>1 DEF StateOf, Gathered
  <1>4. QED
    BY <1>1, <1>2, <1>3 DEF StoreInv

LEMMA ReceivesKeeps ==
  ASSUME StoreInv, NEW m \in Minutes, Receives(m), UNCHANGED fillerVars
  PROVE  StoreInv' /\ Later
  <1> DEFINE A == KnownAt(m)  B == SafeBars
             queued == IF link = "down" THEN <<>> ELSE Append(pending, WriteMinute(m))
             known == IF link = "up" THEN Applied(queued).series ELSE {}
             done == Aggregate(m, known)
             outs == SetToSeq({WriteBar(b) : b \in done.out})
  <1>1. /\ now \in Nat /\ heard \in Nat /\ series \subseteq SafeMembers /\ bars \subseteq SafeBars /\ now =< MaxMinute + 1
        /\ pending \in Seq(Writes(SafeMembers, SafeBars))
    BY DEF StoreInv
  <1>2. m \in Nat
    BY MinutesAre
  <1>3. /\ m < now /\ heard =< m /\ heard' = m /\ now' = now /\ ran' = ran /\ state' = done.state
    BY <1>1, <1>2 DEF Receives, fillerVars
  <1>4. series \subseteq A /\ bars \subseteq B
    BY <1>1 DEF KnownAt
  <1>5. queued \in Seq(Writes(A, B))
    <2>1. pending \in Seq(Writes(A, B))
      <3>1. SafeMembers \subseteq A /\ SafeBars \subseteq B
        BY DEF KnownAt
      <3> HIDE DEF A, B
      <3>2. QED
        BY <1>1, <3>1, MoreWrites
    <2>2. WriteMinute(m) \in Writes(A, B)
      BY DEF WriteMinute, Writes, KnownAt
    <2> HIDE DEF A, B
    <2>3. QED
      BY <2>1, <2>2
  <1>6. Later
    BY <1>1, <1>2, <1>3 DEF Later
  <1>7. A \subseteq SafeMembers' /\ B \subseteq SafeBars'
    <2>1. [minute |-> m, by |-> "recorder"] \in SafeMembers'
      BY <1>3, <1>2 DEF SafeMembers, Members
    <2>2. QED
      BY <1>6, <2>1, StaysSafe DEF KnownAt
  <1>8. known \in SUBSET KnownAt(m)
    <2> HIDE DEF A, B, queued
    <2>1. Applied(queued) \in Dbs(A, B)
      BY <1>4, <1>5, AppliedFrom
    <2>2. QED
      BY <2>1 DEF Dbs, A
  <1> HIDE DEF A, B, queued, known
  <1>9. Made(done, m)
    BY <1>3, <1>8, AggregateMade
  <1> HIDE DEF done
  <1>10. outs \in Seq(Writes(A, B))
    BY <1>9, OneWrite DEF Made, B
  <1> HIDE DEF outs
  <1>11. pending' \in Seq(Writes(A, B)) /\ series' \subseteq A /\ bars' \subseteq B
    <2>1. CASE Asks(m) /\ link # "down"
      <3>1. /\ pending' = IF link = "broken" THEN <<>> ELSE outs
            /\ \E db \in (IF link = "broken" THEN Torn(queued) ELSE {Applied(queued)}) : series' = db.series /\ bars' = db.bars
        BY <2>1 DEF Receives, outs, done, known, queued
      <3>2. PICK db \in (IF link = "broken" THEN Torn(queued) ELSE {Applied(queued)}) : series' = db.series /\ bars' = db.bars
        BY <3>1
      <3>3. db \in Dbs(A, B)
        BY <1>4, <1>5, <3>2, AppliedFrom, TornFrom
      <3>4. QED
        BY <1>10, <3>1, <3>2, <3>3 DEF Dbs
    <2>2. CASE ~ (Asks(m) /\ link # "down")
      <3>1. pending' = queued \o (IF link = "down" THEN <<>> ELSE outs) /\ UNCHANGED <<series, bars, link>>
        BY <2>2 DEF Receives, outs, done, known, queued
      <3>2. (IF link = "down" THEN <<>> ELSE outs) \in Seq(Writes(A, B))
        BY <1>10
      <3>3. pending' \in Seq(Writes(A, B))
        BY <1>5, <3>1, <3>2
      <3>4. QED
        BY <1>4, <3>1, <3>3
    <2>3. QED
      BY <2>1, <2>2
  <1>12. series' \subseteq SafeMembers' /\ bars' \subseteq SafeBars' /\ pending' \in Seq(Writes(SafeMembers', SafeBars'))
    BY <1>7, <1>11, MoreWrites
  <1>13. StateOf(state, heard)'
    <2>1. StateOf(done.state, m)
      BY <1>9 DEF Made
    <2>2. QED
      BY <1>3, <2>1 DEF StateOf, Gathered
  <1>14. QED
    BY <1>1, <1>2, <1>3, <1>6, <1>12, <1>13 DEF StoreInv

LEMMA FlushKeeps ==
  ASSUME StoreInv, Flush, UNCHANGED fillerVars
  PROVE  StoreInv'
  <1>1. /\ now \in Nat /\ heard \in Nat /\ series \subseteq SafeMembers /\ bars \subseteq SafeBars /\ now =< MaxMinute + 1
        /\ pending \in Seq(Writes(SafeMembers, SafeBars))
    BY DEF StoreInv
  <1>2. /\ now' = now /\ heard' = heard /\ state' = state /\ ran' = ran /\ pending' = <<>>
    BY DEF Flush, Flushed, fillerVars
  <1>3. Later
    BY <1>1, <1>2 DEF Later
  <1>4. \E db \in Dbs(SafeMembers, SafeBars) : series' = db.series /\ bars' = db.bars
    <2>1. Applied(pending) \in Dbs(SafeMembers, SafeBars) /\ \A db \in Torn(pending) : db \in Dbs(SafeMembers, SafeBars)
      BY <1>1, AppliedFrom, TornFrom
    <2>2. CASE link = "broken"
      <3>1. \E db \in Torn(pending) : series' = db.series /\ bars' = db.bars
        BY <2>2 DEF Flush, Flushed
      <3>2. QED
        BY <2>1, <3>1
    <2>3. CASE link # "broken"
      <3>1. series' = Applied(pending).series /\ bars' = Applied(pending).bars
        BY <2>3 DEF Flush, Flushed
      <3>2. QED
        BY <2>1, <3>1
    <2>4. QED
      BY <2>2, <2>3
  <1>5. series' \subseteq SafeMembers' /\ bars' \subseteq SafeBars'
    BY <1>3, <1>4, StaysSafe DEF Dbs
  <1>6. QED
    BY <1>1, <1>2, <1>3, <1>5, StoreKept

LEMMA RestartKeeps ==
  ASSUME StoreInv, Restarts, UNCHANGED fillerVars
  PROVE  StoreInv'
  <1>1. /\ now \in Nat /\ heard \in Nat /\ heard < now /\ now =< MaxMinute + 1
        /\ series \subseteq SafeMembers /\ bars \subseteq SafeBars
    BY DEF StoreInv
  <1>2. /\ now' = now /\ heard' = heard /\ series' = series /\ bars' = bars /\ ran' = ran
        /\ state' = NoState /\ pending' = <<>>
    BY DEF Restarts, storeVars, fillerVars
  <1>3. Later
    BY <1>1, <1>2 DEF Later
  <1>4. StateOf(state, heard)'
    <2>1. Once({}) \in [Minutes -> Nat]
      BY DEF Once
    <2>2. QED
      BY <1>1, <1>2, <2>1 DEF NoState, StateOf
  <1>5. series' \subseteq SafeMembers' /\ bars' \subseteq SafeBars'
    BY <1>1, <1>2, <1>3, StaysSafe
  <1>6. pending' \in Seq(Writes(SafeMembers', SafeBars'))
    BY <1>2
  <1>7. QED
    BY <1>1, <1>2, <1>4, <1>5, <1>6 DEF StoreInv

LEMMA QuietKeeps ==
  ASSUME StoreInv, UNCHANGED <<heard, state, series, bars>>, pending' = pending \/ pending' = <<>>,
         now' = now \/ MinutePasses, ~ ran' => ~ ran
  PROVE  StoreInv' /\ Later
  <1>1. /\ now \in Nat /\ heard \in Nat /\ now =< MaxMinute + 1 /\ MaxMinute \in Nat
        /\ series \subseteq SafeMembers /\ bars \subseteq SafeBars
    BY MinutesAre DEF StoreInv
  <1>2. now' \in Nat /\ now =< now' /\ now' =< MaxMinute + 1
    BY <1>1 DEF MinutePasses
  <1>3. Later
    BY <1>1, <1>2 DEF Later
  <1>4. QED
    BY <1>1, <1>2, <1>3, StaysSafe, StoreKept

(* The recorder does nothing to what the tools keep. *)
LEMMA ToolKept ==
  ASSUME ToolInv, Later, UNCHANGED fillerVars
  PROVE  ToolInv'
  <1>1. SafeMembers \subseteq SafeMembers' /\ SafeBars \subseteq SafeBars' /\ PastMinutes \subseteq PastMinutes'
    BY StaysSafe
  <1>2. pc' = pc /\ copy' = copy /\ gaps' = gaps /\ ran' = ran
    BY DEF fillerVars
  <1>3. QED
    BY <1>1, <1>2 DEF ToolInv

LEMMA RecorderKeeps ==
  ASSUME KlineInv, MinutePasses \/ Recorder, UNCHANGED fillerVars
  PROVE  KlineInv'
  <1>1. StoreInv /\ ToolInv /\ now \in Nat /\ heard \in Nat /\ ran' = ran
    BY DEF KlineInv, StoreInv, fillerVars
  <1>2. StoreInv' /\ Later
    <2>1. CASE \E m \in Minutes : Receives(m)
      BY <1>1, <2>1, ReceivesKeeps
    <2>2. CASE Flush
      <3>1. now' = now /\ heard' = heard
        BY <2>2 DEF Flush
      <3>2. QED
        BY <1>1, <2>2, <3>1, FlushKeeps DEF Later
    <2>3. CASE Restarts
      <3>1. now' = now /\ heard' = heard
        BY <2>3 DEF Restarts
      <3>2. QED
        BY <1>1, <2>3, <3>1, RestartKeeps DEF Later
    <2>4. CASE Reconnects
      BY <1>1, <2>4, QuietKeeps DEF Reconnects, storeVars
    <2>5. CASE Breaks
      BY <1>1, <2>5, QuietKeeps DEF Breaks, storeVars
    <2>6. CASE MinutePasses
      <3>1. UNCHANGED <<heard, state, series, bars>> /\ pending' = pending
        BY <2>6 DEF MinutePasses, recorderVars, storeVars
      <3>2. QED
        BY <1>1, <2>6, <3>1, QuietKeeps
    <2>7. QED
      BY <2>1, <2>2, <2>3, <2>4, <2>5, <2>6 DEF Recorder
  <1>3. QED
    BY <1>1, <1>2, ToolKept DEF KlineInv

-----------------------------------------------------------------------------
(* The tools. *)

LEMMA FirstFinal ==
  ASSUME NEW S \in SUBSET Minutes, S # {}
  PROVE  /\ First(S) \in S /\ Final(S) \in S
         /\ \A m \in S : First(S) =< m /\ m =< Final(S)
  <1>1. MaxMinute \in Nat /\ S \subseteq Nat /\ S \subseteq 0 .. MaxMinute
    BY MinutesAre
  <1>2. \E m \in S : \A n \in S : m =< n
    BY <1>1, Least
  <1>3. \E m \in S : \A n \in S : n =< m
    BY <1>1, Greatest
  <1>4. \E m \in S : \A n \in S : m >= n
    BY <1>1, <1>3
  <1>5. First(S) \in S /\ \A n \in S : First(S) =< n
    BY <1>2 DEF First
  <1>6. Final(S) \in S /\ \A n \in S : Final(S) >= n
    BY <1>4 DEF Final
  <1>7. \A n \in S : n =< Final(S)
    BY <1>1, <1>6
  <1>8. QED
    BY <1>5, <1>6, <1>7

(* A run of minutes that ends before now. *)
LEMMA RunIsPast ==
  ASSUME StoreInv, NEW a \in Int, NEW b \in Int, a >= PerBar, b < now
  PROVE  a .. b \subseteq PastMinutes
  <1>1. now \in Nat /\ now =< MaxMinute + 1 /\ MaxMinute \in Nat /\ PerBar \in Nat
    BY MinutesAre DEF StoreInv
  <1>2. QED
    BY <1>1 DEF PastMinutes, Minutes

LEMMA StoredPast ==
  ASSUME StoreInv
  PROVE  Stored \subseteq PastMinutes /\ Stored \subseteq Minutes /\ (series # {} => Stored # {})
  BY DEF Stored, StoreInv, SafeMembers, Members, PastMinutes

LEMMA GapsPast ==
  ASSUME StoreInv, NEW S \in SUBSET PastMinutes, NEW last \in Int, last < now, NEW gap \in DetectGaps(S, last)
  PROVE  gap # {} /\ gap \subseteq PastMinutes
  <1>1. S # {} /\ gap # {} /\ gap \in Leading(S) \cup Inner(S) \cup Trailing(S, last)
    BY DEF DetectGaps
  <1>2. S \subseteq PastMinutes /\ S \subseteq Minutes
    BY DEF PastMinutes
  <1>3. PerBar \in Nat /\ now \in Nat /\ \A m \in S : m \in Nat /\ PerBar =< m /\ m < now
    <2>1. \A m \in Minutes : m \in Nat /\ PerBar =< m
      BY MinutesAre
    <2>2. QED
      BY <1>2, <2>1, MinutesAre DEF PastMinutes, StoreInv
  <1>4. First(S) \in S /\ Final(S) \in S
    BY <1>1, <1>2, FirstFinal
  <1>5. CASE gap \in Leading(S)
    <2>1. gap = PerBar .. First(S) - 1
      BY <1>5 DEF Leading
    <2>2. First(S) - 1 \in Int /\ First(S) - 1 < now /\ PerBar \in Int /\ PerBar >= PerBar
      BY <1>3, <1>4
    <2>3. QED
      BY <1>1, <2>1, <2>2, RunIsPast
  <1>6. CASE gap \in Trailing(S, last)
    <2>1. gap = Final(S) + 1 .. last
      BY <1>6 DEF Trailing
    <2>2. Final(S) + 1 \in Int /\ Final(S) + 1 >= PerBar /\ last \in Int /\ last < now
      BY <1>3, <1>4
    <2>3. QED
      BY <1>1, <2>1, <2>2, RunIsPast
  <1>7. CASE gap \in Inner(S)
    <2>1. PICK p \in S \X S : gap = p[1] + 1 .. p[2] - 1
      BY <1>7 DEF Inner
    <2>2. p[1] + 1 \in Int /\ p[1] + 1 >= PerBar /\ p[2] - 1 \in Int /\ p[2] - 1 < now
      BY <1>3, <2>1
    <2>3. QED
      BY <1>1, <2>1, <2>2, RunIsPast
  <1>8. QED
    BY <1>1, <1>5, <1>6, <1>7

LEMMA FetchesPast ==
  ASSUME StoreInv, NEW gap, gap # {}, gap \subseteq PastMinutes, NEW got \in OkxFetches(gap) \cup BinanceFetches(gap)
  PROVE  got \subseteq PastMinutes
  <1>1. gap \subseteq Minutes /\ \A m \in gap : m \in Nat /\ PerBar =< m /\ m < now
    <2>1. \A m \in Minutes : m \in Nat /\ PerBar =< m
      BY MinutesAre
    <2>2. QED
      BY <2>1 DEF PastMinutes
  <1>2. First(gap) \in gap /\ Final(gap) \in gap /\ PerBar \in Nat /\ now \in Nat
    BY <1>1, FirstFinal, MinutesAre DEF StoreInv
  <1>3. CASE got \in OkxFetches(gap)
    <2>1. PICK k \in gap \cup {Final(gap) + 1} : got = k .. Final(gap)
      BY <1>3 DEF OkxFetches
    <2>2. k \in Int /\ k >= PerBar /\ Final(gap) \in Int /\ Final(gap) < now
      BY <1>1, <1>2, <2>1
    <2>3. QED
      BY <2>1, <2>2, RunIsPast
  <1>4. CASE got \in BinanceFetches(gap)
    <2>1. PICK k \in gap \cup {First(gap) - 1} : got = First(gap) .. k
      BY <1>4 DEF BinanceFetches
    <2>2. k \in Int /\ k < now /\ First(gap) \in Int /\ First(gap) >= PerBar
      BY <1>1, <1>2, <2>1
    <2>3. QED
      BY <2>1, <2>2, RunIsPast
  <1>5. QED
    BY <1>3, <1>4

(* A step of a tool leaves the clock and the recorder alone. *)
LEMMA ToolStores ==
  ASSUME StoreInv, UNCHANGED <<now, heard, state, pending>>, ~ ran' => ~ ran
  PROVE  /\ SafeMembers \subseteq SafeMembers' /\ SafeBars \subseteq SafeBars' /\ PastMinutes \subseteq PastMinutes'
         /\ series' \subseteq SafeMembers' /\ bars' \subseteq SafeBars' => StoreInv'
         /\ series \subseteq SafeMembers /\ bars \subseteq SafeBars
  <1>1. /\ now \in Nat /\ heard \in Nat /\ now =< MaxMinute + 1
        /\ series \subseteq SafeMembers /\ bars \subseteq SafeBars
    BY DEF StoreInv
  <1>2. Later
    BY <1>1 DEF Later
  <1>3. SafeMembers \subseteq SafeMembers' /\ SafeBars \subseteq SafeBars' /\ PastMinutes \subseteq PastMinutes'
    BY <1>2, StaysSafe
  <1>4. ASSUME series' \subseteq SafeMembers' /\ bars' \subseteq SafeBars'
        PROVE  StoreInv'
    BY <1>1, <1>2, <1>4, StoreKept
  <1>5. QED
    BY <1>1, <1>3, <1>4

(* A step of a tool that writes nothing and keeps its gaps. *)
LEMMA ToolReads ==
  ASSUME KlineInv, UNCHANGED <<klineVars, gaps>>, ~ ran' => ~ ran
  PROVE  /\ StoreInv' /\ \A g \in gaps' : g # {} /\ g \subseteq PastMinutes'
         /\ series \subseteq SafeMembers' /\ bars \subseteq SafeBars' /\ PastMinutes \subseteq PastMinutes'
  <1>1. /\ StoreInv /\ UNCHANGED <<now, heard, state, pending, series, bars>>
        /\ \A g \in gaps : g # {} /\ g \subseteq PastMinutes
    BY DEF KlineInv, ToolInv, klineVars, recorderVars, storeVars
  <1>2. /\ SafeMembers \subseteq SafeMembers' /\ SafeBars \subseteq SafeBars' /\ PastMinutes \subseteq PastMinutes'
        /\ series' \subseteq SafeMembers' /\ bars' \subseteq SafeBars' => StoreInv'
        /\ series \subseteq SafeMembers /\ bars \subseteq SafeBars
    BY <1>1, ToolStores
  <1>3. QED
    BY <1>1, <1>2

LEMMA FillerRuns ==
  ASSUME KlineInv, pc # "idle"
  PROVE  ran
  BY DEF KlineInv, ToolInv

LEMMA StartsKeeps ==
  ASSUME KlineInv, Starts
  PROVE  KlineInv'
  <1>1. pc' = "copy" /\ ran' = TRUE /\ UNCHANGED <<klineVars, gaps>>
    BY DEF Starts
  <1>2. StoreInv' /\ \A g \in gaps' : g # {} /\ g \subseteq PastMinutes'
    BY <1>1, ToolReads
  <1>3. QED
    BY <1>1, <1>2 DEF KlineInv, ToolInv

LEMMA CopiesKeeps ==
  ASSUME KlineInv, Copies
  PROVE  KlineInv'
  <1>1. pc = "copy" /\ pc' \in {"delete", "detect", "copybars"} /\ copy' = series /\ ran' = ran /\ UNCHANGED <<klineVars, gaps>>
    BY DEF Copies, AfterMinutes
  <1>2. /\ StoreInv' /\ \A g \in gaps' : g # {} /\ g \subseteq PastMinutes'
        /\ series \subseteq SafeMembers'
    BY <1>1, ToolReads
  <1>3. ran
    BY <1>1, FillerRuns
  <1>4. QED
    BY <1>1, <1>2, <1>3 DEF KlineInv, ToolInv

LEMMA DeletesKeeps ==
  ASSUME KlineInv, Deletes
  PROVE  KlineInv'
  <1>1. /\ pc = "delete" /\ pc' = "restore" /\ series' = {} /\ copy' = copy /\ ran' = ran /\ gaps' = gaps
        /\ bars' = bars /\ UNCHANGED <<now, heard, state, pending>>
    BY DEF Deletes, recorderVars
  <1>2. StoreInv /\ copy \subseteq SafeMembers /\ \A g \in gaps : g # {} /\ g \subseteq PastMinutes
    BY <1>1 DEF KlineInv, ToolInv
  <1>3. /\ SafeMembers \subseteq SafeMembers' /\ SafeBars \subseteq SafeBars' /\ PastMinutes \subseteq PastMinutes'
        /\ series' \subseteq SafeMembers' /\ bars' \subseteq SafeBars' => StoreInv'
        /\ bars \subseteq SafeBars
    BY <1>1, <1>2, ToolStores
  <1>4. StoreInv'
    BY <1>1, <1>3
  <1>5. ran
    BY <1>1, FillerRuns
  <1>6. QED
    BY <1>1, <1>2, <1>3, <1>4, <1>5 DEF KlineInv, ToolInv

LEMMA RestoresKeeps ==
  ASSUME KlineInv, Restores
  PROVE  KlineInv'
  <1>1. /\ pc = "restore" /\ pc' \in {"detect", "copybars"} /\ series' = series \cup Kept /\ ran' = ran /\ gaps' = gaps
        /\ bars' = bars /\ UNCHANGED <<now, heard, state, pending>>
    BY DEF Restores, AfterMinutes, recorderVars
  <1>2. /\ StoreInv /\ copy \subseteq SafeMembers /\ \A g \in gaps : g # {} /\ g \subseteq PastMinutes
        /\ Kept \subseteq copy
    BY <1>1 DEF KlineInv, ToolInv, Kept
  <1>3. /\ SafeMembers \subseteq SafeMembers' /\ SafeBars \subseteq SafeBars' /\ PastMinutes \subseteq PastMinutes'
        /\ series' \subseteq SafeMembers' /\ bars' \subseteq SafeBars' => StoreInv'
        /\ series \subseteq SafeMembers /\ bars \subseteq SafeBars
    BY <1>1, <1>2, ToolStores
  <1>4. StoreInv'
    BY <1>1, <1>2, <1>3
  <1>5. ran
    BY <1>1, FillerRuns
  <1>6. QED
    BY <1>1, <1>2, <1>3, <1>4, <1>5 DEF KlineInv, ToolInv

LEMMA DetectsKeeps ==
  ASSUME KlineInv, Detects
  PROVE  KlineInv'
  <1>1. /\ pc = "detect" /\ pc' = "fill" /\ ran' = ran /\ gaps' = DetectGaps(Stored, now - 1)
        /\ UNCHANGED <<now, heard, state, pending, series, bars>>
    BY DEF Detects, klineVars, recorderVars, storeVars
  <1>2. StoreInv
    BY DEF KlineInv
  <1>3. /\ PastMinutes \subseteq PastMinutes'
        /\ SafeMembers \subseteq SafeMembers' /\ SafeBars \subseteq SafeBars'
        /\ series' \subseteq SafeMembers' /\ bars' \subseteq SafeBars' => StoreInv'
        /\ series \subseteq SafeMembers /\ bars \subseteq SafeBars
    BY <1>1, <1>2, ToolStores
  <1>4. StoreInv'
    BY <1>1, <1>3
  <1>5. ran
    BY <1>1, FillerRuns
  <1>6. \A g \in gaps' : g # {} /\ g \subseteq PastMinutes
    <2>1. Stored \in SUBSET PastMinutes /\ now - 1 \in Int /\ now - 1 < now
      BY <1>2, StoredPast DEF StoreInv
    <2>2. QED
      BY <1>1, <1>2, <2>1, GapsPast
  <1>7. QED
    BY <1>1, <1>3, <1>4, <1>5, <1>6 DEF KlineInv, ToolInv

LEMMA FillsKeeps ==
  ASSUME KlineInv, Fills
  PROVE  KlineInv'
  <1>1. /\ pc \in {"fill", "fastfill"} /\ pc' = pc /\ ran' = ran /\ bars' = bars
        /\ UNCHANGED <<now, heard, state, pending>>
    BY DEF Fills, recorderVars
  <1>2. StoreInv /\ \A g \in gaps : g # {} /\ g \subseteq PastMinutes
    BY DEF KlineInv, ToolInv
  <1>3. PICK gap \in gaps :
             /\ \E got \in OkxFetches(gap) \cup BinanceFetches(gap) :
                   series' = series \cup {[minute |-> m, by |-> "filler"] : m \in got}
             /\ gaps' = gaps \ {gap}
    BY DEF Fills
  <1>4. PICK got \in OkxFetches(gap) \cup BinanceFetches(gap) :
             series' = series \cup {[minute |-> m, by |-> "filler"] : m \in got}
    BY <1>3
  <1>5. got \subseteq PastMinutes
    BY <1>2, <1>3, FetchesPast
  <1>6. ran
    BY <1>1, FillerRuns
  <1>7. {[minute |-> m, by |-> "filler"] : m \in got} \subseteq SafeMembers
    BY <1>5, <1>6 DEF PastMinutes, SafeMembers, Members
  <1>8. /\ PastMinutes \subseteq PastMinutes'
        /\ SafeMembers \subseteq SafeMembers' /\ SafeBars \subseteq SafeBars'
        /\ series' \subseteq SafeMembers' /\ bars' \subseteq SafeBars' => StoreInv'
        /\ series \subseteq SafeMembers /\ bars \subseteq SafeBars
    BY <1>1, <1>2, ToolStores
  <1>9. StoreInv'
    <2>1. series' \subseteq SafeMembers'
      BY <1>4, <1>7, <1>8
    <2>2. QED
      BY <1>1, <1>8, <2>1
  <1>10. \A g \in gaps' : g # {} /\ g \subseteq PastMinutes'
    BY <1>2, <1>3, <1>8
  <1>11. QED
    BY <1>1, <1>6, <1>9, <1>10 DEF KlineInv, ToolInv

LEMMA FilledKeeps ==
  ASSUME KlineInv, Filled
  PROVE  KlineInv'
  <1>1. /\ pc \in {"fill", "fastfill", "fillbars"} /\ pc' \in {"copybars", "detectbars", "idle"}
        /\ ran' = ran /\ UNCHANGED <<klineVars, gaps>>
    BY DEF Filled, AfterFill
  <1>2. StoreInv' /\ \A g \in gaps' : g # {} /\ g \subseteq PastMinutes'
    BY <1>1, ToolReads
  <1>3. ran
    BY <1>1, FillerRuns
  <1>4. QED
    BY <1>1, <1>2, <1>3 DEF KlineInv, ToolInv

LEMMA CopiesBarsKeeps ==
  ASSUME KlineInv, CopiesBars
  PROVE  KlineInv'
  <1>1. /\ pc = "copybars" /\ ran' = ran /\ UNCHANGED <<klineVars, gaps>>
        /\ (pc' = "deletebars" /\ copy' = bars) \/ pc' \in {"look", "detect"}
    BY DEF CopiesBars, AfterBars
  <1>2. /\ StoreInv' /\ \A g \in gaps' : g # {} /\ g \subseteq PastMinutes'
        /\ bars \subseteq SafeBars'
    BY <1>1, ToolReads
  <1>3. ran
    BY <1>1, FillerRuns
  <1>4. QED
    BY <1>1, <1>2, <1>3 DEF KlineInv, ToolInv

LEMMA DeletesBarsKeeps ==
  ASSUME KlineInv, DeletesBars
  PROVE  KlineInv'
  <1>1. /\ pc = "deletebars" /\ pc' = "restorebars" /\ bars' = {} /\ copy' = copy /\ ran' = ran /\ gaps' = gaps
        /\ series' = series /\ UNCHANGED <<now, heard, state, pending>>
    BY DEF DeletesBars, recorderVars
  <1>2. StoreInv /\ copy \subseteq SafeBars /\ \A g \in gaps : g # {} /\ g \subseteq PastMinutes
    BY <1>1 DEF KlineInv, ToolInv
  <1>3. /\ SafeMembers \subseteq SafeMembers' /\ SafeBars \subseteq SafeBars' /\ PastMinutes \subseteq PastMinutes'
        /\ series' \subseteq SafeMembers' /\ bars' \subseteq SafeBars' => StoreInv'
        /\ series \subseteq SafeMembers
    BY <1>1, <1>2, ToolStores
  <1>4. StoreInv'
    BY <1>1, <1>3
  <1>5. ran
    BY <1>1, FillerRuns
  <1>6. QED
    BY <1>1, <1>2, <1>3, <1>4, <1>5 DEF KlineInv, ToolInv

LEMMA RestoresBarsKeeps ==
  ASSUME KlineInv, RestoresBars
  PROVE  KlineInv'
  <1>1. /\ pc = "restorebars" /\ pc' \in {"look", "detect"} /\ ran' = ran /\ gaps' = gaps
        /\ series' = series /\ UNCHANGED <<now, heard, state, pending>>
        /\ \E kept \in SUBSET copy : bars' = bars \cup kept
    BY DEF RestoresBars, AfterBars, recorderVars
  <1>2. StoreInv /\ copy \subseteq SafeBars /\ \A g \in gaps : g # {} /\ g \subseteq PastMinutes
    BY <1>1 DEF KlineInv, ToolInv
  <1>3. /\ SafeMembers \subseteq SafeMembers' /\ SafeBars \subseteq SafeBars' /\ PastMinutes \subseteq PastMinutes'
        /\ series' \subseteq SafeMembers' /\ bars' \subseteq SafeBars' => StoreInv'
        /\ series \subseteq SafeMembers /\ bars \subseteq SafeBars
    BY <1>1, <1>2, ToolStores
  <1>4. StoreInv'
    BY <1>1, <1>2, <1>3
  <1>5. ran
    BY <1>1, FillerRuns
  <1>6. QED
    BY <1>1, <1>2, <1>3, <1>4, <1>5 DEF KlineInv, ToolInv

LEMMA LooksKeeps ==
  ASSUME KlineInv, Looks
  PROVE  KlineInv'
  <1>1. pc = "look" /\ pc' = "aggregate" /\ ran' = ran /\ UNCHANGED <<klineVars, gaps>>
    BY DEF Looks
  <1>2. StoreInv' /\ \A g \in gaps' : g # {} /\ g \subseteq PastMinutes'
    BY <1>1, ToolReads
  <1>3. ran
    BY <1>1, FillerRuns
  <1>4. QED
    BY <1>1, <1>2, <1>3 DEF KlineInv, ToolInv

(* A bar made of the minutes of a period that is over. *)
LEMMA WholeIsSafe ==
  ASSUME now \in Nat, ran, NEW p \in Periods, MinutesOf(p) \subseteq PastMinutes
  PROVE  [start |-> p, sum |-> Once(MinutesOf(p))] \in SafeBars
  <1> DEFINE b == [start |-> p, sum |-> Once(MinutesOf(p))]
  <1>1. p \in Nat /\ PerBar \in Nat \ {0}
    <2>1. PICK m \in Minutes : p = Period(m)
      BY DEF Periods
    <2>2. QED
      BY <2>1, MinutesAre, PeriodIs
  <1>2. p + PerBar - 1 \in MinutesOf(p)
    BY <1>1 DEF MinutesOf
  <1>3. p + PerBar - 1 < now
    BY <1>2 DEF PastMinutes
  <1>4. b.start = p /\ b.sum = Once(MinutesOf(p)) /\ b \in SumBars
    <2>1. Once(MinutesOf(p)) \in [Minutes -> Nat]
      BY DEF Once
    <2>2. QED
      BY <1>1, <2>1 DEF SumBars
  <1> HIDE DEF b
  <1>5. b.start + PerBar =< now
    BY <1>1, <1>3, <1>4
  <1>6. b \in SafeBars
    BY <1>4, <1>5 DEF SafeBars, ClosedOrDoubled
  <1>7. QED
    BY <1>6 DEF b

LEMMA AggregatesKeeps ==
  ASSUME KlineInv, Aggregates
  PROVE  KlineInv'
  <1> DEFINE filled == {q \in Periods \ seen : MinutesOf(q) \subseteq Stored}
             made == {[start |-> p, sum |-> Once(MinutesOf(p))] : p \in filled}
  <1>1. /\ pc = "aggregate" /\ pc' = "idle" /\ ran' = ran /\ gaps' = gaps /\ bars' = bars \cup made
        /\ series' = series /\ UNCHANGED <<now, heard, state, pending>>
    BY DEF Aggregates, recorderVars
  <1>2. StoreInv /\ now \in Nat /\ \A g \in gaps : g # {} /\ g \subseteq PastMinutes
    BY DEF KlineInv, ToolInv, StoreInv
  <1>3. /\ SafeMembers \subseteq SafeMembers' /\ SafeBars \subseteq SafeBars' /\ PastMinutes \subseteq PastMinutes'
        /\ series' \subseteq SafeMembers' /\ bars' \subseteq SafeBars' => StoreInv'
        /\ series \subseteq SafeMembers /\ bars \subseteq SafeBars
    BY <1>1, <1>2, ToolStores
  <1>4. ran
    BY <1>1, FillerRuns
  <1>5. \A p \in filled : p \in Periods /\ MinutesOf(p) \subseteq PastMinutes
    BY <1>2, StoredPast
  <1>6. made \subseteq SafeBars
    BY <1>2, <1>4, <1>5, WholeIsSafe
  <1> HIDE DEF made
  <1>7. StoreInv'
    BY <1>1, <1>3, <1>6
  <1>8. QED
    BY <1>1, <1>2, <1>3, <1>4, <1>7 DEF KlineInv, ToolInv

LEMMA DetectsBarsKeeps ==
  ASSUME KlineInv, DetectsBars
  PROVE  KlineInv'
  <1>1. /\ pc = "detectbars" /\ pc' = "fillbars" /\ ran' = ran /\ gaps' = DetectGaps(Covered, Period(now) - 1)
        /\ UNCHANGED <<now, heard, state, pending, series, bars>>
    BY DEF DetectsBars, klineVars, recorderVars, storeVars
  <1>2. StoreInv /\ now \in Nat /\ now =< MaxMinute + 1 /\ MaxMinute \in Nat
    BY MinutesAre DEF KlineInv, StoreInv
  <1>3. /\ PastMinutes \subseteq PastMinutes'
        /\ SafeMembers \subseteq SafeMembers' /\ SafeBars \subseteq SafeBars'
        /\ series' \subseteq SafeMembers' /\ bars' \subseteq SafeBars' => StoreInv'
        /\ series \subseteq SafeMembers /\ bars \subseteq SafeBars
    BY <1>1, <1>2, ToolStores
  <1>4. StoreInv'
    BY <1>1, <1>3
  <1>5. ran
    BY <1>1, FillerRuns
  <1>6. \A g \in gaps' : g # {} /\ g \subseteq PastMinutes
    <2>1. Covered \in SUBSET PastMinutes
      <3>1. PerBar .. now - 1 \subseteq PastMinutes
        BY <1>2, MinutesAre DEF PastMinutes, Minutes
      <3>2. QED
        BY <3>1 DEF Covered
    <2>2. Period(now) - 1 \in Int /\ Period(now) - 1 < now
      <3>1. Period(now) \in Nat /\ Period(now) =< now
        BY <1>2, PeriodIs
      <3>2. QED
        BY <1>2, <3>1
    <2>3. QED
      BY <1>1, <1>2, <2>1, <2>2, GapsPast
  <1>7. QED
    BY <1>1, <1>3, <1>4, <1>5, <1>6 DEF KlineInv, ToolInv

LEMMA FillsBarsKeeps ==
  ASSUME KlineInv, FillsBars
  PROVE  KlineInv'
  <1>1. /\ pc = "fillbars" /\ pc' = pc /\ ran' = ran /\ series' = series
        /\ UNCHANGED <<now, heard, state, pending>>
    BY DEF FillsBars, recorderVars
  <1>2. StoreInv /\ now \in Nat /\ \A g \in gaps : g # {} /\ g \subseteq PastMinutes
    BY DEF KlineInv, ToolInv, StoreInv
  <1>3. PICK gap \in gaps :
             /\ \E got \in OkxFetches(gap) \cup BinanceFetches(gap) :
                   bars' = bars \cup {[start |-> p, sum |-> Once(MinutesOf(p))] :
                                        p \in {q \in Periods : MinutesOf(q) \subseteq got}}
             /\ gaps' = gaps \ {gap}
    BY DEF FillsBars
  <1>4. PICK got \in OkxFetches(gap) \cup BinanceFetches(gap) :
             bars' = bars \cup {[start |-> p, sum |-> Once(MinutesOf(p))] :
                                  p \in {q \in Periods : MinutesOf(q) \subseteq got}}
    BY <1>3
  <1>5. got \subseteq PastMinutes
    BY <1>2, <1>3, FetchesPast
  <1>6. ran
    BY <1>1, FillerRuns
  <1>7. {[start |-> p, sum |-> Once(MinutesOf(p))] : p \in {q \in Periods : MinutesOf(q) \subseteq got}} \subseteq SafeBars
    BY <1>2, <1>5, <1>6, WholeIsSafe
  <1>8. /\ PastMinutes \subseteq PastMinutes'
        /\ SafeMembers \subseteq SafeMembers' /\ SafeBars \subseteq SafeBars'
        /\ series' \subseteq SafeMembers' /\ bars' \subseteq SafeBars' => StoreInv'
        /\ series \subseteq SafeMembers /\ bars \subseteq SafeBars
    BY <1>1, <1>2, ToolStores
  <1>9. StoreInv'
    <2>1. bars' \subseteq SafeBars'
      BY <1>4, <1>7, <1>8
    <2>2. QED
      BY <1>1, <1>8, <2>1
  <1>10. \A g \in gaps' : g # {} /\ g \subseteq PastMinutes'
    BY <1>2, <1>3, <1>8
  <1>11. QED
    BY <1>1, <1>6, <1>9, <1>10 DEF KlineInv, ToolInv

LEMMA FastScanKeeps ==
  ASSUME KlineInv, FastScan
  PROVE  KlineInv'
  <1>1. /\ pc' = "closer" /\ ran' = TRUE /\ UNCHANGED <<klineVars, gaps>> /\ series # {}
        /\ copy' = UNION {ChunkOf(c) : c \in {d \in 0 .. MaxMinute : Suspect(d)}}
    BY DEF FastScan
  <1>2. /\ StoreInv' /\ \A g \in gaps' : g # {} /\ g \subseteq PastMinutes'
        /\ PastMinutes \subseteq PastMinutes'
    BY <1>1, ToolReads
  <1>3. StoreInv
    BY DEF KlineInv
  <1>4. First(Stored) .. Final(Stored) \subseteq PastMinutes
    <2>1. Stored \subseteq PastMinutes /\ Stored \in SUBSET Minutes /\ Stored # {}
      BY <1>1, <1>3, StoredPast
    <2>2. First(Stored) \in Stored /\ Final(Stored) \in Stored
      BY <2>1, FirstFinal
    <2>3. First(Stored) \in Int /\ Final(Stored) \in Int /\ First(Stored) >= PerBar /\ Final(Stored) < now
      <3>1. \A m \in Minutes : m \in Int /\ m >= PerBar
        BY MinutesAre
      <3>2. \A m \in Stored : m \in Int /\ m >= PerBar /\ m < now
        BY <2>1, <3>1 DEF PastMinutes
      <3>3. QED
        BY <2>2, <3>2
    <2>4. QED
      BY <1>3, <2>3, RunIsPast
  <1>5. \A c : ChunkOf(c) \subseteq PastMinutes
    BY <1>4 DEF ChunkOf
  <1>6. copy' \subseteq PastMinutes
    BY <1>1, <1>5
  <1>7. QED
    BY <1>1, <1>2, <1>6 DEF KlineInv, ToolInv

LEMMA FastCloserKeeps ==
  ASSUME KlineInv, FastCloser
  PROVE  KlineInv'
  <1>1. /\ pc = "closer" /\ pc' = "fastfill" /\ ran' = ran /\ gaps' = Merged(copy \ Stored)
        /\ UNCHANGED <<now, heard, state, pending, series, bars>>
    BY DEF FastCloser, klineVars, recorderVars, storeVars
  <1>2. StoreInv /\ copy \subseteq PastMinutes
    BY <1>1 DEF KlineInv, ToolInv
  <1>3. /\ PastMinutes \subseteq PastMinutes'
        /\ SafeMembers \subseteq SafeMembers' /\ SafeBars \subseteq SafeBars'
        /\ series' \subseteq SafeMembers' /\ bars' \subseteq SafeBars' => StoreInv'
        /\ series \subseteq SafeMembers /\ bars \subseteq SafeBars
    BY <1>1, <1>2, ToolStores
  <1>4. StoreInv'
    BY <1>1, <1>3
  <1>5. ran
    BY <1>1, FillerRuns
  <1>6. \A g \in gaps' : g # {} /\ g \subseteq PastMinutes
    BY <1>1, <1>2 DEF Merged
  <1>7. QED
    BY <1>1, <1>3, <1>4, <1>5, <1>6 DEF KlineInv, ToolInv

LEMMA FillerDiesKeeps ==
  ASSUME KlineInv, FillerDies
  PROVE  KlineInv'
  <1>1. /\ pc' = "idle" /\ ran' = ran /\ gaps' = {}
        /\ UNCHANGED <<now, heard, state, pending, series, bars>>
    BY DEF FillerDies, recorderVars, storeVars
  <1>2. StoreInv
    BY DEF KlineInv
  <1>3. /\ SafeMembers \subseteq SafeMembers' /\ SafeBars \subseteq SafeBars'
        /\ series' \subseteq SafeMembers' /\ bars' \subseteq SafeBars' => StoreInv'
        /\ series \subseteq SafeMembers /\ bars \subseteq SafeBars
    BY <1>1, <1>2, ToolStores
  <1>4. StoreInv'
    BY <1>1, <1>3
  <1>5. QED
    BY <1>1, <1>4 DEF KlineInv, ToolInv

LEMMA FillersKeep ==
  ASSUME KlineInv, Filler \/ FastFiller \/ FillerDies
  PROVE  KlineInv'
  BY StartsKeeps, CopiesKeeps, DeletesKeeps, RestoresKeeps, DetectsKeeps, FillsKeeps, FilledKeeps, CopiesBarsKeeps,
     DeletesBarsKeeps, RestoresBarsKeeps, LooksKeeps, AggregatesKeeps, DetectsBarsKeeps, FillsBarsKeeps, FastScanKeeps, FastCloserKeeps, FillerDiesKeeps
     DEF Filler, FastFiller

LEMMA KlineStutters ==
  ASSUME KlineInv, UNCHANGED allKlineVars
  PROVE  KlineInv'
  <1>1. UNCHANGED <<heard, state, series, bars, pending, now, ran>> /\ UNCHANGED fillerVars
    BY DEF allKlineVars, klineVars, recorderVars, storeVars, fillerVars
  <1>2. StoreInv' /\ Later
    BY <1>1, QuietKeeps DEF KlineInv
  <1>3. QED
    BY <1>1, <1>2, ToolKept DEF KlineInv

LEMMA KlineStarts == FillerInit => KlineInv
  <1> SUFFICES ASSUME FillerInit
               PROVE  KlineInv
    OBVIOUS
  <1>1. PerBar \in Nat \ {0} /\ MaxMinute \in Nat /\ MaxMinute > PerBar
    BY KlineStoreAssumption
  <1>2. /\ now = PerBar /\ heard = 0 /\ series = {} /\ bars = {} /\ state = NoState /\ pending = <<>>
        /\ pc = "idle" /\ copy = {} /\ gaps = {}
    BY DEF FillerInit, StoreInit
  <1>3. StateOf(state, heard)
    <2>1. Once({}) \in [Minutes -> Nat]
      BY DEF Once
    <2>2. QED
      BY <1>2, <2>1 DEF NoState, StateOf
  <1>4. pending \in Seq(Writes(SafeMembers, SafeBars))
    BY <1>2
  <1>5. StoreInv
    BY <1>1, <1>2, <1>3, <1>4 DEF StoreInv
  <1>6. ToolInv
    BY <1>2 DEF ToolInv
  <1>7. QED
    BY <1>5, <1>6 DEF KlineInv

LEMMA KlineAlways == KlineSpec => []KlineInv
  <1>1. KlineInv /\ [KlineNext]_allKlineVars => KlineInv'
    BY RecorderKeeps, FillersKeep, KlineStutters DEF KlineNext
  <1>2. QED
    BY <1>1, KlineStarts, PTL DEF KlineSpec

(* The stand-alone recorder stores no bar but of each minute of its period *)
(* once, through lost connections, torn writes and restarts, as long as no *)
(* tool has run.                                                           *)
THEOREM RecorderMakesWholeBars == KlineSpec => []RecorderBarsWhole
  <1>1. KlineInv => RecorderBarsWhole
    BY DEF KlineInv, StoreInv, SafeBars, RecorderBarsWhole
  <1>2. QED
    BY <1>1, KlineAlways, PTL

-----------------------------------------------------------------------------
(* What is answered. *)

LEMMA GroupClosed ==
  ASSUME StoreInv, NEW a \in Nat, NEW b \in Nat, NEW p \in Groups(RawMinutes(Period(a), b))
  PROVE  p \in Nat /\ Period(a) =< p /\ p =< b /\ p + PerBar =< now /\ \E m \in Minutes : p = Period(m)
  <1>1. PICK x \in series : x.minute \in Period(a) .. b /\ p = Period(x.minute) /\ p \notin {q \in Periods : q >= Period(now)}
    BY DEF Groups, RawMinutes
  <1>2. x.minute \in Minutes /\ x.minute \in Nat /\ x.minute < now /\ now \in Nat
    <2>1. \A m \in Minutes : m \in Nat
      BY MinutesAre
    <2>2. QED
      BY <2>1 DEF StoreInv, SafeMembers, Members
  <1>3. /\ p \in Nat /\ p =< x.minute /\ Period(a) \in Nat /\ Period(now) \in Nat /\ Period(now) =< now /\ PerBar \in Nat
        /\ Period(Period(a)) = Period(a)
    BY <1>1, <1>2, PeriodIs, PeriodOfPeriod
  <1>4. Period(a) =< x.minute /\ x.minute =< b
    BY <1>1, <1>2, <1>3
  <1>5. Period(a) =< p
    <2>1. CASE p = Period(a)
      BY <1>3, <2>1
    <2>2. CASE p # Period(a)
      <3>1. Period(a) + PerBar =< p
        BY <1>1, <1>2, <1>3, <1>4, <2>2, PeriodOrder
      <3>2. QED
        BY <1>3, <3>1
    <2>3. QED
      BY <2>1, <2>2
  <1>6. p < Period(now)
    <2>1. p \in Periods
      BY <1>1, <1>2 DEF Periods
    <2>2. QED
      BY <1>1, <1>3, <2>1
  <1>7. p + PerBar =< Period(now)
    BY <1>1, <1>2, <1>3, <1>6, PeriodOrder
  <1>8. QED
    BY <1>1, <1>2, <1>3, <1>4, <1>5, <1>7

LEMMA GroupTold ==
  ASSUME StoreInv, ~ ran, NEW a \in Nat, NEW b \in Nat, NEW p \in Groups(RawMinutes(Period(a), b))
  PROVE  Sum({x \in RawMinutes(Period(a), b) : Period(x.minute) = p}) = Once({m \in MinutesOf(p) \cap Stored : m =< b})
  <1> DEFINE M == {x \in RawMinutes(Period(a), b) : Period(x.minute) = p}
             N == {m \in MinutesOf(p) \cap Stored : m =< b}
  <1>1. p \in Nat /\ Period(a) =< p /\ Period(a) \in Nat /\ \E m \in Minutes : p = Period(m)
    BY GroupClosed, PeriodIs
  <1>2. M \subseteq series /\ \A x \in M : x.minute \in Period(a) .. b /\ Period(x.minute) = p
    BY DEF RawMinutes
  <1>3. \A x \in series : x \in Members /\ x.by = "recorder" /\ x.minute \in Nat
    <2>1. \A m \in Minutes : m \in Nat
      BY MinutesAre
    <2>2. QED
      BY <2>1 DEF StoreInv, SafeMembers, Members
  <1>4. M \in SUBSET Tagged /\ Single(M)
    <2>1. \A x, y \in Members : x.by = y.by /\ x.minute = y.minute => x = y
      BY DEF Members
    <2>2. Members \subseteq Tagged
      BY DEF Members, Tagged
    <2> HIDE DEF M
    <2>3. QED
      BY <1>2, <1>3, <2>1, <2>2 DEF Single
  <1>5. MinutesIn(M) \subseteq N
    <2>1. ASSUME NEW x \in M
          PROVE  x.minute \in N
      <3>1. x.minute \in Nat /\ x.minute \in MinutesOf(Period(x.minute)) /\ Period(x.minute) = p
        BY <1>2, <1>3, PeriodIs
      <3>2. x.minute =< b
        BY <1>1, <1>2, <3>1
      <3>3. x.minute \in Stored
        BY <1>2 DEF Stored
      <3>4. QED
        BY <3>1, <3>2, <3>3
    <2>2. QED
      BY <2>1 DEF MinutesIn
  <1>6. N \subseteq MinutesIn(M)
    <2>1. ASSUME NEW m \in N
          PROVE  m \in MinutesIn(M)
      <3>1. PICK x \in series : x.minute = m
        BY DEF Stored
      <3>2. PICK k \in Minutes : p = Period(k)
        BY <1>1
      <3>3. m \in Nat /\ Period(m) = p /\ k \in Nat
        BY <3>2, MinutesAre, PeriodOf
      <3>4. p =< m /\ m =< b
        BY <3>3, PeriodIs
      <3>5. m \in Period(a) .. b
        BY <1>1, <3>3, <3>4
      <3>6. x \in M
        BY <3>1, <3>3, <3>5 DEF RawMinutes
      <3>7. QED
        BY <3>1, <3>6 DEF MinutesIn
    <2>2. QED
      BY <2>1
  <1>7. QED
    BY <1>4, <1>5, <1>6, SumSingle

LEMMA BarsSafe ==
  ASSUME StoreInv, NEW bar \in bars
  PROVE  bar.start \in Nat /\ ClosedOrDoubled(bar) /\ (~ ran => bar.sum = Once(MinutesOf(bar.start)))
  BY DEF StoreInv, SafeBars, SumBars, Whole

LEMMA AnswerIsTrue ==
  ASSUME StoreInv, NEW a \in Nat, NEW b \in Nat
  PROVE  AnswersTrue(a, b)
  <1> DEFINE got == GetKlines(a, b)  source == RawMinutes(Period(a), b)
             made(p) == [start |-> p, sum |-> Sum({x \in source : Period(x.minute) = p})]
  <1>1. Period(a) \in Nat /\ Period(a) =< a
    BY PeriodIs
  <1>2. CASE RawBars(a, b) # {}
    <2>1. \A bar \in got : bar \in bars /\ bar.start \in a .. b
      BY <1>2 DEF GetKlines, RawBars
    <2>2. \A bar \in got : bar.start \in Period(a) .. b /\ ClosedOrDoubled(bar) /\ (~ ran => TellsStored(bar, b))
      BY <1>1, <2>1, BarsSafe DEF TellsStored
    <2> HIDE DEF got
    <2>3. QED
      BY <1>2, <2>2 DEF AnswersTrue, got
  <1>3. CASE RawBars(a, b) = {}
    <2>1. got = {made(p) : p \in Groups(source)}
      BY <1>3 DEF GetKlines, Aggregated
    <2>2. ASSUME NEW p \in Groups(source)
          PROVE  /\ made(p).start = p /\ p \in Period(a) .. b /\ ClosedOrDoubled(made(p))
                 /\ ~ ran => TellsStored(made(p), b)
      <3>1. p \in Nat /\ Period(a) =< p /\ p =< b /\ p + PerBar =< now
        BY GroupClosed
      <3>2. ~ ran => made(p).sum = Once({m \in MinutesOf(p) \cap Stored : m =< b})
        BY GroupTold
      <3>3. QED
        BY <1>1, <3>1, <3>2 DEF ClosedOrDoubled, TellsStored
    <2> HIDE DEF made, got
    <2>3. \A bar \in got : bar.start \in Period(a) .. b /\ ClosedOrDoubled(bar) /\ (~ ran => TellsStored(bar, b))
      BY <2>1, <2>2
    <2>4. ASSUME NEW m \in Stored \cap a .. b, Period(m) + PerBar =< now
          PROVE  \E bar \in got : bar.start = Period(m)
      <3>1. PICK x \in series : x.minute = m
        BY DEF Stored
      <3>2. m \in Nat /\ a =< m /\ m =< b /\ now \in Nat /\ PerBar \in Nat
        BY MinutesAre DEF StoreInv
      <3>3. m \in Period(a) .. b
        BY <1>1, <3>2
      <3>4. x \in source
        BY <3>1, <3>3 DEF RawMinutes
      <3>5. /\ Period(m) \in Nat /\ Period(now) \in Nat /\ now < Period(now) + PerBar
        BY <3>2, PeriodIs
      <3>6. ~ (Period(m) >= Period(now))
        BY <2>4, <3>2, <3>5
      <3>7. Period(m) \in Groups(source)
        BY <3>1, <3>4, <3>6 DEF Groups
      <3>8. QED
        BY <2>1, <2>2, <3>7
    <2>5. QED
      BY <2>3, <2>4 DEF AnswersTrue, got
  <1>4. QED
    BY <1>2, <1>3

(* Whatever recorder, tools and failures left in the store, a strategy is  *)
(* answered with true bars of closed periods of its range, but for the     *)
(* exceptions that HistoryTrue names.                                      *)
THEOREM HistoryIsTrue == KlineSpec => []HistoryTrue
  <1>1. ASSUME KlineInv
        PROVE  HistoryTrue
    <2>1. StoreInv /\ now \in Nat /\ PerBar \in Nat
      BY <1>1, MinutesAre DEF KlineInv, StoreInv
    <2>2. \A a \in PerBar .. now : \A b \in a .. now : AnswersTrue(a, b)
      BY <2>1, AnswerIsTrue
    <2>3. \A n \in 1 .. now - PerBar : AnswersTrue(now - n, now)
      <3>1. \A n \in 1 .. now - PerBar : now - n \in Nat
        BY <2>1
      <3>2. QED
        BY <2>1, <3>1, AnswerIsTrue
    <2>4. \A got \in LatestBars(1) : \A bar \in got : ClosedOrDoubled(bar)
      BY <2>1, BarsSafe DEF LatestBars
    <2>5. \A m \in LatestStamps \cup LuaStamps : m < now
      <3>1. \A m \in LatestStamps : m < now
        BY <2>1, StoredPast DEF LatestStamps, Stored, PastMinutes
      <3>2. \A m \in LuaStamps : m < now
        <4>1. CASE series = {}
          BY <4>1 DEF LuaStamps
        <4>2. CASE series # {}
          BY <3>1, <4>2 DEF LuaStamps
        <4>3. QED
          BY <4>1, <4>2
      <3>3. QED
        BY <3>1, <3>2
    <2>6. QED
      BY <2>2, <2>3, <2>4, <2>5 DEF HistoryTrue
  <1>2. QED
    BY <1>1, KlineAlways, PTL

=============================================================================
