--------------------------- MODULE Services_proofs ----------------------------
(***************************************************************************)
(* Proofs about BinanceStreams, RiskMemory, OkxChannels and DataFeed, for  *)
(* every value of their constants.                                         *)
(*                                                                         *)
(* BinanceCarriesWanted and OkxCarriesWanted speak of a connection that is *)
(* up while nobody is at work.  In between, what is wanted is carried, or  *)
(* in the message under way, or copied by the monitor, or recorded and not *)
(* yet copied (CarriedSoon, CarriedOrDue); and what is carried or copied   *)
(* is wanted or excused, but for what is just being given up (NothingElse; *)
(* KeyOf, Erased, Explained).  What will be copied is what is written down *)
(* (RecordAgrees, Remembered); with streams in a URL nothing is copied, so *)
(* that in a drop all that is wanted is excused (DropExcuses).             *)
(*                                                                         *)
(* RiskMemoryTrue rests on this: the stamps are the orders but for the     *)
(* first, which are too old to count (StampsAfter), so that the two        *)
(* numbers the code compares with its limits are those of the orders; an   *)
(* order that has passed still fits when it is recorded later (Roomy).     *)
(* The first and highest equity are this day's as long as all of them have *)
(* the same sign (PeakTrue).                                               *)
(*                                                                         *)
(* FeedUnbroken: what a feed brings is in its buffer and in the queue, in  *)
(* order within each and from one to the other (OnTheWay), and nothing is  *)
(* missing from some first message on (Unbroken); a topic has the messages *)
(* of one feed, all of them from its first on (Counted).                   *)
(***************************************************************************)
EXTENDS BinanceStreams, RiskMemory, OkxChannels, DataFeed, Induction, SequenceTheorems

StreamCalls == Kinds \X BinanceSymbols

Names(calls) == {NameOf(c) : c \in calls}

(* The call that is written down and not yet sent. *)
Asking(m) ==
    m.method = "SUBSCRIBE" /\ m.names = Names(m.calls) /\ m.calls \subseteq bnWanted
      /\ m.names \subseteq bnRecord

GivingUp(m) ==
    \E kind \in {"trade", "kline", "depth"}, s \in BinanceSymbols :
        /\ m = Message("UNSUBSCRIBE", {<<kind, s>>}, {GivenUpName(kind, s)})
        /\ <<kind, s>> \notin bnWanted
        /\ NameOf(<<kind, s>>) = GivenUpName(kind, s) \/ <<kind, s>> \in bnExcuse

BinanceTypes ==
    /\ bnUp \in BOOLEAN /\ bnDue \in BOOLEAN
    /\ bnUrl \in {{}, {UrlStream}}
    /\ bnWanted \subseteq StreamCalls /\ bnExcuse \subseteq StreamCalls
    /\ bnCopy \subseteq Names(StreamCalls) /\ (bnUrl # {} => bnCopy = {})
    /\ \A m \in bnCall : bnCall = {m} /\ m.calls \subseteq StreamCalls /\ (Asking(m) \/ GivingUp(m))

Asked == UNION {m.calls : m \in {m \in bnCall : m.method = "SUBSCRIBE"}}
Dropped == UNION {m.names : m \in {m \in bnCall : m.method = "UNSUBSCRIBE"}}

RecordAgrees ==
    bnUrl = {} => /\ Names(bnWanted \ bnExcuse) \subseteq bnRecord
                  /\ bnRecord \subseteq Names(bnWanted \cup bnExcuse)

DropExcuses == ~ bnUp /\ bnUrl # {} => bnWanted \ Asked \subseteq bnExcuse

(* What is carried, or will be when the monitor and the owner are done. *)
CarriedSoon ==
    bnUp => /\ bnUrl \subseteq bnCarried
            /\ \A c \in (bnWanted \ bnExcuse) \ Asked :
                  NameOf(c) \in bnCarried \cup bnCopy \/ (bnDue /\ bnUrl = {})

NothingElse ==
    bnUp => bnCarried \cup bnCopy \subseteq bnUrl \cup Names(bnWanted \cup bnExcuse) \cup Dropped

BinanceInv == BinanceTypes /\ RecordAgrees /\ DropExcuses /\ CarriedSoon /\ NothingElse

-----------------------------------------------------------------------------
(* The names of the streams that are asked for are told apart, but a       *)
(* kline's is not among the names that are given up.                       *)
LEMMA GivenUpIsOne ==
  ASSUME NEW c \in StreamCalls, NEW kind \in {"trade", "kline", "depth"}, NEW s \in BinanceSymbols,
         NameOf(c) = GivenUpName(kind, s)
  PROVE  c = <<kind, s>> /\ kind # "kline"
  <1> DEFINE k == c[1]  r == c[2]
  <1>1. c = <<k, r>> /\ k \in Kinds /\ r \in BinanceSymbols
    BY DEF StreamCalls
  <1>2. StreamName(k, r) = GivenUpName(kind, s)
    BY DEF NameOf
  <1> HIDE DEF k, r
  <1>3. CASE k = "kline"
    <2>1. StreamName(k, r) = <<r, "perpetual", "continuousKline_1m">>
      BY <1>3 DEF StreamName
    <2>2. GivenUpName(kind, s) \in {<<s, "trade">>, <<s, "kline_1m">>, <<s, "depth20">>}
      BY DEF GivenUpName
    <2>3. QED
      BY <1>2, <2>1, <2>2
  <1>4. CASE k = "depth"
    <2>1. StreamName(k, r) = <<r, "depth20">>
      BY <1>4 DEF StreamName
    <2>2. kind = "depth" /\ r = s
      BY <1>2, <2>1 DEF GivenUpName
    <2>3. QED
      BY <1>1, <1>4, <2>2
  <1>5. CASE k = "depth 100ms"
    <2>1. StreamName(k, r) = <<r, "depth20", "100ms">>
      BY <1>5 DEF StreamName
    <2>2. GivenUpName(kind, s) \in {<<s, "trade">>, <<s, "kline_1m">>, <<s, "depth20">>}
      BY DEF GivenUpName
    <2>3. QED
      BY <1>2, <2>1, <2>2
  <1>6. CASE k \notin {"kline", "depth", "depth 100ms"}
    <2>1. StreamName(k, r) = <<r, k>> /\ k \notin {"kline_1m", "depth20"}
      BY <1>1, <1>6 DEF StreamName, Kinds
    <2>2. kind = "trade" /\ k = "trade" /\ r = s
      BY <1>2, <2>1 DEF GivenUpName
    <2>3. QED
      BY <1>1, <2>2
  <1>7. QED
    BY <1>1, <1>3, <1>4, <1>5, <1>6

(* No name that is given up is in a URL. *)
LEMMA UrlIsKept ==
  ASSUME BinanceTypes, NEW kind, NEW s \in BinanceSymbols
  PROVE  GivenUpName(kind, s) \notin bnUrl
  BY UrlAssumption DEF BinanceTypes, GivenUpName

-----------------------------------------------------------------------------
LEMMA AskKeeps ==
  ASSUME BinanceInv, NEW calls \in SUBSET StreamCalls, AskFor(calls)
  PROVE  BinanceInv'
  <1> DEFINE m == Message("SUBSCRIBE", calls, Names(calls))
  <1>1. bnCall = {} /\ bnCall' = {m} /\ bnRecord' = bnRecord \cup Names(calls)
        /\ bnWanted' = bnWanted \cup calls
    BY DEF AskFor, Names
  <1>2. UNCHANGED <<bnUp, bnUrl, bnDue, bnCopy, bnCarried, bnExcuse>>
    BY DEF AskFor
  <1>3. m.method = "SUBSCRIBE" /\ m.calls = calls /\ m.names = Names(calls)
    BY DEF Message
  <1> HIDE DEF m
  <1>4. Asking(m)'
    BY <1>1, <1>3 DEF Asking, Names
  <1>5. BinanceTypes'
    BY <1>1, <1>2, <1>3, <1>4 DEF BinanceInv, BinanceTypes, Names
  <1>6. Asked = {} /\ Dropped = {} /\ Asked' = calls
    BY <1>1, <1>3 DEF Asked, Dropped
  <1>7. RecordAgrees'
    BY <1>1, <1>2 DEF BinanceInv, RecordAgrees, Names
  <1>8. DropExcuses' /\ CarriedSoon'
    BY <1>1, <1>2, <1>6 DEF BinanceInv, DropExcuses, CarriedSoon
  <1>9. NothingElse'
    BY <1>1, <1>2, <1>6 DEF BinanceInv, NothingElse, Names
  <1>10. QED
    BY <1>5, <1>7, <1>8, <1>9 DEF BinanceInv

LEMMA GiveUpKeeps ==
  ASSUME BinanceInv, NEW kind \in Kinds, NEW s \in BinanceSymbols, GiveUpStream(kind, s)
  PROVE  BinanceInv'
  <1> DEFINE call == <<kind, s>>  name == GivenUpName(kind, s)
             m == Message("UNSUBSCRIBE", {call}, {name})
  <1>1. kind \in {"trade", "kline", "depth"} /\ call \in StreamCalls
    BY DEF GiveUpStream, StreamCalls
  <1>2. \A c \in StreamCalls : NameOf(c) = name => c = call
    BY <1>1, GivenUpIsOne
  <1>3. bnCall = {} /\ bnCall' = {m} /\ bnWanted' = bnWanted \ {call} /\ bnRecord' = bnRecord \ {name}
    BY DEF GiveUpStream
  <1>4. UNCHANGED <<bnUp, bnUrl, bnDue, bnCopy, bnCarried>>
    BY DEF GiveUpStream
  <1>5. bnExcuse' = bnExcuse \/ (bnExcuse' = bnExcuse \cup {call})
    BY DEF GiveUpStream
  <1>6. NameOf(call) = name \/ call \in bnExcuse'
    BY DEF GiveUpStream
  <1>7. m.method = "UNSUBSCRIBE" /\ m.calls = {call} /\ m.names = {name}
    BY DEF Message
  <1>8. GivingUp(m)'
    BY <1>1, <1>3, <1>6 DEF GivingUp
  <1> HIDE DEF call, name, m
  <1>9. BinanceTypes'
    BY <1>1, <1>3, <1>4, <1>5, <1>7, <1>8 DEF BinanceInv, BinanceTypes, Names
  <1>10. Asked = {} /\ Dropped = {} /\ Asked' = {} /\ Dropped' = {name}
    BY <1>3, <1>7 DEF Asked, Dropped
  <1>11. Names(bnWanted \cup bnExcuse) \subseteq Names(bnWanted' \cup bnExcuse') \cup {name}
    BY <1>3, <1>5, <1>6 DEF Names
  <1>12. name \notin Names(bnWanted' \ bnExcuse')
    BY <1>2, <1>3, <1>9 DEF Names, BinanceTypes
  <1>13. RecordAgrees'
    <2>1. Names(bnWanted' \ bnExcuse') \subseteq Names(bnWanted \ bnExcuse)
      BY <1>3, <1>5 DEF Names
    <2>2. QED
      BY <1>3, <1>4, <1>11, <1>12, <2>1 DEF BinanceInv, RecordAgrees
  <1>14. DropExcuses' /\ CarriedSoon'
    BY <1>3, <1>4, <1>5, <1>10 DEF BinanceInv, DropExcuses, CarriedSoon
  <1>15. NothingElse'
    BY <1>4, <1>10, <1>11 DEF BinanceInv, NothingElse
  <1>16. QED
    BY <1>9, <1>13, <1>14, <1>15 DEF BinanceInv

LEMMA AskIsSent ==
  ASSUME BinanceInv, NEW m \in bnCall, m.method = "SUBSCRIBE", MessageSent
  PROVE  BinanceInv'
  <1>1. bnCall = {m} /\ m.calls \subseteq StreamCalls /\ Asking(m)
    <2>1. bnCall = {m} /\ m.calls \subseteq StreamCalls /\ (Asking(m) \/ GivingUp(m))
      BY DEF BinanceInv, BinanceTypes
    <2>2. \A calls, names : Message("UNSUBSCRIBE", calls, names).method = "UNSUBSCRIBE"
      BY DEF Message
    <2>3. \A calls, names : m # Message("UNSUBSCRIBE", calls, names)
      BY <2>2
    <2>4. QED
      BY <2>1, <2>3 DEF GivingUp
  <1>2. bnCall' = {} /\ UNCHANGED <<bnUp, bnUrl, bnRecord, bnDue, bnCopy, bnWanted>>
    BY DEF MessageSent
  <1>3. /\ bnCarried' = IF bnUp THEN bnCarried \cup m.names ELSE bnCarried
        /\ bnExcuse' = IF bnUp THEN bnExcuse \ m.calls
                       ELSE IF bnUrl = {} THEN bnExcuse ELSE bnExcuse \cup m.calls
    BY <1>1 DEF MessageSent
  <1>4. BinanceTypes'
    BY <1>1, <1>2, <1>3 DEF BinanceInv, BinanceTypes, Names
  <1>5. Asked = m.calls /\ Dropped = {} /\ Asked' = {} /\ Dropped' = {}
    BY <1>1, <1>2 DEF Asked, Dropped
  <1>6. m.names = Names(m.calls) /\ m.calls \subseteq bnWanted /\ m.names \subseteq bnRecord
    BY <1>1 DEF Asking
  <1>7. Names(bnWanted \cup bnExcuse) \subseteq Names(bnWanted' \cup bnExcuse')
    BY <1>2, <1>3, <1>6 DEF Names
  <1>8. RecordAgrees'
    <2>1. Names(bnWanted' \ bnExcuse') \subseteq Names(bnWanted \ bnExcuse) \cup m.names
      BY <1>2, <1>3, <1>6 DEF Names
    <2>2. QED
      BY <1>2, <1>6, <1>7, <2>1 DEF BinanceInv, RecordAgrees
  <1>9. DropExcuses'
    BY <1>2, <1>3, <1>5 DEF BinanceInv, DropExcuses
  <1>10. CarriedSoon'
    BY <1>2, <1>3, <1>5, <1>6 DEF BinanceInv, CarriedSoon, Names
  <1>11. NothingElse'
    <2>1. m.names \subseteq Names(bnWanted' \cup bnExcuse')
      BY <1>2, <1>6 DEF Names
    <2>2. QED
      BY <1>2, <1>3, <1>5, <1>7, <2>1 DEF BinanceInv, NothingElse
  <1>12. QED
    BY <1>4, <1>8, <1>9, <1>10, <1>11 DEF BinanceInv

LEMMA GiveUpIsSent ==
  ASSUME BinanceInv, NEW m \in bnCall, m.method = "UNSUBSCRIBE", MessageSent
  PROVE  BinanceInv'
  <1>1. bnCall = {m} /\ m.calls \subseteq StreamCalls /\ GivingUp(m)
    BY DEF BinanceInv, BinanceTypes, Asking
  <1>2. PICK kind \in {"trade", "kline", "depth"}, s \in BinanceSymbols :
          /\ m = Message("UNSUBSCRIBE", {<<kind, s>>}, {GivenUpName(kind, s)})
          /\ <<kind, s>> \notin bnWanted
    BY <1>1 DEF GivingUp
  <1> DEFINE call == <<kind, s>>  name == GivenUpName(kind, s)
  <1>3. m.calls = {call} /\ m.names = {name}
    BY <1>2 DEF Message
  <1>4. \A c \in StreamCalls : NameOf(c) = name => c = call
    BY <1>2, GivenUpIsOne
  <1>5. name \notin bnUrl
    BY <1>2, UrlIsKept DEF BinanceInv
  <1>6. bnCall' = {} /\ UNCHANGED <<bnUp, bnUrl, bnRecord, bnDue, bnCopy, bnWanted>>
    BY DEF MessageSent
  <1>7. /\ bnCarried' = IF bnUp THEN bnCarried \ m.names ELSE bnCarried
        /\ bnExcuse' = IF bnUp /\ m.names \subseteq bnCopy THEN bnExcuse \cup m.calls ELSE bnExcuse
    BY <1>1 DEF MessageSent
  <1>8. call \notin bnWanted
    BY <1>2
  <1> HIDE DEF call, name
  <1>9. BinanceTypes'
    BY <1>1, <1>6, <1>7 DEF BinanceInv, BinanceTypes, Names
  <1>10. Asked = {} /\ Dropped = {name} /\ Asked' = {} /\ Dropped' = {}
    BY <1>1, <1>3, <1>6 DEF Asked, Dropped
  <1>11. bnExcuse \subseteq bnExcuse' /\ bnWanted' \ bnExcuse' \subseteq bnWanted \ bnExcuse
    BY <1>6, <1>7
  <1>12. Names(bnWanted \cup bnExcuse) \subseteq Names(bnWanted' \cup bnExcuse')
    BY <1>6, <1>11 DEF Names
  <1>13. RecordAgrees'
    <2>1. Names(bnWanted' \ bnExcuse') \subseteq Names(bnWanted \ bnExcuse)
      BY <1>11 DEF Names
    <2>2. QED
      BY <1>6, <1>12, <2>1 DEF BinanceInv, RecordAgrees
  <1>14. DropExcuses'
    BY <1>6, <1>10, <1>11 DEF BinanceInv, DropExcuses
  <1>15. CarriedSoon'
    <2>1. \A c \in bnWanted : NameOf(c) # name
      BY <1>4, <1>8 DEF BinanceInv, BinanceTypes
    <2>2. QED
      BY <1>3, <1>5, <1>6, <1>7, <1>10, <1>11, <2>1 DEF BinanceInv, CarriedSoon
  <1>16. NothingElse'
    <2>1. bnUp /\ name \in bnCopy => name \in Names(bnWanted' \cup bnExcuse')
      <3>1. SUFFICES ASSUME bnUp, name \in bnCopy
                     PROVE  name \in Names(bnWanted' \cup bnExcuse')
        OBVIOUS
      <3>2. PICK c \in StreamCalls : name = NameOf(c)
        BY <3>1 DEF BinanceInv, BinanceTypes, Names
      <3>3. c = call /\ call \in bnExcuse'
        BY <1>3, <1>4, <1>7, <3>1, <3>2
      <3>4. QED
        BY <3>2, <3>3 DEF Names
    <2>2. QED
      BY <1>3, <1>6, <1>7, <1>10, <1>12, <2>1 DEF BinanceInv, NothingElse
  <1>17. QED
    BY <1>9, <1>13, <1>14, <1>15, <1>16 DEF BinanceInv

LEMMA StreamsLostKeeps == BinanceInv /\ StreamsLost => BinanceInv'
  <1> SUFFICES ASSUME BinanceInv, StreamsLost
               PROVE  BinanceInv'
    OBVIOUS
  <1>1. bnUp' = FALSE /\ UNCHANGED <<bnUrl, bnRecord, bnCall, bnDue, bnCopy, bnWanted>>
    BY DEF StreamsLost
  <1>2. bnExcuse' = IF bnUrl = {} THEN bnExcuse ELSE bnExcuse \cup bnWanted
    BY DEF StreamsLost
  <1>3. BinanceTypes'
    <2>1. \A m \in bnCall : (Asking(m) => Asking(m)') /\ (GivingUp(m) => GivingUp(m)')
      BY <1>1, <1>2 DEF Asking, GivingUp
    <2>2. QED
      BY <1>1, <1>2, <2>1 DEF BinanceInv, BinanceTypes
  <1>4. CarriedSoon' /\ NothingElse' /\ DropExcuses'
    BY <1>1, <1>2 DEF CarriedSoon, NothingElse, DropExcuses
  <1>5. RecordAgrees'
    BY <1>1, <1>2 DEF BinanceInv, RecordAgrees
  <1>6. QED
    BY <1>3, <1>4, <1>5 DEF BinanceInv

(* The owner's call is as it was, whatever the monitor does. *)
LEMMA MonitorLeavesCalls ==
  ASSUME BinanceInv, UNCHANGED <<bnUrl, bnRecord, bnCall, bnWanted, bnExcuse>>
  PROVE  /\ \A m \in bnCall' :
              bnCall' = {m} /\ m.calls \subseteq StreamCalls /\ (Asking(m)' \/ GivingUp(m)')
         /\ Asked' = Asked /\ Dropped' = Dropped /\ RecordAgrees'
  <1>1. \A m \in bnCall : (Asking(m) => Asking(m)') /\ (GivingUp(m) => GivingUp(m)')
    BY DEF Asking, GivingUp
  <1>2. Asked' = Asked /\ Dropped' = Dropped
    BY DEF Asked, Dropped
  <1>3. RecordAgrees'
    BY DEF BinanceInv, RecordAgrees
  <1>4. QED
    BY <1>1, <1>2, <1>3 DEF BinanceInv, BinanceTypes

LEMMA StreamsBackKeeps == BinanceInv /\ StreamsBack => BinanceInv'
  <1> SUFFICES ASSUME BinanceInv, StreamsBack
               PROVE  BinanceInv'
    OBVIOUS
  <1>1. /\ ~ bnUp /\ bnUp' = TRUE /\ bnDue' = TRUE /\ bnCopy = {} /\ bnCarried' = bnUrl
        /\ UNCHANGED <<bnUrl, bnRecord, bnCall, bnCopy, bnWanted, bnExcuse>>
    BY DEF StreamsBack, StreamsRest
  <1>2. BinanceTypes' /\ RecordAgrees' /\ DropExcuses' /\ NothingElse'
    BY <1>1, MonitorLeavesCalls DEF BinanceInv, BinanceTypes, DropExcuses, NothingElse
  <1>3. CarriedSoon'
    BY <1>1, MonitorLeavesCalls DEF BinanceInv, DropExcuses, CarriedSoon
  <1>4. QED
    BY <1>2, <1>3 DEF BinanceInv

LEMMA CopiesNamesKeeps == BinanceInv /\ CopiesNames => BinanceInv'
  <1> SUFFICES ASSUME BinanceInv, CopiesNames
               PROVE  BinanceInv'
    OBVIOUS
  <1>1. /\ bnDue' = FALSE /\ bnCopy' = IF bnUrl = {} THEN bnRecord ELSE {}
        /\ UNCHANGED <<bnUp, bnUrl, bnRecord, bnCall, bnCarried, bnWanted, bnExcuse>>
    BY DEF CopiesNames, AskedAgain
  <1>2. BinanceTypes' /\ RecordAgrees' /\ DropExcuses'
    <2>1. bnCopy' \subseteq Names(StreamCalls) /\ (bnUrl' # {} => bnCopy' = {})
      BY <1>1 DEF BinanceInv, BinanceTypes, RecordAgrees, Names
    <2>2. BinanceTypes'
      BY <1>1, <2>1, MonitorLeavesCalls DEF BinanceInv, BinanceTypes, Names
    <2>3. QED
      BY <1>1, <2>2, MonitorLeavesCalls DEF BinanceInv, DropExcuses
  <1>3. CarriedSoon'
    <2>1. ASSUME bnUp, NEW c \in (bnWanted \ bnExcuse) \ Asked
          PROVE  NameOf(c) \in bnCarried \cup bnCopy'
      BY <1>1, <2>1 DEF BinanceInv, BinanceTypes, CarriedSoon, RecordAgrees, Names
    <2>2. QED
      BY <1>1, <2>1, MonitorLeavesCalls DEF BinanceInv, CarriedSoon
  <1>4. NothingElse'
    BY <1>1, MonitorLeavesCalls DEF BinanceInv, RecordAgrees, NothingElse
  <1>5. QED
    BY <1>2, <1>3, <1>4 DEF BinanceInv

LEMMA NamesSentKeeps == BinanceInv /\ NamesSent => BinanceInv'
  <1> SUFFICES ASSUME BinanceInv, NamesSent
               PROVE  BinanceInv'
    OBVIOUS
  <1>1. /\ bnCopy' = {} /\ bnCarried' = IF bnUp THEN bnCarried \cup bnCopy ELSE bnCarried
        /\ UNCHANGED <<bnUp, bnUrl, bnRecord, bnCall, bnDue, bnWanted, bnExcuse>>
    BY DEF NamesSent
  <1>2. BinanceTypes' /\ RecordAgrees' /\ DropExcuses'
    BY <1>1, MonitorLeavesCalls DEF BinanceInv, BinanceTypes, DropExcuses
  <1>3. CarriedSoon' /\ NothingElse'
    BY <1>1, MonitorLeavesCalls DEF BinanceInv, CarriedSoon, NothingElse
  <1>4. QED
    BY <1>2, <1>3 DEF BinanceInv

LEMMA BinanceKeeps == BinanceInv /\ [BinanceNext]_bnVars => BinanceInv'
  <1> SUFFICES ASSUME BinanceInv, [BinanceNext]_bnVars
               PROVE  BinanceInv'
    OBVIOUS
  <1>1. ASSUME NEW s \in BinanceSymbols,
               \/ SubscribeTrade(s) \/ SubscribeBinanceKline(s) \/ SubscribeMiniTicker(s)
               \/ SubscribeTicker(s) \/ SubscribeDepth(s) \/ SubscribeBookTicker(s)
               \/ SubscribeMarkPrice(s)
        PROVE  BinanceInv'
    <2>1. PICK kind \in Kinds : AskFor({<<kind, s>>})
      BY <1>1 DEF SubscribeTrade, SubscribeBinanceKline, SubscribeMiniTicker, SubscribeTicker,
                  SubscribeDepth, SubscribeBookTicker, SubscribeMarkPrice, Kinds
    <2>2. {<<kind, s>>} \in SUBSET StreamCalls
      BY DEF StreamCalls
    <2>3. QED
      BY <2>1, <2>2, AskKeeps
  <1>2. ASSUME NEW s \in BinanceSymbols, NEW kind \in Kinds, GiveUpStream(kind, s)
        PROVE  BinanceInv'
    BY <1>2, GiveUpKeeps
  <1>3. CASE SubscribeStreamsBatch
    <2>1. PICK kind \in Kinds : AskFor({<<kind, s>> : s \in BinanceSymbols})
      BY <1>3 DEF SubscribeStreamsBatch, Kinds
    <2>2. {<<kind, s>> : s \in BinanceSymbols} \in SUBSET StreamCalls
      BY DEF StreamCalls
    <2>3. QED
      BY <2>1, <2>2, AskKeeps
  <1>4. CASE StreamsLost
    BY <1>4, StreamsLostKeeps
  <1>5. CASE StreamsBack
    BY <1>5, StreamsBackKeeps
  <1>6. CASE MessageSent
    <2>1. PICK m \in bnCall : m.method \in {"SUBSCRIBE", "UNSUBSCRIBE"}
      BY <1>6 DEF MessageSent
    <2>2. QED
      BY <1>6, <2>1, AskIsSent, GiveUpIsSent
  <1>7. CASE CopiesNames
    BY <1>7, CopiesNamesKeeps
  <1>8. CASE NamesSent
    BY <1>8, NamesSentKeeps
  <1>9. CASE UNCHANGED bnVars
    <2>1. UNCHANGED <<bnUp, bnDue, bnCopy, bnCarried, bnUrl, bnRecord, bnCall, bnWanted, bnExcuse>>
      BY <1>9 DEF bnVars
    <2>2. QED
      BY <2>1, MonitorLeavesCalls DEF BinanceInv, BinanceTypes, DropExcuses, CarriedSoon, NothingElse
  <1>10. QED
    BY <1>1, <1>2, <1>3, <1>4, <1>5, <1>6, <1>7, <1>8, <1>9 DEF BinanceNext

(* While it is connected the Binance connection carries what was asked for *)
(* and not given up and nothing else, but for the exceptions that          *)
(* BinanceCarriesWanted names - for any number of symbols, requests and    *)
(* drops.                                                                  *)
THEOREM BinanceCarries == BinanceSpec => []BinanceCarriesWanted
  <1>1. BinanceInit => BinanceInv
    BY DEF BinanceInit, BinanceInv, BinanceTypes, RecordAgrees, DropExcuses, CarriedSoon, NothingElse, Names
  <1>2. BinanceInv => BinanceCarriesWanted
    <2>1. SUFFICES ASSUME BinanceInv, bnUp, StreamsRest, bnCall = {}
                   PROVE  /\ bnUrl \cup Names(bnWanted \ bnExcuse) \subseteq bnCarried
                          /\ bnCarried \subseteq bnUrl \cup Names(bnWanted \cup bnExcuse)
      BY DEF BinanceCarriesWanted, Names
    <2>2. Asked = {} /\ Dropped = {} /\ ~ bnDue /\ bnCopy = {}
      BY <2>1 DEF Asked, Dropped, StreamsRest
    <2>3. QED
      BY <2>1, <2>2 DEF BinanceInv, CarriedSoon, NothingElse, Names
  <1>3. QED
    BY <1>1, <1>2, BinanceKeeps, PTL DEF BinanceSpec

-----------------------------------------------------------------------------
(* RiskMemory: the rate window *)

Fits == (Minute + 1) * Second
Window(t, ticks) == {i \in DOMAIN sent : sent[i] > t - ticks /\ sent[i] =< t}

RateTypes ==
    /\ clock \in Nat /\ stamps \in Seq(Nat) /\ sent \in Seq(Nat) /\ checked \in BOOLEAN
    /\ turnedDown \subseteq Nat

InTime ==
    /\ \A i, j \in 1 .. Len(sent) : i =< j => sent[i] =< sent[j]
    /\ \A i \in 1 .. Len(sent) : sent[i] =< clock
    /\ \A t \in turnedDown : t =< clock

(* The stamps are the orders but for the first d. *)
StampsAfter(d) ==
    /\ Len(sent) = d + Len(stamps)
    /\ \A i \in 1 .. Len(stamps) : stamps[i] = sent[i + d]
    /\ \A j \in 1 .. d : sent[j] =< clock - Fits

Bounded == \A i \in 1 .. Len(sent) : Count(sent[i], Second) =< PerSecond /\ Count(sent[i], Fits) =< PerMinute
Roomy == checked => Count(clock, Second) < PerSecond /\ Count(clock, Fits) < PerMinute
Refusals == \A t \in turnedDown : Count(t, Second) >= PerSecond \/ Count(t, Fits) >= PerMinute

RateInv == RateTypes /\ InTime /\ (\E d \in Nat : StampsAfter(d)) /\ Bounded /\ Roomy /\ Refusals

LEMMA FitsType == Fits \in Nat /\ Second \in Nat /\ 0 < Second /\ Second =< Fits
  <1>1. Second \in Nat \ {0} /\ Minute \in Nat \ {0}
    BY RiskMemoryAssumption
  <1>2. Fits = Minute * Second + Second /\ Minute * Second \in Nat
    BY <1>1 DEF Fits
  <1>3. QED
    BY <1>1, <1>2

(* Ages, cut to whole seconds, and what they are compared with. *)
LEMMA CutAge ==
  ASSUME NEW x \in Nat
  PROVE  /\ x \div Second \in Nat
         /\ x \div Second < 1 <=> x < Second
         /\ x \div Second =< Minute <=> x < Fits
  <1>1. Second \in Nat \ {0} /\ Minute \in Nat
    BY RiskMemoryAssumption
  <1>2. x \div Second \in Nat /\ (x \div Second < 1 <=> x < Second)
    BY <1>1
  <1>3. x \div Second =< Minute <=> x < (Minute + 1) * Second
    BY <1>1, SMTT(30)
  <1>4. QED
    BY <1>2, <1>3 DEF Fits

LEMMA AgeFacts ==
  ASSUME clock \in Nat, NEW stamp \in Nat, stamp =< clock
  PROVE  /\ Age(stamp) \in Nat
         /\ Age(stamp) < 1 <=> stamp > clock - Second
         /\ Age(stamp) =< Minute <=> stamp > clock - Fits
  <1>1. clock - stamp \in Nat
    OBVIOUS
  <1>2. QED
    BY <1>1, CutAge, FitsType DEF Age

LEMMA WindowFinite ==
  ASSUME sent \in Seq(Nat), NEW t, NEW ticks
  PROVE  IsFiniteSet(Window(t, ticks)) /\ Cardinality(Window(t, ticks)) \in Nat
  <1>1. Window(t, ticks) \in SUBSET (1 .. Len(sent)) /\ Len(sent) \in Nat
    BY DEF Window
  <1>2. IsFiniteSet(1 .. Len(sent))
    BY <1>1, FS_Interval
  <1>3. IsFiniteSet(Window(t, ticks))
    BY <1>1, <1>2, FS_Subset
  <1>4. QED
    BY <1>3, FS_CardinalityType

LEMMA CountIsWindow == \A t, ticks : Count(t, ticks) = Cardinality(Window(t, ticks))
  BY DEF Count, Window

(* A part of the stamps has as many members as that part of the orders. *)
LEMMA Shifted ==
  ASSUME NEW n \in Nat, NEW d \in Nat, NEW A \in SUBSET (1 .. n)
  PROVE  Cardinality({i + d : i \in A}) = Cardinality(A)
  <1> DEFINE B == {i + d : i \in A}
             f == [i \in A |-> i + d]
  <1>1. IsFiniteSet(A)
    <2>1. IsFiniteSet(1 .. n)
      BY FS_Interval
    <2>2. QED
      BY <2>1, FS_Subset
  <1>2. f \in [A -> B] /\ \A b \in B : \E a \in A : f[a] = b
    OBVIOUS
  <1>3. \A a, b \in A : f[a] = f[b] => a = b
    OBVIOUS
  <1>4. f \in Bijection(A, B)
    BY <1>2, <1>3 DEF Bijection, Injection, Surjection, IsInjective
  <1>5. QED
    BY <1>1, <1>4, FS_Bijection DEF ExistsBijection

(* The orders younger than a second, and those younger than the window,    *)
(* are those of the stamps.                                                *)
LEMMA StampsCount ==
  ASSUME RateTypes, InTime, NEW d \in Nat, StampsAfter(d)
  PROVE  /\ LastSecond(stamps) = Count(clock, Second)
         /\ (\A i \in 1 .. Len(stamps) : Age(stamps[i]) =< Minute) => Len(stamps) = Count(clock, Fits)
  <1> DEFINE n == Len(stamps)
             A == {i \in 1 .. n : Age(stamps[i]) < 1}
  <1>1. n \in Nat /\ DOMAIN stamps = 1 .. n /\ DOMAIN sent = 1 .. n + d /\ clock \in Nat
    BY DEF RateTypes, StampsAfter
  <1>2. \A i \in 1 .. n : /\ stamps[i] \in Nat /\ stamps[i] = sent[i + d] /\ i + d \in 1 .. n + d
                          /\ stamps[i] =< clock
    BY <1>1 DEF RateTypes, StampsAfter, InTime
  <1>3. \A i \in 1 .. n : /\ Age(stamps[i]) < 1 <=> stamps[i] > clock - Second
                          /\ Age(stamps[i]) =< Minute <=> stamps[i] > clock - Fits
    BY <1>1, <1>2, AgeFacts
  <1>4. \A j \in 1 .. n + d : j \in 1 .. d \/ (j - d \in 1 .. n /\ j = (j - d) + d)
    BY <1>1
  <1>5. \A j \in 1 .. n + d : sent[j] \in Nat /\ sent[j] =< clock
    BY <1>1 DEF RateTypes, InTime
  <1>6. \A j \in 1 .. d : ~ (sent[j] > clock - Second) /\ ~ (sent[j] > clock - Fits)
    BY <1>1, <1>5, FitsType DEF StampsAfter
  <1>7. Window(clock, Second) = {i + d : i \in A}
    <2>1. ASSUME NEW j \in Window(clock, Second)
          PROVE  j \in {i + d : i \in A}
      <3>1. j \in 1 .. n + d /\ sent[j] > clock - Second
        BY <1>1, <2>1 DEF Window
      <3>2. j - d \in 1 .. n /\ j = (j - d) + d
        BY <1>4, <1>6, <3>1
      <3>3. j - d \in A
        BY <1>2, <1>3, <3>1, <3>2
      <3>4. QED
        BY <3>2, <3>3
    <2>2. ASSUME NEW i \in A
          PROVE  i + d \in Window(clock, Second)
      BY <1>1, <1>2, <1>3, <2>2 DEF Window
    <2>3. QED
      BY <2>1, <2>2
  <1>8. LastSecond(stamps) = Cardinality(A)
    BY <1>1 DEF LastSecond
  <1>9. Cardinality({i + d : i \in A}) = Cardinality(A)
    <2>1. A \in SUBSET (1 .. n)
      OBVIOUS
    <2> HIDE DEF A, n
    <2>2. QED
      BY <1>1, <2>1, Shifted
  <1>10. ASSUME \A i \in 1 .. n : Age(stamps[i]) =< Minute
         PROVE  n = Count(clock, Fits)
    <2> DEFINE D == 1 .. n
    <2>1. Window(clock, Fits) = {i + d : i \in D}
      <3>1. ASSUME NEW j \in Window(clock, Fits)
            PROVE  j \in {i + d : i \in D}
        BY <1>1, <1>4, <1>6, <3>1 DEF Window
      <3>2. ASSUME NEW i \in D
            PROVE  i + d \in Window(clock, Fits)
        BY <1>1, <1>2, <1>3, <1>10, <3>2 DEF Window
      <3>3. QED
        BY <3>1, <3>2
    <2>2. Cardinality(D) = n
      <3>1. n \in Int /\ 1 \in Int /\ (1 > n => n = 0)
        BY <1>1
      <3> HIDE DEF n
      <3>2. Cardinality(1 .. n) = IF 1 > n THEN 0 ELSE n - 1 + 1
        BY <3>1, FS_Interval
      <3>3. QED
        BY <3>1, <3>2
    <2>3. D \in SUBSET (1 .. n)
      OBVIOUS
    <2> HIDE DEF D, n
    <2>4. Cardinality({i + d : i \in D}) = Cardinality(D)
      BY <1>1, <2>3, Shifted
    <2>5. QED
      BY <2>1, <2>2, <2>4, CountIsWindow
  <1>11. QED
    BY <1>7, <1>8, <1>9, <1>10, CountIsWindow

(* The same as a formula, which also holds of the next state. *)
CountsAgree ==
    RateTypes /\ InTime =>
      \A d \in Nat : StampsAfter(d) =>
        /\ LastSecond(stamps) = Count(clock, Second)
        /\ (\A i \in 1 .. Len(stamps) : Age(stamps[i]) =< Minute) => Len(stamps) = Count(clock, Fits)

LEMMA StampsCountAlways == CountsAgree
  BY StampsCount DEF CountsAgree

-----------------------------------------------------------------------------
LEMMA CheckKeeps == RateInv /\ CheckRateLimit => RateInv'
  <1> SUFFICES ASSUME RateInv, CheckRateLimit
               PROVE  RateInv'
    OBVIOUS
  <1>1. PICK d \in Nat : StampsAfter(d)
    BY DEF RateInv
  <1>2. PICK k \in 0 .. Len(stamps) : Pruned(k)
    BY DEF CheckRateLimit
  <1>3. clock' = clock /\ sent' = sent
    BY DEF CheckRateLimit
  <1>4. Len(stamps) \in Nat /\ k \in Nat /\ stamps \in Seq(Nat) /\ clock \in Nat /\ sent \in Seq(Nat)
    BY DEF RateInv, RateTypes
  <1>5. stamps' \in Seq(Nat) /\ Len(stamps') = Len(stamps) - k
        /\ \A i \in 1 .. Len(stamps) - k : stamps'[i] = stamps[i + k]
    BY <1>2, <1>4 DEF Pruned
  <1>6. \A i \in 1 .. Len(stamps) : /\ stamps[i] = sent[i + d] /\ stamps[i] \in Nat /\ i + d \in 1 .. Len(sent)
                                    /\ stamps[i] =< clock
    <2>1. Len(sent) = d + Len(stamps) /\ \A i \in 1 .. Len(stamps) : stamps[i] = sent[i + d]
      BY <1>1 DEF StampsAfter
    <2>2. \A i \in 1 .. Len(stamps) : stamps[i] \in Nat /\ i + d \in 1 .. Len(sent)
      BY <1>4, <2>1
    <2>3. \A j \in 1 .. Len(sent) : sent[j] =< clock
      BY DEF RateInv, InTime
    <2>4. QED
      BY <2>1, <2>2, <2>3
  <1>7. RateTypes'
    BY <1>3, <1>4, <1>5 DEF RateInv, RateTypes, CheckRateLimit, Within
  <1>8. InTime'
    BY <1>3, <1>4 DEF RateInv, InTime, CheckRateLimit
  <1>9. StampsAfter(d + k)'
    <2>1. Len(sent) = (d + k) + Len(stamps')
      BY <1>1, <1>4, <1>5 DEF StampsAfter
    <2>2. \A i \in 1 .. Len(stamps') : stamps'[i] = sent[i + (d + k)]
      BY <1>4, <1>5, <1>6
    <2>3. ASSUME NEW j \in 1 .. d + k
          PROVE  sent[j] =< clock - Fits
      <3>1. CASE j \in 1 .. d
        BY <1>1, <3>1 DEF StampsAfter
      <3>2. CASE j \notin 1 .. d
        <4>1. j - d \in 1 .. k /\ j - d \in 1 .. Len(stamps) /\ (j - d) + d = j
          BY <1>4, <3>2
        <4>2. Age(stamps[j - d]) > Minute
          BY <1>2, <4>1 DEF Pruned
        <4>3. stamps[j - d] \in Nat /\ stamps[j - d] =< clock /\ stamps[j - d] = sent[j]
          BY <1>6, <4>1
        <4>4. ~ (Age(sent[j]) =< Minute)
          BY <1>4, <4>2, <4>3, AgeFacts, RiskMemoryAssumption
        <4>5. QED
          BY <1>4, <4>3, <4>4, AgeFacts, FitsType
      <3>3. QED
        BY <3>1, <3>2
    <2>4. QED
      BY <1>3, <2>1, <2>2, <2>3 DEF StampsAfter, Fits
  <1>10. \A i \in 1 .. Len(stamps') : Age(stamps'[i]) =< Minute
    <2> SUFFICES ASSUME NEW i \in 1 .. Len(stamps')
                 PROVE  Age(stamps'[i]) =< Minute
      OBVIOUS
    <2>1. k < Len(stamps) /\ k + 1 \in 1 .. Len(stamps) /\ i + k \in 1 .. Len(stamps) /\ stamps'[i] = stamps[i + k]
      <3>1. Len(stamps) \in Nat /\ k \in Nat /\ Len(stamps') = Len(stamps) - k
        BY <1>4, <1>5
      <3>2. i \in 1 .. Len(stamps) - k
        BY <3>1
      <3>3. stamps'[i] = stamps[i + k]
        BY <1>5, <3>2
      <3>4. QED
        BY <3>1, <3>2, <3>3
    <2>2. Age(stamps[k + 1]) =< Minute
      BY <1>2, <2>1 DEF Pruned
    <2>3. stamps[k + 1] > clock - Fits
      BY <1>4, <1>6, <2>1, <2>2, AgeFacts
    <2>4. stamps[k + 1] =< stamps[i + k]
      <3>1. k + 1 + d \in 1 .. Len(sent) /\ i + k + d \in 1 .. Len(sent) /\ k + 1 + d =< i + k + d
        BY <1>4, <1>6, <2>1
      <3>2. sent[k + 1 + d] =< sent[i + k + d]
        BY <3>1 DEF RateInv, InTime
      <3>3. stamps[k + 1] = sent[k + 1 + d] /\ stamps[i + k] = sent[i + k + d]
        BY <1>6, <2>1
      <3>4. QED
        BY <3>2, <3>3
    <2>5. stamps[i + k] > clock - Fits
      <3>1. stamps[i + k] \in Nat /\ stamps[k + 1] \in Nat
        BY <1>6, <2>1
      <3>2. clock - Fits \in Int
        BY <1>4, FitsType
      <3>3. QED
        BY <2>3, <2>4, <3>1, <3>2
    <2>6. QED
      BY <1>4, <1>6, <2>1, <2>5, AgeFacts
  <1>11. LastSecond(stamps') = Count(clock, Second) /\ Len(stamps') = Count(clock, Fits)
    <2>1. CountsAgree'
      BY StampsCountAlways, PTL
    <2>2. d + k \in Nat
      BY <1>4
    <2>3. (LastSecond(stamps) = Count(clock, Second))'
          /\ ((\A i \in 1 .. Len(stamps) : Age(stamps[i]) =< Minute) => Len(stamps) = Count(clock, Fits))'
      BY <1>7, <1>8, <1>9, <2>1, <2>2 DEF CountsAgree
    <2>4. QED
      BY <1>3, <1>10, <2>3 DEF LastSecond, Age, Count, Fits
  <1>12. Bounded'
    BY <1>3 DEF RateInv, Bounded, Count, Fits
  <1>13. checked' = (Count(clock, Second) < PerSecond /\ Count(clock, Fits) < PerMinute)
    BY <1>11 DEF CheckRateLimit, Within
  <1>14. Roomy'
    BY <1>3, <1>13 DEF Roomy, Count, Fits
  <1>15. Refusals'
    <2>1. Count(clock, Second) \in Nat /\ Count(clock, Fits) \in Nat /\ PerSecond \in Nat /\ PerMinute \in Nat
      BY <1>4, WindowFinite, CountIsWindow, RiskMemoryAssumption
    <2> DEFINE a == Count(clock, Second)  b == Count(clock, Fits)
    <2>2. ~ checked' => a >= PerSecond \/ b >= PerMinute
      <3>1. ~ checked' => ~ (a < PerSecond /\ b < PerMinute)
        BY <1>13
      <3> HIDE DEF a, b
      <3>2. QED
        BY <2>1, <3>1 DEF a, b
    <2>3. \A t \in turnedDown' : Count(t, Second) >= PerSecond \/ Count(t, Fits) >= PerMinute
      BY <2>2 DEF CheckRateLimit, RateInv, Refusals
    <2>4. QED
      BY <1>3, <2>3 DEF Refusals, Count, Fits
  <1>16. QED
    BY <1>7, <1>8, <1>9, <1>12, <1>14, <1>15, <1>4 DEF RateInv

LEMMA RecordKeeps == RateInv /\ RecordOrderExecution => RateInv'
  <1> SUFFICES ASSUME RateInv, RecordOrderExecution
               PROVE  RateInv'
    OBVIOUS
  <1> DEFINE n == Len(sent)  m == Len(stamps)
  <1>1. PICK d \in Nat : StampsAfter(d)
    BY DEF RateInv
  <1>2. n \in Nat /\ m \in Nat /\ clock \in Nat /\ sent \in Seq(Nat) /\ stamps \in Seq(Nat) /\ Len(stamps) \in Nat
    BY DEF RateInv, RateTypes
  <1>3. clock' = clock /\ sent' = Append(sent, clock) /\ stamps' = Append(stamps, clock)
    BY DEF RecordOrderExecution
  <1>4. /\ Len(sent') = n + 1 /\ sent'[n + 1] = clock /\ \A i \in 1 .. n : sent'[i] = sent[i]
        /\ Len(stamps') = m + 1 /\ stamps'[m + 1] = clock /\ \A i \in 1 .. m : stamps'[i] = stamps[i]
        /\ sent' \in Seq(Nat) /\ stamps' \in Seq(Nat)
        /\ DOMAIN sent = 1 .. n /\ DOMAIN sent' = 1 .. n + 1
    BY <1>2, <1>3
  <1>5. /\ \A i \in 1 .. n : sent[i] \in Nat /\ sent[i] =< clock
        /\ \A i, j \in 1 .. n : i =< j => sent[i] =< sent[j]
    BY <1>2 DEF RateInv, InTime
  <1>6. RateTypes'
    <2>1. turnedDown' = turnedDown /\ checked' = FALSE
      BY DEF RecordOrderExecution
    <2>2. QED
      BY <1>2, <1>3, <1>4, <2>1 DEF RateInv, RateTypes
  <1>7. n = d + m /\ (\A i \in 1 .. m : stamps[i] = sent[i + d]) /\ \A j \in 1 .. d : sent[j] =< clock - Fits
    BY <1>1 DEF StampsAfter
  <1> HIDE DEF n, m
  <1>8. InTime'
    <2>1. \A i \in 1 .. n + 1 : i \in 1 .. n \/ i = n + 1
      BY <1>2
    <2>2. ASSUME NEW i \in 1 .. n + 1, NEW j \in 1 .. n + 1, i =< j
          PROVE  sent'[i] =< sent'[j]
      <3>1. CASE j \in 1 .. n
        <4>1. i \in 1 .. n
          BY <1>2, <2>2, <3>1
        <4>2. sent'[i] = sent[i] /\ sent'[j] = sent[j]
          BY <1>4, <3>1, <4>1
        <4>3. QED
          BY <1>5, <2>2, <3>1, <4>1, <4>2
      <3>2. CASE j = n + 1
        <4>1. sent'[j] = clock
          BY <1>4, <3>2
        <4>2. CASE i \in 1 .. n
          BY <1>4, <1>5, <4>1, <4>2
        <4>3. CASE i = n + 1
          BY <1>2, <1>4, <4>1, <4>3
        <4>4. QED
          BY <2>1, <4>2, <4>3
      <3>3. QED
        BY <2>1, <3>1, <3>2
    <2>3. ASSUME NEW i \in 1 .. n + 1
          PROVE  sent'[i] =< clock
      <3>1. CASE i \in 1 .. n
        BY <1>4, <1>5, <3>1
      <3>2. CASE i = n + 1
        BY <1>2, <1>4, <3>2
      <3>3. QED
        BY <2>1, <3>1, <3>2
    <2>4. \A t \in turnedDown' : t =< clock
      BY DEF RateInv, InTime, RecordOrderExecution
    <2>5. QED
      BY <1>3, <1>4, <2>2, <2>3, <2>4 DEF InTime
  <1>9. StampsAfter(d)'
    <2>1. ASSUME NEW i \in 1 .. m + 1
          PROVE  stamps'[i] = sent'[i + d]
      <3>1. CASE i \in 1 .. m
        <4>1. i + d \in 1 .. n
          BY <1>7, <1>2, <3>1
        <4>2. QED
          BY <1>7, <1>4, <3>1, <4>1
      <3>2. CASE i = m + 1
        <4>1. i + d = n + 1
          BY <1>7, <1>2, <3>2
        <4>2. QED
          BY <1>4, <3>2, <4>1
      <3>3. QED
        BY <1>2, <3>1, <3>2
    <2>2. ASSUME NEW j \in 1 .. d
          PROVE  sent'[j] =< clock - Fits
      <3>1. j \in 1 .. n
        BY <1>7, <1>2
      <3>2. QED
        BY <1>7, <1>4, <3>1
    <2>3. n + 1 = d + (m + 1)
      BY <1>7, <1>2
    <2>4. Fits' = Fits
      BY DEF Fits
    <2>5. QED
      BY <1>3, <1>4, <2>1, <2>2, <2>3, <2>4 DEF StampsAfter
  <1>10. ASSUME NEW t \in Nat, t =< clock, NEW ticks \in Nat, 0 < ticks
        PROVE  /\ Count(t, ticks) \in Nat
               /\ Count(t, ticks)' = IF t = clock THEN Count(t, ticks) + 1 ELSE Count(t, ticks)
    <2>1. DOMAIN sent = 1 .. n /\ DOMAIN sent' = 1 .. n + 1
      BY <1>4
    <2>2. Window(t, ticks)' = IF t = clock THEN Window(t, ticks) \cup {n + 1} ELSE Window(t, ticks)
      <3>1. Window(t, ticks)' = {i \in 1 .. n + 1 : sent'[i] > t - ticks /\ sent'[i] =< t}
        BY <2>1 DEF Window
      <3>2. Window(t, ticks) = {i \in 1 .. n : sent[i] > t - ticks /\ sent[i] =< t}
        BY <2>1 DEF Window
      <3>3. \A i \in 1 .. n + 1 : i \in 1 .. n \/ i = n + 1
        BY <1>2
      <3>4. \A i \in 1 .. n : i \in 1 .. n + 1 /\ sent'[i] = sent[i]
        BY <1>2, <1>4
      <3>5. sent'[n + 1] > t - ticks /\ sent'[n + 1] =< t <=> t = clock
        BY <1>2, <1>4, <1>10
      <3>6. n + 1 \in 1 .. n + 1
        BY <1>2
      <3>7. QED
        BY <3>1, <3>2, <3>3, <3>4, <3>5, <3>6
    <2>3. n + 1 \notin Window(t, ticks)
      BY <1>2, <2>1 DEF Window
    <2>4. IsFiniteSet(Window(t, ticks)) /\ Cardinality(Window(t, ticks)) \in Nat
      BY <1>2, WindowFinite
    <2>5. Cardinality(Window(t, ticks)') =
            IF t = clock THEN Cardinality(Window(t, ticks)) + 1 ELSE Cardinality(Window(t, ticks))
      BY <2>2, <2>3, <2>4, FS_AddElement
    <2>6. Count(t, ticks) = Cardinality(Window(t, ticks)) /\ Count(t, ticks)' = Cardinality(Window(t, ticks)')
      BY DEF Count, Window
    <2>7. QED
      BY <2>4, <2>5, <2>6
  <1>11. Fits \in Nat /\ 0 < Fits /\ Second \in Nat /\ 0 < Second
    BY FitsType
  <1>12. Bounded'
    <2>1. Count(clock, Second)' =< PerSecond /\ Count(clock, Fits)' =< PerMinute
      <3>1. Count(clock, Second) < PerSecond /\ Count(clock, Fits) < PerMinute
        BY DEF RateInv, Roomy, RecordOrderExecution
      <3>2. PerSecond \in Nat /\ PerMinute \in Nat
        BY RiskMemoryAssumption
      <3>3. PICK t \in Nat : t = clock
        BY <1>2
      <3>4. Count(t, Second) \in Nat /\ Count(t, Fits) \in Nat
            /\ Count(t, Second)' = Count(t, Second) + 1 /\ Count(t, Fits)' = Count(t, Fits) + 1
        BY <1>10, <1>11, <3>3
      <3>5. Count(t, Second)' =< PerSecond /\ Count(t, Fits)' =< PerMinute
        BY <3>1, <3>2, <3>3, <3>4
      <3>6. QED
        BY <1>3, <3>3, <3>5
    <2>2. ASSUME NEW i \in 1 .. n
          PROVE  Count(sent[i], Second)' =< PerSecond /\ Count(sent[i], Fits)' =< PerMinute
      <3>1. PICK t \in Nat : t = sent[i] /\ t =< clock
        BY <1>5
      <3>2. Count(t, Second) =< PerSecond /\ Count(t, Fits) =< PerMinute
        BY <3>1 DEF RateInv, Bounded, n
      <3>3. Count(t, Second)' =< PerSecond /\ Count(t, Fits)' =< PerMinute
        <4>1. CASE t = clock
          BY <1>3, <2>1, <4>1
        <4>2. CASE t # clock
          BY <1>10, <1>11, <3>1, <3>2, <4>2
        <4>3. QED
          BY <4>1, <4>2
      <3>4. sent'[i] = t
        BY <1>4, <3>1
      <3>5. QED
        BY <3>3, <3>4
    <2>3. ASSUME NEW i \in 1 .. n + 1
          PROVE  Count(sent[i], Second)' =< PerSecond /\ Count(sent[i], Fits)' =< PerMinute
      <3>1. CASE i \in 1 .. n
        BY <2>2, <3>1
      <3>2. CASE i = n + 1
        BY <1>3, <1>4, <2>1, <3>2
      <3>3. QED
        BY <1>2, <3>1, <3>2
    <2>4. QED
      BY <1>4, <2>3 DEF Bounded
  <1>13. Roomy'
    BY DEF Roomy, RecordOrderExecution
  <1>14. Refusals'
    <2>1. turnedDown' = turnedDown /\ PerSecond \in Nat /\ PerMinute \in Nat
      BY RiskMemoryAssumption DEF RecordOrderExecution
    <2>2. ASSUME NEW t \in turnedDown
          PROVE  (Count(t, Second) >= PerSecond \/ Count(t, Fits) >= PerMinute)'
      <3>1. t \in Nat /\ t =< clock /\ (Count(t, Second) >= PerSecond \/ Count(t, Fits) >= PerMinute)
        BY <2>2 DEF RateInv, RateTypes, InTime, Refusals
      <3>2. QED
        BY <1>10, <1>11, <2>1, <3>1
    <2>3. QED
      BY <2>1, <2>2 DEF Refusals
  <1>15. QED
    BY <1>6, <1>8, <1>9, <1>12, <1>13, <1>14 DEF RateInv

LEMMA TimeKeeps == RateInv /\ TimePasses => RateInv'
  <1> SUFFICES ASSUME RateInv, TimePasses
               PROVE  RateInv'
    OBVIOUS
  <1>1. clock \in Nat /\ clock' = clock + 1 /\ sent \in Seq(Nat) /\ Fits \in Nat /\ Second \in Nat
    BY FitsType DEF RateInv, RateTypes, TimePasses
  <1>2. sent' = sent /\ stamps' = stamps /\ checked' = checked /\ turnedDown' = turnedDown
    BY DEF TimePasses
  <1>3. \A i \in 1 .. Len(sent) : sent[i] \in Nat /\ sent[i] =< clock
    BY <1>1 DEF RateInv, InTime
  <1>4. RateTypes'
    BY <1>1, <1>2 DEF RateInv, RateTypes
  <1>5. InTime'
    <2>1. \A i \in 1 .. Len(sent) : sent[i] =< clock'
      BY <1>1, <1>3
    <2>2. \A t \in turnedDown : t =< clock'
      BY <1>1 DEF RateInv, RateTypes, InTime
    <2>3. QED
      BY <1>2, <2>1, <2>2 DEF RateInv, InTime
  <1>6. PICK d \in Nat : StampsAfter(d)
    BY DEF RateInv
  <1>7. StampsAfter(d)'
    <2>1. Len(sent) = d + Len(stamps) /\ Len(stamps) \in Nat
      <3>1. stamps \in Seq(Nat)
        BY DEF RateInv, RateTypes
      <3>2. QED
        BY <1>6, <3>1 DEF StampsAfter
    <2>2. ASSUME NEW j \in 1 .. d
          PROVE  sent[j] =< clock' - Fits
      <3>1. j \in 1 .. Len(sent)
        BY <2>1
      <3>2. sent[j] \in Nat /\ sent[j] =< clock - Fits
        BY <1>3, <1>6, <3>1 DEF StampsAfter
      <3>3. QED
        BY <1>1, <3>2
    <2>3. Fits' = Fits
      BY DEF Fits
    <2>4. QED
      BY <1>2, <1>6, <2>2, <2>3 DEF StampsAfter
  <1>8. Bounded' /\ Refusals'
    BY <1>2 DEF RateInv, Bounded, Refusals, Count, Fits
  <1>9. ASSUME NEW ticks \in Nat
        PROVE  /\ Count(clock, ticks) \in Nat /\ Count(clock, ticks)' \in Nat
               /\ Count(clock, ticks)' =< Count(clock, ticks)
    <2>1. Window(clock, ticks)' \subseteq Window(clock, ticks)
      <3>1. DOMAIN sent = 1 .. Len(sent)
        BY <1>1
      <3>2. \A i \in 1 .. Len(sent) : sent[i] > clock' - ticks => sent[i] > clock - ticks
        BY <1>1, <1>3
      <3>3. QED
        BY <1>2, <1>3, <3>1, <3>2 DEF Window
    <2>2. IsFiniteSet(Window(clock, ticks)) /\ Cardinality(Window(clock, ticks)) \in Nat
      BY <1>1, WindowFinite
    <2>3. IsFiniteSet(Window(clock, ticks)') /\ Cardinality(Window(clock, ticks)') =< Cardinality(Window(clock, ticks))
      BY <2>1, <2>2, FS_Subset
    <2>4. Cardinality(Window(clock, ticks)') \in Nat
      BY <2>3, FS_CardinalityType
    <2>5. Count(clock, ticks) = Cardinality(Window(clock, ticks)) /\ Count(clock, ticks)' = Cardinality(Window(clock, ticks)')
      BY DEF Count, Window
    <2>6. QED
      BY <2>2, <2>3, <2>4, <2>5
  <1>10. Roomy'
    <2> SUFFICES ASSUME checked
                 PROVE  (Count(clock, Second) < PerSecond /\ Count(clock, Fits) < PerMinute)'
      BY <1>2 DEF Roomy
    <2>1. Count(clock, Second) < PerSecond /\ Count(clock, Fits) < PerMinute
      BY DEF RateInv, Roomy
    <2>2. PerSecond \in Nat /\ PerMinute \in Nat
      BY RiskMemoryAssumption
    <2>3. Count(clock, Second)' < PerSecond
      <3>1. PICK f \in Nat : f = Second
        BY <1>1
      <3>2. Count(clock, f)' < PerSecond
        BY <1>9, <2>1, <2>2, <3>1
      <3>3. QED
        BY <3>1, <3>2
    <2>4. (Count(clock, Fits) < PerMinute)'
      <3>1. PICK f \in Nat : f = Fits
        BY <1>1
      <3>2. Count(clock, f)' < PerMinute
        BY <1>9, <2>1, <2>2, <3>1
      <3>3. f = Fits'
        BY <3>1 DEF Fits
      <3>4. QED
        BY <3>2, <3>3
    <2>5. QED
      BY <2>3, <2>4
  <1>11. QED
    BY <1>4, <1>5, <1>7, <1>8, <1>10 DEF RateInv

LEMMA RateKeeps == RateInv /\ [RateNext \/ EquityNext]_memoryVars => RateInv'
  <1> SUFFICES ASSUME RateInv, [RateNext \/ EquityNext]_memoryVars
               PROVE  RateInv'
    OBVIOUS
  <1>1. CASE RateNext
    BY <1>1, CheckKeeps, RecordKeeps, TimeKeeps DEF RateNext
  <1>2. CASE EquityNext \/ UNCHANGED memoryVars
    <2>1. UNCHANGED <<clock, stamps, checked, sent, turnedDown>>
      BY <1>2 DEF EquityNext, UpdateAccountEquity, Midnight, memoryVars, rateVars
    <2>2. QED
      BY <2>1 DEF RateInv, RateTypes, InTime, StampsAfter, Bounded, Roomy, Refusals, Count, Fits
  <1>3. QED
    BY <1>1, <1>2

-----------------------------------------------------------------------------
(* The newest of the orders that are a second old. *)
LEMMA Newest ==
  ASSUME NEW n \in Nat, NEW S \in SUBSET (1 .. n), S # {}
  PROVE  \E m \in S : \A j \in S : j =< m
  <1> DEFINE T == {i .. n : i \in S}  D == 1 .. n
  <1>1. IsFiniteSet(D)
    BY FS_Interval
  <1>2. IsWellFoundedOn(StrictSubsetOrdering(D), SUBSET D)
    BY <1>1, FS_FiniteSubsetsOfFinite, FS_StrictSubsetOrderingWellFounded
  <1>3. T \subseteq SUBSET D /\ T # {}
    <2>1. ASSUME NEW i \in S
          PROVE  i .. n \subseteq 1 .. n
      BY <2>1
    <2>2. QED
      BY <2>1
  <1>4. PICK x \in T : \A y \in T : ~ (<<y, x>> \in StrictSubsetOrdering(D))
    <2> HIDE DEF T, D
    <2>1. QED
      BY <1>2, <1>3, WFMin
  <1>5. PICK m \in S : x = m .. n
    OBVIOUS
  <1>6. ASSUME NEW j \in S, ~ (j =< m)
        PROVE  FALSE
    <2>1. j .. n \subseteq m .. n /\ m \in m .. n /\ m \notin j .. n
      BY <1>6
    <2>2. <<j .. n, x>> \in StrictSubsetOrdering(D)
      BY <1>3, <1>5, <2>1 DEF StrictSubsetOrdering
    <2>3. QED
      BY <1>4, <2>2
  <1>7. QED
    BY <1>6

LEMMA RateIsCount == RateInv => CurrentOrderRate = Count(clock, Second)
  <1> SUFFICES ASSUME RateInv
               PROVE  CurrentOrderRate = Count(clock, Second)
    OBVIOUS
  <1> DEFINE n == Len(stamps)  old == {i \in DOMAIN stamps : Age(stamps[i]) >= 1}
  <1>1. PICK d \in Nat : StampsAfter(d)
    BY DEF RateInv
  <1>2. LastSecond(stamps) = Count(clock, Second)
    BY <1>1, StampsCount DEF RateInv
  <1>3. n \in Nat /\ clock \in Nat /\ DOMAIN stamps = 1 .. n /\ stamps \in Seq(Nat)
    BY DEF RateInv, RateTypes
  <1>4. n + d = Len(sent) /\ \A i \in 1 .. n : stamps[i] = sent[i + d]
    BY <1>1, <1>3 DEF StampsAfter
  <1>5. \A i \in 1 .. n : i + d \in 1 .. Len(sent)
    BY <1>3, <1>4
  <1>6. \A i \in 1 .. n : stamps[i] \in Nat /\ stamps[i] =< clock
    BY <1>3, <1>4, <1>5 DEF RateInv, InTime
  <1>7. ASSUME NEW i \in 1 .. n, NEW j \in 1 .. n, i =< j
        PROVE  stamps[i] =< stamps[j]
    <2>1. sent[i + d] =< sent[j + d]
      <3>1. i + d =< j + d
        BY <1>7
      <3>2. QED
        BY <1>5, <3>1 DEF RateInv, InTime
    <2>2. QED
      BY <1>4, <2>1
  <1>8. ASSUME NEW i \in 1 .. n
        PROVE  i \in old <=> stamps[i] =< clock - Second
    <2>1. Age(stamps[i]) \in Nat /\ (Age(stamps[i]) < 1 <=> stamps[i] > clock - Second)
      BY <1>3, <1>6, AgeFacts
    <2>2. Age(stamps[i]) >= 1 <=> ~ (Age(stamps[i]) < 1)
      BY <2>1
    <2>3. stamps[i] =< clock - Second <=> ~ (stamps[i] > clock - Second)
      BY <1>3, <1>6, FitsType
    <2>4. QED
      BY <1>3, <2>1, <2>2, <2>3
  <1>9. LastSecond(stamps) = Cardinality((1 .. n) \ old)
    <2>1. \A i \in 1 .. n : Age(stamps[i]) \in Nat
      BY <1>3, <1>6, AgeFacts
    <2>2. {i \in DOMAIN stamps : Age(stamps[i]) < 1} = (1 .. n) \ old
      BY <1>3, <2>1
    <2>3. QED
      BY <2>2 DEF LastSecond
  <1>10. old \in SUBSET (1 .. n)
    BY <1>3
  <1>11. CurrentOrderRate = IF old = {} THEN n ELSE n - (CHOOSE i \in old : \A j \in old : j =< i)
    BY DEF CurrentOrderRate
  <1> HIDE DEF n, old
  <1>12. CASE old = {}
    <2>1. Cardinality(1 .. n) = IF 1 > n THEN 0 ELSE n - 1 + 1
      BY <1>3, FS_Interval
    <2>2. QED
      BY <1>2, <1>3, <1>9, <1>11, <1>12, <2>1
  <1>13. CASE old # {}
    <2> DEFINE m == CHOOSE i \in old : \A j \in old : j =< i
    <2>1. \E i \in old : \A j \in old : j =< i
      BY <1>3, <1>10, <1>13, Newest
    <2>2. m \in old /\ \A j \in old : j =< m
      BY <2>1
    <2> HIDE DEF m
    <2>3. m \in 1 .. n
      BY <1>10, <2>2
    <2>4. ASSUME NEW i \in 1 .. n, i =< m
          PROVE  i \in old
      <3>1. stamps[i] =< stamps[m] /\ stamps[m] =< clock - Second
        BY <1>7, <1>8, <2>2, <2>3, <2>4
      <3>2. stamps[i] =< clock - Second
        BY <1>3, <1>6, <2>3, <3>1, FitsType
      <3>3. QED
        BY <1>8, <3>2
    <2>5. (1 .. n) \ old = m + 1 .. n
      BY <1>3, <2>2, <2>3, <2>4
    <2>6. Cardinality(m + 1 .. n) = IF m + 1 > n THEN 0 ELSE n - (m + 1) + 1
      BY <1>3, <2>3, FS_Interval
    <2>7. Cardinality(m + 1 .. n) = n - m
      BY <1>3, <2>3, <2>6
    <2>8. CurrentOrderRate = n - m
      BY <1>11, <1>13 DEF m
    <2>9. QED
      BY <1>2, <1>9, <2>5, <2>7, <2>8
  <1>14. QED
    BY <1>12, <1>13

-----------------------------------------------------------------------------
(* RiskMemory: the equities *)

(* The equities of the day have the same sign. *)
Signed == heard # <<>> /\ ((\A e \in ToSet(heard) : e > 0) \/ (\A e \in ToSet(heard) : e < 0))

EquityTypes ==
    /\ mode \in {"daily_peak", "daily_initial"}
    /\ day \in Nat /\ resetDate \in Nat /\ resetDate =< day
    /\ peak \in Int /\ initial \in Int /\ heard \in Seq(Int)

(* The day has begun when something was heard of it, and then the first    *)
(* and the highest are those of this day.                                  *)
DayBegun == heard # <<>> <=> resetDate = day
PeakTrue ==
    Signed => /\ initial = Head(heard)
              /\ peak \in ToSet(heard) /\ \A x \in ToSet(heard) : x =< peak

EquityInv == EquityTypes /\ DayBegun /\ PeakTrue /\ DrawdownTold

LEMMA HeardOne ==
  ASSUME NEW s \in Seq(Int), NEW e \in Int
  PROVE  /\ Append(s, e) \in Seq(Int) /\ Append(s, e) # <<>>
         /\ ToSet(Append(s, e)) = ToSet(s) \cup {e}
         /\ Last(Append(s, e)) = e
         /\ Head(Append(s, e)) = IF s = <<>> THEN e ELSE Head(s)
         /\ s = <<>> => ToSet(s) = {}
         /\ Len(Append(s, e)) - 1 = Len(s)
         /\ \A i \in 1 .. Len(s) : Append(s, e)[i] \in ToSet(s)
  <1>1. /\ Append(s, e) \in Seq(Int) /\ Len(Append(s, e)) = Len(s) + 1 /\ Len(s) \in Nat
        /\ Append(s, e)[Len(s) + 1] = e /\ \A i \in 1 .. Len(s) : Append(s, e)[i] = s[i]
        /\ DOMAIN Append(s, e) = 1 .. Len(s) + 1 /\ DOMAIN s = 1 .. Len(s)
        /\ Append(s, e) # <<>>
    OBVIOUS
  <1>2. \A i \in 1 .. Len(s) + 1 : i \in 1 .. Len(s) \/ i = Len(s) + 1
    BY <1>1
  <1>3. \A i \in 1 .. Len(s) : i \in 1 .. Len(s) + 1
    BY <1>1
  <1>4. Len(s) + 1 \in 1 .. Len(s) + 1
    BY <1>1
  <1>5. ToSet(Append(s, e)) = ToSet(s) \cup {e}
    BY <1>1, <1>2, <1>3, <1>4 DEF ToSet
  <1>6. Last(Append(s, e)) = e /\ Len(Append(s, e)) - 1 = Len(s)
    BY <1>1 DEF Last
  <1>7. \A i \in 1 .. Len(s) : Append(s, e)[i] \in ToSet(s)
    BY <1>1 DEF ToSet
  <1>8. Head(Append(s, e)) = IF s = <<>> THEN e ELSE Head(s)
    <2>1. Head(Append(s, e)) = Append(s, e)[1] /\ Head(s) = s[1]
      BY <1>1
    <2>2. CASE s = <<>>
      BY <1>1, <2>1, <2>2
    <2>3. CASE s # <<>>
      BY <1>1, <2>1, <2>3
    <2>4. QED
      BY <2>2, <2>3
  <1>9. s = <<>> => ToSet(s) = {}
    BY DEF ToSet
  <1>10. QED
    BY <1>1, <1>5, <1>6, <1>7, <1>8, <1>9

(* The alarm that the code raises, for a base of either sign. *)
LEMMA FallOfGain ==
  ASSUME NEW base \in Int, NEW e \in Int, base < 0, FallsFrom(base, e)
  PROVE  base < e
  <1>1. MaxDrawdown \in Nat
    BY RiskMemoryAssumption
  <1>2. MaxDrawdown * base \in Int /\ MaxDrawdown * base =< 0
    BY <1>1
  <1>3. (base - e) * 100 < MaxDrawdown * base
    BY DEF FallsFrom
  <1>4. QED
    BY <1>2, <1>3

LEMMA PollKeeps ==
  ASSUME EquityInv, NEW equity \in Equities, UpdateAccountEquity(equity)
  PROVE  EquityInv'
  <1>1. equity \in Int
    BY RiskMemoryAssumption
  <1>2. /\ day' = day /\ mode' = mode /\ heard' = Append(heard, equity)
        /\ heard \in Seq(Int) /\ peak \in Int /\ initial \in Int /\ resetDate \in Nat /\ day \in Nat
    BY DEF EquityInv, EquityTypes, UpdateAccountEquity
  <1> DEFINE old == ToSet(heard)  new == ToSet(heard')
  <1>3. /\ heard' \in Seq(Int) /\ heard' # <<>> /\ new = old \cup {equity} /\ Last(heard') = equity
        /\ Head(heard') = (IF heard = <<>> THEN equity ELSE Head(heard))
        /\ (heard = <<>> => old = {})
        /\ Len(heard') - 1 = Len(heard) /\ \A i \in 1 .. Len(heard) : heard'[i] \in old
    BY <1>1, <1>2, HeardOne
  <1>4. old \subseteq Int
    BY <1>2 DEF ToSet
  <1>5. EquityTypes' /\ DayBegun'
    <2>1. peak' \in Int /\ initial' \in Int /\ resetDate' = day
      BY <1>1, <1>2 DEF UpdateAccountEquity, StartsDay
    <2>2. QED
      BY <1>2, <1>3, <2>1 DEF EquityInv, EquityTypes, DayBegun
  <1>6. Signed' => heard = <<>> \/ Signed
    BY <1>2, <1>3 DEF Signed
  <1>7. ASSUME Signed'
        PROVE  /\ initial' = Head(heard') /\ peak' \in new /\ \A x \in new : x =< peak'
               /\ heard = <<>> => alarmed' = FALSE
               /\ heard # <<>> => /\ Signed /\ peak # 0
                                  /\ peak \in old /\ (\A x \in old : x =< peak) /\ initial = Head(heard)
                                  /\ alarmed' = IF mode = "daily_initial" THEN initial > 0 /\ FallsFrom(initial, equity)
                                                                          ELSE FallsFrom(peak, equity)
                                  /\ peak' = (IF equity > peak THEN equity ELSE peak)
    <2>1. CASE heard = <<>>
      <3>1. StartsDay(equity)
        BY <2>1 DEF EquityInv, DayBegun, UpdateAccountEquity
      <3>2. new = {equity}
        BY <1>3, <2>1
      <3>3. QED
        BY <1>1, <1>3, <2>1, <3>1, <3>2 DEF StartsDay
    <2>2. CASE heard # <<>>
      <3>1. Signed /\ initial = Head(heard) /\ peak \in old /\ \A x \in old : x =< peak
        BY <1>6, <1>7, <2>2 DEF EquityInv, PeakTrue
      <3>2. peak # 0
        BY <3>1 DEF Signed
      <3>3. /\ alarmed' = IF mode = "daily_initial" THEN initial > 0 /\ FallsFrom(initial, equity)
                                                    ELSE FallsFrom(peak, equity)
            /\ peak' = (IF equity > peak THEN equity ELSE peak) /\ initial' = initial
        BY <2>2, <3>2 DEF EquityInv, DayBegun, UpdateAccountEquity
      <3>4. peak' \in new /\ \A x \in new : x =< peak'
        BY <1>1, <1>2, <1>3, <1>4, <3>1, <3>3
      <3>5. QED
        BY <1>3, <2>2, <3>1, <3>2, <3>3, <3>4
    <2>3. QED
      BY <2>1, <2>2
  <1>8. PeakTrue'
    BY <1>7 DEF PeakTrue
  <1> DEFINE highest == CHOOSE e \in new : \A x \in new : x =< e
             base == IF mode = "daily_initial" THEN Head(heard') ELSE highest
  <1>9. Signed' => highest = peak'
    <2>1. ASSUME Signed'
          PROVE  highest = peak'
      <3>1. highest \in new /\ \A x \in new : x =< highest
        BY <1>7, <2>1
      <3>2. highest =< peak' /\ peak' =< highest /\ highest \in Int /\ peak' \in Int
        BY <1>1, <1>3, <1>4, <1>7, <2>1, <3>1
      <3>3. QED
        BY <3>2
    <2>2. QED
      BY <2>1
  <1>10. heard # <<>> => Head(heard) \in old
    BY <1>2 DEF ToSet
  <1>11. Signed' <=> (\A e \in new : e > 0) \/ (\A e \in new : e < 0)
    BY <1>3 DEF Signed
  <1>12. MaxDrawdown \in Nat
    BY RiskMemoryAssumption
  <1> HIDE DEF new, old, highest
  <1>13. ASSUME \A e \in new : e > 0
         PROVE  alarmed' <=> (base - equity) * 100 > MaxDrawdown * base
    <2>1. ASSUME NEW b \in Int, b > 0
          PROVE  MaxDrawdown * b \in Int /\ MaxDrawdown * b >= 0
      BY <1>12, <2>1
    <2>2. equity \in Int /\ equity > 0 /\ highest = peak'
      BY <1>1, <1>3, <1>9, <1>13, <1>11
    <2>3. CASE heard = <<>>
      <3>1. alarmed' = FALSE /\ base = equity
        BY <1>3, <1>7, <1>13, <1>11, <2>2, <2>3
      <3>2. (equity - equity) * 100 = 0
        BY <2>2
      <3>3. QED
        BY <2>1, <2>2, <3>1, <3>2
    <2>4. CASE heard # <<>>
      <3>1. /\ peak \in old /\ initial = Head(heard) /\ peak' = (IF equity > peak THEN equity ELSE peak)
            /\ alarmed' = IF mode = "daily_initial" THEN initial > 0 /\ FallsFrom(initial, equity)
                                                    ELSE FallsFrom(peak, equity)
        BY <1>7, <1>13, <1>11, <2>4
      <3>2. peak \in Int /\ peak > 0 /\ initial \in Int /\ initial > 0 /\ initial = Head(heard')
        BY <1>10, <1>3, <1>4, <1>13, <2>4, <3>1
      <3>3. ASSUME NEW b \in Int, b > 0
            PROVE  FallsFrom(b, equity) <=> (b - equity) * 100 > MaxDrawdown * b
        BY <3>3 DEF FallsFrom
      <3>4. CASE mode = "daily_initial"
        BY <3>1, <3>2, <3>3, <3>4
      <3>5. CASE mode # "daily_initial" /\ ~ (equity > peak)
        BY <2>2, <3>1, <3>2, <3>3, <3>5
      <3>6. CASE mode # "daily_initial" /\ equity > peak
        <4>1. ~ ((peak - equity) * 100 > MaxDrawdown * peak) /\ ~ ((equity - equity) * 100 > MaxDrawdown * equity)
          BY <2>1, <2>2, <3>2, <3>6
        <4>2. base = equity
          BY <2>2, <3>1, <3>6
        <4>3. alarmed' = FallsFrom(peak, equity)
          BY <3>1, <3>6
        <4>4. QED
          BY <3>2, <3>3, <4>1, <4>2, <4>3
      <3>7. QED
        BY <3>4, <3>5, <3>6
    <2>5. QED
      BY <2>3, <2>4
  <1>14. ASSUME \A e \in new : e < 0, alarmed'
         PROVE  mode = "daily_peak" /\ \A i \in 1 .. Len(heard) : heard'[i] < equity
    <2>1. Signed' /\ heard # <<>>
      BY <1>7, <1>14, <1>11
    <2>2. peak \in old /\ (\A x \in old : x =< peak) /\ Head(heard) \in old /\ initial = Head(heard)
      BY <1>10, <1>7, <2>1
    <2>3. peak \in Int /\ peak < 0 /\ initial \in Int /\ initial < 0
      BY <1>3, <1>4, <1>14, <2>2
    <2>4. mode # "daily_initial" /\ FallsFrom(peak, equity)
      <3>1. ~ (initial > 0)
        BY <2>3
      <3>2. alarmed' = IF mode = "daily_initial" THEN initial > 0 /\ FallsFrom(initial, equity)
                                                ELSE FallsFrom(peak, equity)
        BY <1>7, <2>1
      <3>3. QED
        BY <1>14, <3>1, <3>2
    <2>5. mode = "daily_peak"
      BY <2>4 DEF EquityInv, EquityTypes
    <2>6. peak < equity
      BY <1>1, <2>3, <2>4, FallOfGain
    <2>7. ASSUME NEW i \in 1 .. Len(heard)
          PROVE  heard'[i] < equity
      <3>1. heard'[i] \in Int /\ heard'[i] =< peak
        BY <1>3, <1>4, <2>2
      <3>2. QED
        BY <1>1, <2>3, <2>6, <3>1
    <2>8. QED
      BY <2>5, <2>7
  <1>15. DrawdownTold'
    BY <1>2, <1>3, <1>13, <1>14 DEF DrawdownTold, highest, new
  <1>16. QED
    BY <1>5, <1>8, <1>15 DEF EquityInv

LEMMA EquityKeeps == EquityInv /\ [RateNext \/ EquityNext]_memoryVars => EquityInv'
  <1> SUFFICES ASSUME EquityInv, [RateNext \/ EquityNext]_memoryVars
               PROVE  EquityInv'
    OBVIOUS
  <1>1. ASSUME NEW equity \in Equities, UpdateAccountEquity(equity)
        PROVE  EquityInv'
    BY <1>1, PollKeeps
  <1>2. CASE Midnight
    <2>1. heard' = <<>> /\ resetDate' # day'
      BY <1>2 DEF Midnight, EquityInv, EquityTypes
    <2>2. EquityTypes'
      BY <1>2 DEF Midnight, EquityInv, EquityTypes
    <2>3. QED
      BY <2>1, <2>2 DEF EquityInv, DayBegun, PeakTrue, Signed, DrawdownTold
  <1>3. CASE RateNext \/ UNCHANGED memoryVars
    <2>1. UNCHANGED <<mode, day, peak, initial, resetDate, alarmed, heard>>
      BY <1>3 DEF RateNext, CheckRateLimit, RecordOrderExecution, TimePasses, memoryVars, equityVars
    <2>2. QED
      BY <2>1 DEF EquityInv, EquityTypes, DayBegun, PeakTrue, Signed, DrawdownTold
  <1>4. QED
    BY <1>1, <1>2, <1>3 DEF EquityNext

(* RiskMemoryTrue: for any limits, orders, times and equities, no second   *)
(* and no window of the code has more orders than its limit, an order is   *)
(* refused for its rate only when one of them is full, and the drawdown    *)
(* alarm is the one that the day's first or highest equity calls for.      *)
THEOREM MemoryTrue == MemorySpec => []RiskMemoryTrue
  <1>1. MemoryInit => RateInv /\ EquityInv
    <2> SUFFICES ASSUME MemoryInit
                 PROVE  RateInv /\ EquityInv
      OBVIOUS
    <2>1. RateTypes /\ InTime /\ Bounded /\ Roomy /\ Refusals /\ StampsAfter(0)
      <3>1. sent = <<>> /\ stamps = <<>> /\ Len(sent) = 0 /\ Len(stamps) = 0 /\ turnedDown = {}
            /\ checked = FALSE /\ clock = 0
        BY DEF MemoryInit
      <3>2. RateTypes
        <4>1. <<>> \in Seq(Nat)
          OBVIOUS
        <4>2. QED
          BY <3>1, <4>1 DEF RateTypes
      <3>3. InTime
        BY <3>1 DEF InTime
      <3>4. Bounded /\ Roomy /\ Refusals
        BY <3>1 DEF Bounded, Roomy, Refusals
      <3>5. StampsAfter(0)
        BY <3>1 DEF StampsAfter
      <3>6. QED
        BY <3>2, <3>3, <3>4, <3>5
    <2>2. EquityInv
      BY DEF MemoryInit, EquityInv, EquityTypes, DayBegun, PeakTrue, Signed, DrawdownTold
    <2>3. QED
      BY <2>1, <2>2 DEF RateInv
  <1>2. RateInv /\ EquityInv => RiskMemoryTrue
    <2> SUFFICES ASSUME RateInv, EquityInv
                 PROVE  RiskMemoryTrue
      OBVIOUS
    <2>1. DOMAIN sent = 1 .. Len(sent)
      BY DEF RateInv, RateTypes
    <2>2. QED
      BY <2>1, RateIsCount DEF RateInv, Bounded, Refusals, EquityInv, RiskMemoryTrue, RateKept, Fits
  <1>3. QED
    BY <1>1, <1>2, RateKeeps, EquityKeeps, PTL DEF MemorySpec

-----------------------------------------------------------------------------
(* OKX's channels *)

Channels == ByInstrument \cup ByType \cup Whole
Texts == Seq(STRING) \ {<<>>}

(* What a channel has, by its kind. *)
LEMMA ChannelKinds ==
  ASSUME NEW c
  PROVE  /\ c \in ByInstrument => c \notin ByType /\ c \notin Whole /\ ChannelName(c) \in ByInstrument
         /\ c \in ByType => c \notin Whole /\ c \notin ByInstrument /\ ChannelName(c) = c
         /\ c \in Whole => c \notin ByType /\ c \notin ByInstrument /\ ChannelName(c) = c
         /\ ChannelName(c) # "candle1h"
  BY DEF ByInstrument, ByType, Whole, ChannelName

LEMMA AskIs ==
  ASSUME NEW a \in Asks
  PROVE  /\ a = OkxAsk(a.channel, a.inst, a.type, a.detail) /\ a.channel \in Channels
         /\ a.inst \in Texts /\ a.type \in Texts /\ a.detail \in Texts
         /\ a.channel \in ByInstrument => a.detail = Empty /\ (a.inst = Empty \/ a.type = Empty)
         /\ a.channel \in ByType => a.type # Empty
         /\ a.channel \in Whole => a.inst = Empty /\ a.type = Empty
         /\ a.channel = "balance_and_position" => a.detail = Empty
  <1>1. /\ a = OkxAsk(a.channel, a.inst, a.type, a.detail) /\ a.channel \in Channels
        /\ a.channel \in ByInstrument => a.detail = Empty /\ (a.inst = Empty \/ a.type = Empty)
        /\ a.channel \in ByType => a.type # Empty
        /\ a.channel \in Whole => a.inst = Empty /\ a.type = Empty
        /\ a.channel = "balance_and_position" => a.detail = Empty
    BY AsksAssumption DEF Channels
  <1>2. {a.inst, a.type, a.detail} \subseteq Texts
    BY AsksAssumption DEF Texts
  <1>3. QED
    BY <1>1, <1>2

-----------------------------------------------------------------------------
(* What goes out has only fields that the channel has, so that the         *)
(* exchange takes it as it is, or not at all.                              *)

Fields(a) ==
    {"channel"} \cup (IF a.inst = Empty THEN {} ELSE {"instId"})
                \cup (IF a.type = Empty THEN {} ELSE {"instType"})
                \cup (IF a.detail = Empty THEN {} ELSE {DetailField(a.channel)})

LEMMA DetailFields ==
  ASSUME NEW c
  PROVE  DetailField(c) \in {"algoId", "ccy", "sprdId", "instFamily"}
  BY DEF DetailField

LEMMA RequestIs ==
  ASSUME NEW a \in Asks
  PROVE  /\ DOMAIN RequestOf(a) = Fields(a)
         /\ RequestOf(a) = [f \in DOMAIN RequestOf(a) |-> RequestOf(a)[f]]
         /\ RequestOf(a)["channel"] = <<ChannelName(a.channel)>>
         /\ a.inst # Empty => RequestOf(a)["instId"] = a.inst
  <1> DEFINE o1 == Optional("instId", a.inst)  o2 == Optional("instType", a.type)
             o3 == Optional(DetailField(a.channel), a.detail)  j == Joined(o2, o3)  k == Joined(o1, j)
  <1>1. /\ DOMAIN o1 = (IF a.inst = Empty THEN {} ELSE {"instId"})
        /\ DOMAIN o2 = (IF a.type = Empty THEN {} ELSE {"instType"})
        /\ DOMAIN o3 = (IF a.detail = Empty THEN {} ELSE {DetailField(a.channel)})
    BY DEF Optional
  <1>2. a.inst # Empty => o1["instId"] = a.inst
    BY DEF Optional
  <1> HIDE DEF o1, o2, o3
  <1>3. DOMAIN j = DOMAIN o2 \cup DOMAIN o3
    BY DEF Joined
  <1> HIDE DEF j
  <1>4. /\ DOMAIN k = DOMAIN o1 \cup DOMAIN j
        /\ \A x \in DOMAIN o1 : k[x] = o1[x]
    BY DEF Joined
  <1> HIDE DEF k
  <1>5. RequestOf(a) = [f \in {"channel"} \cup DOMAIN k |-> IF f = "channel" THEN <<ChannelName(a.channel)>> ELSE k[f]]
    BY DEF RequestOf, Request, k, j, o1, o2, o3
  <1>6. DOMAIN RequestOf(a) = {"channel"} \cup DOMAIN k
    BY <1>5
  <1>7. DOMAIN RequestOf(a) = Fields(a)
    BY <1>1, <1>3, <1>4, <1>6 DEF Fields
  <1>8. RequestOf(a)["channel"] = <<ChannelName(a.channel)>>
    BY <1>5
  <1>9. ASSUME a.inst # Empty
        PROVE  RequestOf(a)["instId"] = a.inst
    <2>1. "instId" \in DOMAIN o1 /\ "instId" \in DOMAIN k /\ "instId" # "channel"
      BY <1>1, <1>4, <1>9
    <2>2. RequestOf(a)["instId"] = k["instId"]
      BY <1>5, <2>1
    <2>3. QED
      BY <1>2, <1>4, <1>9, <2>1, <2>2
  <1>10. RequestOf(a) = [f \in DOMAIN RequestOf(a) |-> RequestOf(a)[f]]
    BY <1>5
  <1>11. QED
    BY <1>7, <1>8, <1>9, <1>10

LEMMA OwnRequest ==
  ASSUME NEW a \in Asks
  PROVE  Fields(a) \subseteq OwnFields(ChannelName(a.channel))
  <1>1. /\ a.channel \in Channels
        /\ a.channel \in ByInstrument => a.detail = Empty
        /\ a.channel \in Whole => a.inst = Empty /\ a.type = Empty
        /\ a.channel = "balance_and_position" => a.detail = Empty
    BY AskIs
  <1>2. CASE a.channel \in ByInstrument
    <2> DEFINE c == ChannelName(a.channel)
    <2>1. c \in ByInstrument
      BY <1>2, ChannelKinds
    <2> HIDE DEF c
    <2>2. c \notin ByType /\ c # "balance_and_position"
      BY <2>1 DEF ByInstrument, ByType
    <2>3. OwnFields(c) = {"channel"} \cup {"instId", "instType"}
      BY <2>1, <2>2 DEF OwnFields
    <2>4. QED
      BY <1>1, <1>2, <2>3 DEF Fields, c
  <1>3. CASE a.channel \in ByType
    <2>1. a.channel \notin ByInstrument /\ ChannelName(a.channel) = a.channel /\ a.channel # "balance_and_position"
      BY <1>3, ChannelKinds DEF ByType
    <2>2. OwnFields(a.channel) = {"channel"} \cup {"instId", "instType", DetailField(a.channel)}
      BY <1>3, <2>1 DEF OwnFields
    <2>3. QED
      BY <2>1, <2>2 DEF Fields
  <1>4. CASE a.channel \in Whole
    <2>1. Fields(a) = {"channel"} \cup (IF a.detail = Empty THEN {} ELSE {DetailField(a.channel)})
      BY <1>1, <1>4 DEF Fields
    <2>2. CASE a.channel = "balance_and_position"
      <3>1. a.channel \notin ByInstrument \cup ByType /\ ChannelName(a.channel) = a.channel
        BY <1>4, ChannelKinds
      <3>2. OwnFields(a.channel) = {"channel"} \cup {}
        BY <2>2, <3>1 DEF OwnFields
      <3>3. Fields(a) = {"channel"}
        BY <1>1, <2>1, <2>2
      <3>4. QED
        BY <3>1, <3>2, <3>3
    <2>3. CASE a.channel # "balance_and_position"
      <3>1. a.channel \notin ByInstrument \cup ByType /\ ChannelName(a.channel) = a.channel
        BY <1>4, ChannelKinds
      <3>2. OwnFields(a.channel) = {"channel"} \cup {DetailField(a.channel)}
        BY <2>3, <3>1 DEF OwnFields
      <3>3. QED
        BY <2>1, <3>1, <3>2
    <2>4. QED
      BY <2>2, <2>3
  <1>5. QED
    BY <1>1, <1>2, <1>3, <1>4 DEF Channels

LEMMA TakenAsSent ==
  ASSUME NEW a \in Asks, NEW overlooks
  PROVE  /\ Taken(RequestOf(a), overlooks) \subseteq {RequestOf(a)}
         /\ Taken(RequestOf(a), overlooks) = Taken(RequestOf(a), TRUE)
  <1> DEFINE r == RequestOf(a)  c == ChannelName(a.channel)  own == DOMAIN r \cap OwnFields(c)
  <1>1. r["channel"] = <<c>> /\ r["channel"][1] = c
    BY RequestIs
  <1>2. own = DOMAIN r
    BY RequestIs, OwnRequest
  <1>3. Restrict(r, own) = r
    BY <1>2, RequestIs DEF Restrict
  <1> DEFINE named == "instId" \in DOMAIN r => Len(r["instId"]) = 1 /\ r["instId"] # Empty
             refused == \/ c = "candle1h"
                        \/ c \in ByInstrument /\ (own = {"channel"} \/ ~ named)
                        \/ c \in ByType /\ "instType" \notin own
  <1>4. \A o : Taken(r, o) = IF refused \/ (own # DOMAIN r /\ ~ o) THEN {} ELSE {Restrict(r, own)}
    BY <1>1 DEF Taken
  <1> HIDE DEF r, own, refused
  <1>5. \A o : Taken(r, o) = IF refused THEN {} ELSE {r}
    BY <1>2, <1>3, <1>4
  <1>6. QED
    BY <1>5 DEF r

-----------------------------------------------------------------------------
(* The keys, and what is asked for again from them. *)

Again(key) == Request(key[1], [f \in {"instId"} |-> Tail(key)])

LEMMA KeyIs ==
  ASSUME NEW c, NEW text \in Texts
  PROVE  LET key == <<c>> \o text
         IN  key[1] = c /\ Len(key) > 1 /\ Tail(key) = text
  <1> DEFINE key == <<c>> \o text  n == Len(text)  S == STRING \cup {c}
  <1>1. text \in Seq(S) /\ text # <<>>
    <2>1. text \in Seq(STRING) /\ text # <<>>
      BY DEF Texts
    <2>2. text \in [1 .. Len(text) -> S] /\ Len(text) \in Nat
      BY <2>1
    <2>3. QED
      BY <2>1, <2>2
  <1>2. n \in Nat /\ n # 0 /\ <<c>> \in Seq(S) /\ Len(<<c>>) = 1 /\ <<c>>[1] = c
    BY <1>1
  <1>3. key \in Seq(S) /\ Len(key) = n + 1 /\ key[1] = c
    BY <1>1, <1>2, ConcatProperties
  <1>4. \A i \in 1 .. n : key[i + 1] = text[i]
    <2>1. \A i \in 1 .. n : i + 1 \in 1 .. 1 + n /\ ~ (i + 1 =< 1) /\ (i + 1) - 1 = i
      BY <1>2
    <2>2. QED
      BY <1>1, <1>2, <2>1, ConcatProperties
  <1> HIDE DEF key
  <1>5. Tail(key) \in Seq(S) /\ Len(Tail(key)) = n /\ \A i \in 1 .. n : Tail(key)[i] = key[i + 1]
    <2>1. key # <<>>
      BY <1>2, <1>3
    <2>2. QED
      BY <1>2, <1>3, <2>1, HeadTailProperties
  <1>6. Tail(key) = text
    BY <1>1, <1>2, <1>4, <1>5, SeqEqual
  <1>7. QED
    BY <1>2, <1>3, <1>6 DEF key

LEMMA InstrumentAgain ==
  ASSUME NEW a \in Asks, a.channel \in ByInstrument, a.inst # Empty
  PROVE  Len(InstrumentKey(a)) > 1 /\ Again(InstrumentKey(a)) = RequestOf(a)
         /\ Request(ChannelName(a.channel), Optional("instId", a.inst)) = RequestOf(a)
  <1> DEFINE c == ChannelName(a.channel)  one == [f \in {"instId"} |-> a.inst]
  <1>1. a.inst \in Texts /\ a.type = Empty /\ a.detail = Empty
    BY AskIs
  <1>2. c \in ByInstrument
    BY ChannelKinds
  <1>3. Len(InstrumentKey(a)) > 1 /\ InstrumentKey(a)[1] = c /\ Tail(InstrumentKey(a)) = a.inst
    BY <1>1, <1>2, KeyIs DEF InstrumentKey
  <1>4. Optional("instId", a.inst) = one
    BY DEF Optional
  <1>5. Again(InstrumentKey(a)) = Request(c, one)
    BY <1>3 DEF Again
  <1> DEFINE j == Joined(Optional("instType", a.type), Optional(DetailField(a.channel), a.detail))
  <1>6. DOMAIN j = {}
    BY <1>1 DEF Joined, Optional
  <1> HIDE DEF j
  <1>7. Joined(one, j) = one
    BY <1>6 DEF Joined
  <1>8. RequestOf(a) = Request(c, one)
    BY <1>4, <1>7 DEF RequestOf, j
  <1>9. QED
    BY <1>3, <1>4, <1>5, <1>8

LEMMA SameKey ==
  ASSUME NEW a \in Asks, NEW b \in Asks, a.channel \in ByInstrument, b.channel \in ByInstrument,
         a.inst # Empty, b.inst # Empty, InstrumentKey(a) = InstrumentKey(b)
  PROVE  RequestOf(a) = RequestOf(b)
  BY InstrumentAgain

(* Whatever is asked for again from the key of an ask. *)
LEMMA AgainIs ==
  ASSUME NEW key, key[1] \in ByType, NEW overlooks
  PROVE  Taken(Again(key), overlooks) = {}
  <1> DEFINE r == Again(key)
  <1>1. r["channel"] = <<key[1]>> /\ DOMAIN r = {"channel", "instId"}
    BY DEF Again, Request
  <1> HIDE DEF r
  <1>2. r["channel"][1] = key[1] /\ "instType" \notin DOMAIN r
    BY <1>1
  <1>3. QED
    BY <1>2 DEF Taken, r

LEMMA EmptyAgain ==
  ASSUME NEW a \in Asks, a.channel \in ByInstrument, a.inst = Empty, NEW overlooks
  PROVE  Taken(Again(InstrumentKey(a)), overlooks) = {}
  <1> DEFINE key == InstrumentKey(a)  r == Again(key)  c == ChannelName(a.channel)
  <1>1. a.inst \in Texts
    BY AskIs
  <1>2. c \in ByInstrument
    BY ChannelKinds
  <1>3. key[1] = c /\ Tail(key) = Empty
    BY <1>1, <1>2, KeyIs DEF InstrumentKey
  <1> HIDE DEF key
  <1>4. r["channel"] = <<c>> /\ "instId" \in DOMAIN r /\ r["instId"] = Empty
    BY <1>3 DEF Again, Request
  <1> HIDE DEF r
  <1>5. r["channel"][1] = c
    BY <1>4
  <1>6. QED
    BY <1>2, <1>4, <1>5 DEF Taken, r, key

LEMMA WholeAgain ==
  ASSUME NEW a \in Asks, a.channel \in Whole, Len(WholeKey(a)) > 1, NEW overlooks,
         NEW r \in Taken(Again(WholeKey(a)), overlooks)
  PROVE  a.detail # Empty /\ r["channel"] = <<a.channel>>
  <1> DEFINE key == WholeKey(a)  s == Again(key)
  <1>1. a.detail \in Texts
    BY AskIs
  <1>2. key[1] = a.channel /\ a.detail # Empty
    <2>1. CASE a.detail = Empty
      <3>1. key = <<a.channel>>
        BY <1>1, <2>1 DEF WholeKey, PartOf
      <3>2. QED
        BY <3>1
    <2>2. CASE a.detail # Empty
      BY <1>1, <2>2, KeyIs DEF WholeKey, PartOf
    <2>3. QED
      BY <2>1, <2>2
  <1> HIDE DEF key
  <1>3. s["channel"] = <<a.channel>> /\ "channel" \in DOMAIN s
    BY <1>2 DEF Again, Request
  <1> HIDE DEF s
  <1>4. r = Restrict(s, DOMAIN s \cap OwnFields(s["channel"][1]))
    BY DEF Taken, s, key
  <1>5. "channel" \in OwnFields(s["channel"][1])
    BY DEF OwnFields
  <1>6. QED
    BY <1>2, <1>3, <1>4, <1>5 DEF Restrict

-----------------------------------------------------------------------------
(* The invariant. *)

Named(a) == a.channel \in ByInstrument /\ a.inst # Empty
Kept == okxWanted \ okxExcuse
Recording == AsksOf(Underway("record"))

OkxTypes ==
    /\ cast \subseteq Asks /\ okxUp \in BOOLEAN /\ okxDue \in BOOLEAN
    /\ okxWanted \subseteq cast /\ okxExcuse \subseteq cast
    /\ ~ okxUp => okxCarried = {}
    /\ okxDue => okxCopy = {} /\ okxSent = {}
    /\ \A key \in okxCopy : Len(key) > 1

(* Every key was recorded for an ask; of an instrument's, the ask is still *)
(* wanted, or excused.                                                     *)
KeyOf(key) ==
    \/ \E a \in okxWanted \cup okxExcuse : a.channel \in ByInstrument /\ key = InstrumentKey(a)
    \/ key[1] \in ByType
    \/ \E a \in cast : a.channel \in Whole /\ key = WholeKey(a)

(* The call under way: what it will write down, or erase. *)
CallRight(c) ==
    /\ okxCall = {c} /\ c.ask \in cast /\ (Named(c.ask) => c.key = InstrumentKey(c.ask))
    /\ \/ c.op = "record" /\ KeyOf(c.key)
       \/ c.op = "erase" /\ \A b \in Kept : Named(b) => InstrumentKey(b) # c.key

(* The key of an instrument that is about to be erased. *)
Erased(key) ==
    \E c \in okxCall : c.op = "erase" /\ Named(c.ask) /\ key = InstrumentKey(c.ask)

(* What is wanted under an instrument alone is recorded or about to be,    *)
(* and without a connection only what is recorded so is not excused.       *)
Remembered ==
    /\ \A a \in Kept : Named(a) => InstrumentKey(a) \in okxRecord \/ a \in Recording
    /\ ~ okxUp => \A a \in Kept : Named(a) /\ a \notin Recording

(* What is wanted is carried, or will be asked for again. *)
ComesBack(a) ==
    Named(a) /\ (InstrumentKey(a) \in okxCopy \/ (okxDue /\ InstrumentKey(a) \in okxRecord))

CarriedOrDue == okxUp => \A a \in Kept : Taken(RequestOf(a), TRUE) \subseteq okxCarried \/ ComesBack(a)

Explained(r) ==
    \/ \E a \in okxWanted \cup okxExcuse : r \in Taken(RequestOf(a), TRUE)
    \/ \E a \in cast : a.channel \in Whole /\ a.detail # Empty /\ r["channel"] = <<a.channel>>

OkxInv ==
    /\ OkxTypes /\ Remembered /\ CarriedOrDue
    /\ \A c \in okxCall : CallRight(c)
    /\ \A key \in okxRecord : KeyOf(key) \/ Erased(key)
    /\ \A key \in okxCopy \cup okxSent : KeyOf(key)
    /\ \A r \in okxCarried : Explained(r)

LEMMA InitOkx == OkxInit => OkxInv
  <1> SUFFICES ASSUME OkxInit
               PROVE  OkxInv
    OBVIOUS
  <1>1. cast \subseteq Asks /\ okxUp = TRUE /\ okxDue = FALSE
    BY DEF OkxInit
  <1>2. /\ okxRecord = {} /\ okxCarried = {} /\ okxWanted = {} /\ okxExcuse = {}
        /\ okxCall = {} /\ okxCopy = {} /\ okxSent = {}
    BY DEF OkxInit
  <1>3. OkxTypes /\ Remembered /\ CarriedOrDue
    BY <1>1, <1>2 DEF OkxTypes, Remembered, CarriedOrDue, Kept
  <1>4. QED
    BY <1>2, <1>3 DEF OkxInv

LEMMA NoCallRecords ==
  ASSUME okxCall = {}
  PROVE  Recording = {} /\ \A key : ~ Erased(key)
  BY DEF Recording, AsksOf, Underway, Erased

LEMMA OneCall ==
  ASSUME NEW c, okxCall = {c}
  PROVE  /\ c.op = "record" => /\ Recording = {c.ask} /\ KeysOf(Underway("record")) = {c.key}
                               /\ KeysOf(Underway("erase")) = {} /\ AsksOf(Underway("erase")) = {}
         /\ c.op = "erase" => /\ Recording = {} /\ KeysOf(Underway("record")) = {}
                              /\ KeysOf(Underway("erase")) = {c.key} /\ AsksOf(Underway("erase")) = {c.ask}
  BY DEF Recording, AsksOf, KeysOf, Underway

LEMMA CallFields ==
  ASSUME NEW op, NEW a, NEW key
  PROVE  Call(op, a, key).op = op /\ Call(op, a, key).ask = a /\ Call(op, a, key).key = key
  BY DEF Call

(* What has a reason keeps it as long as nothing is given up. *)
LEMMA ReasonsStay ==
  ASSUME cast' = cast, okxWanted \cup okxExcuse \subseteq okxWanted' \cup okxExcuse'
  PROVE  (\A key : KeyOf(key) => KeyOf(key)') /\ (\A r : Explained(r) => Explained(r)')
  <1>1. ASSUME NEW key, KeyOf(key)
        PROVE  KeyOf(key)'
    BY <1>1 DEF KeyOf
  <1>2. ASSUME NEW r, Explained(r)
        PROVE  Explained(r)'
    BY <1>2 DEF Explained
  <1>3. QED
    BY <1>1, <1>2

(* The monitor and the exchange leave the owner's call alone. *)
LEMMA CallStays ==
  ASSUME OkxInv, cast' = cast, okxCall' = okxCall, okxWanted' = okxWanted, okxExcuse \subseteq okxExcuse'
  PROVE  /\ \A c \in okxCall' : CallRight(c)'
         /\ \A key : Erased(key) => Erased(key)'
         /\ Recording' = Recording /\ Kept' \subseteq Kept
         /\ (\A key : KeyOf(key) => KeyOf(key)') /\ (\A r : Explained(r) => Explained(r)')
  <1>1. (\A key : KeyOf(key) => KeyOf(key)') /\ (\A r : Explained(r) => Explained(r)')
    BY ReasonsStay
  <1>2. Kept' \subseteq Kept
    BY DEF Kept
  <1>3. Recording' = Recording
    BY DEF Recording, AsksOf, Underway
  <1>4. ASSUME NEW key, Erased(key)
        PROVE  Erased(key)'
    BY <1>4 DEF Erased
  <1>5. ASSUME NEW c \in okxCall
        PROVE  CallRight(c)'
    <2>1. CallRight(c)
      BY DEF OkxInv
    <2>2. QED
      BY <1>1, <1>2, <2>1 DEF CallRight
  <1>6. QED
    BY <1>1, <1>2, <1>3, <1>4, <1>5

-----------------------------------------------------------------------------
(* Nothing that was there is lost by asking for more. *)
LEMMA SubscribeKeeps ==
  ASSUME OkxInv, NEW a \in cast, NEW request, NEW key, Subscribe(a, request, key),
         request = RequestOf(a),
         \/ a.channel \in ByInstrument /\ key = InstrumentKey(a)
         \/ key[1] \in ByType /\ ~ Named(a)
         \/ a.channel \in Whole /\ key = WholeKey(a) /\ ~ Named(a)
  PROVE  OkxInv'
  <1>1. /\ OkxTypes /\ Remembered /\ CarriedOrDue
        /\ (\A k \in okxRecord : KeyOf(k) \/ Erased(k))
        /\ (\A k \in okxCopy \cup okxSent : KeyOf(k)) /\ (\A r \in okxCarried : Explained(r))
    BY DEF OkxInv
  <1>2. /\ cast' = cast /\ okxUp' = okxUp /\ okxWanted' = okxWanted \cup {a} /\ okxCall = {}
        /\ okxRecord' = okxRecord /\ okxDue' = okxDue /\ okxCopy' = okxCopy /\ okxSent' = okxSent
    BY DEF Subscribe, Calls, monitorOkxVars
  <1>3. /\ okxUp => /\ okxCarried' = okxCarried \cup Taken(RequestOf(a), TRUE)
                    /\ okxCall' = {Call("record", a, key)} /\ okxExcuse' = okxExcuse \ {a}
        /\ ~ okxUp => okxCarried' = okxCarried /\ okxCall' = {} /\ okxExcuse' = okxExcuse \cup {a}
    BY <1>2 DEF Subscribe
  <1>4. Recording = {} /\ (\A k : ~ Erased(k)) /\ okxUp \in BOOLEAN
    BY <1>1, <1>2, NoCallRecords DEF OkxTypes
  <1>5. /\ okxWanted' \cup okxExcuse' = (okxWanted \cup okxExcuse) \cup {a}
        /\ okxUp => Kept' = Kept \cup {a}
        /\ ~ okxUp => Kept' \subseteq Kept
    BY <1>2, <1>3, <1>4 DEF Kept
  <1>6. OkxTypes'
    BY <1>1, <1>2, <1>3 DEF OkxTypes
  <1>7. (\A k : KeyOf(k) => KeyOf(k)') /\ (\A r : Explained(r) => Explained(r)')
    BY <1>2, <1>5, ReasonsStay
  <1>8. okxUp => Recording' = {a}
    <2>1. SUFFICES ASSUME okxUp
                   PROVE  Recording' = {a}
      OBVIOUS
    <2>2. okxCall' = {Call("record", a, key)}
      BY <1>3, <2>1
    <2>3. QED
      BY <2>2, CallFields DEF Recording, AsksOf, Underway
  <1>9. KeyOf(key)'
    BY <1>2, <1>5 DEF KeyOf
  <1>10. \A c \in okxCall' : CallRight(c)'
    <2>1. CASE okxUp
      <3> DEFINE d == Call("record", a, key)
      <3>1. okxCall' = {d} /\ d.op = "record" /\ d.ask = a /\ d.key = key
        BY <1>3, <2>1, CallFields
      <3> HIDE DEF d
      <3>2. Named(a) => key = InstrumentKey(a)
        BY DEF Named
      <3>3. QED
        BY <1>2, <1>9, <3>1, <3>2 DEF CallRight, Named
    <2>2. CASE ~ okxUp
      BY <1>3, <2>2
    <2>3. QED
      BY <2>1, <2>2
  <1>11. Remembered'
    <2>1. CASE okxUp
      BY <1>1, <1>2, <1>4, <1>5, <1>8, <2>1 DEF Remembered, Named
    <2>2. CASE ~ okxUp
      <3>1. Recording' = {}
        BY <1>3, <2>2 DEF Recording, AsksOf, Underway
      <3>2. QED
        BY <1>1, <1>2, <1>4, <1>5, <2>2, <3>1 DEF Remembered, Named
    <2>3. QED
      BY <2>1, <2>2
  <1>12. CarriedOrDue'
    <2>1. CASE okxUp
      <3>1. ASSUME NEW b \in Kept'
            PROVE  Taken(RequestOf(b), TRUE) \subseteq okxCarried' \/ ComesBack(b)'
        <4>1. CASE b = a
          BY <1>3, <2>1, <4>1
        <4>2. CASE b # a
          <5>1. b \in Kept
            BY <1>5, <2>1, <3>1, <4>2
          <5>2. Taken(RequestOf(b), TRUE) \subseteq okxCarried \/ ComesBack(b)
            BY <1>1, <2>1, <5>1 DEF CarriedOrDue
          <5>3. ComesBack(b) => ComesBack(b)'
            BY <1>2 DEF ComesBack, Named
          <5>4. QED
            BY <1>3, <2>1, <5>2, <5>3
        <4>3. QED
          BY <4>1, <4>2
      <3>2. QED
        BY <3>1 DEF CarriedOrDue
    <2>2. CASE ~ okxUp
      BY <1>2, <2>2 DEF CarriedOrDue
    <2>3. QED
      BY <2>1, <2>2
  <1>13. \A r \in okxCarried' : Explained(r)'
    <2>1. \A r \in Taken(RequestOf(a), TRUE) : Explained(r)'
      BY <1>5 DEF Explained
    <2>2. QED
      BY <1>1, <1>3, <1>4, <1>7, <2>1
  <1>14. QED
    BY <1>1, <1>2, <1>4, <1>6, <1>7, <1>10, <1>11, <1>12, <1>13 DEF OkxInv

(* No key of an instrument that is still wanted is given up. *)
LEMMA GivenUpKey ==
  ASSUME OkxTypes, NEW a \in cast, NEW key, NEW b \in cast, Named(b), RequestOf(b) # RequestOf(a),
         \/ Named(a) /\ key = InstrumentKey(a)
         \/ key[1] \in ByType \cup Whole
  PROVE  InstrumentKey(b) # key
  <1>1. a \in Asks /\ b \in Asks
    BY DEF OkxTypes
  <1>2. CASE Named(a) /\ key = InstrumentKey(a)
    BY <1>1, <1>2, SameKey DEF Named
  <1>3. CASE key[1] \in ByType \cup Whole
    <2>1. InstrumentKey(b)[1] = ChannelName(b.channel)
      BY <1>1, AskIs, KeyIs DEF InstrumentKey
    <2>2. InstrumentKey(b)[1] \in ByInstrument
      BY <2>1, ChannelKinds DEF Named
    <2>3. QED
      BY <1>3, <2>2, ChannelKinds
  <1>4. QED
    BY <1>2, <1>3

(* A request that is given up takes no other request's stream away. *)
LEMMA OthersStay ==
  ASSUME OkxTypes, NEW a \in cast, NEW b \in cast, RequestOf(b) # RequestOf(a)
  PROVE  Taken(RequestOf(b), TRUE) \subseteq okxCarried
           => Taken(RequestOf(b), TRUE) \subseteq okxCarried \ Taken(RequestOf(a), TRUE)
  <1>1. a \in Asks /\ b \in Asks
    BY DEF OkxTypes
  <1>2. Taken(RequestOf(b), TRUE) \subseteq {RequestOf(b)} /\ Taken(RequestOf(a), TRUE) \subseteq {RequestOf(a)}
    BY <1>1, TakenAsSent
  <1>3. QED
    BY <1>2

LEMMA UnsubscribeKeeps ==
  ASSUME OkxInv, NEW a \in cast, NEW key, Unsubscribe(a, key),
         \/ Named(a) /\ key = InstrumentKey(a)
         \/ a.channel \notin ByInstrument /\ key[1] \in ByType \cup Whole
  PROVE  OkxInv'
  <1>1. /\ OkxTypes /\ Remembered /\ CarriedOrDue
        /\ (\A k \in okxRecord : KeyOf(k) \/ Erased(k))
        /\ (\A k \in okxCopy \cup okxSent : KeyOf(k)) /\ (\A r \in okxCarried : Explained(r))
    BY DEF OkxInv
  <1>2. /\ cast' = cast /\ okxUp' = okxUp /\ okxWanted' = okxWanted \ {a} /\ okxCall = {}
        /\ okxRecord' = okxRecord /\ okxDue' = okxDue /\ okxCopy' = okxCopy /\ okxSent' = okxSent
    BY DEF Unsubscribe, Calls, monitorOkxVars
  <1>3. /\ okxUp => /\ okxCarried' = okxCarried \ Taken(RequestOf(a), TRUE)
                    /\ okxCall' = {Call("erase", a, key)}
        /\ ~ okxUp => okxCarried' = okxCarried /\ okxCall' = {}
    BY <1>2 DEF Unsubscribe
  <1>4. /\ okxExcuse \subseteq okxExcuse' /\ okxExcuse' \subseteq okxExcuse \cup okxWanted \cup {a}
        /\ {b \in okxWanted \ {a} : RequestOf(b) = RequestOf(a)} \subseteq okxExcuse'
        /\ ~ okxUp \/ key \in okxCopy \cup okxSent => a \in okxExcuse'
    BY DEF Unsubscribe
  <1>5. Recording = {} /\ (\A k : ~ Erased(k)) /\ okxUp \in BOOLEAN
    BY <1>1, <1>2, NoCallRecords DEF OkxTypes
  <1>6. /\ \A b \in Kept' : b \in Kept /\ b \in cast /\ RequestOf(b) # RequestOf(a)
        /\ \A b \in (okxWanted \cup okxExcuse) \ {a} : b \in okxWanted' \cup okxExcuse'
    BY <1>1, <1>2, <1>4 DEF Kept, OkxTypes
  <1>7. OkxTypes'
    BY <1>1, <1>2, <1>3, <1>4 DEF OkxTypes
  <1>8. Recording' = {}
    <2>1. \A c \in okxCall' : c.op # "record"
      <3>1. CASE okxUp
        <4> DEFINE d == Call("erase", a, key)
        <4>1. okxCall' = {d} /\ d.op = "erase"
          BY <1>3, <3>1, CallFields
        <4> HIDE DEF d
        <4>2. QED
          BY <4>1
      <3>2. CASE ~ okxUp
        BY <1>3, <3>2
      <3>3. QED
        BY <3>1, <3>2
    <2>2. QED
      BY <2>1 DEF Recording, AsksOf, Underway
  <1>9. \A c \in okxCall' : CallRight(c)'
    <2>1. CASE okxUp
      <3> DEFINE d == Call("erase", a, key)
      <3>1. okxCall' = {d} /\ d.op = "erase" /\ d.ask = a /\ d.key = key
        BY <1>3, <2>1, CallFields
      <3> HIDE DEF d
      <3>2. Named(a) => key = InstrumentKey(a)
        BY DEF Named
      <3>3. \A b \in Kept' : Named(b) => InstrumentKey(b) # key
        BY <1>1, <1>6, GivenUpKey
      <3>4. QED
        BY <1>2, <3>1, <3>2, <3>3 DEF CallRight, Named
    <2>2. CASE ~ okxUp
      BY <1>3, <2>2
    <2>3. QED
      BY <2>1, <2>2
  <1>10. Remembered'
    BY <1>1, <1>2, <1>5, <1>6, <1>8 DEF Remembered, Named
  <1>11. ASSUME NEW k, KeyOf(k)
         PROVE  KeyOf(k)' \/ (Named(a) /\ k = key /\ a \notin okxExcuse' /\ k = InstrumentKey(a))
    <2>1. ASSUME NEW b \in okxWanted \cup okxExcuse, b.channel \in ByInstrument, k = InstrumentKey(b)
          PROVE  KeyOf(k)' \/ (Named(a) /\ k = key /\ a \notin okxExcuse' /\ k = InstrumentKey(a))
      <3>1. CASE b \in okxWanted' \cup okxExcuse'
        BY <2>1, <3>1 DEF KeyOf
      <3>2. CASE b \notin okxWanted' \cup okxExcuse'
        <4>1. b = a /\ a \notin okxExcuse'
          BY <1>6, <2>1, <3>2
        <4>2. QED
          BY <2>1, <4>1
      <3>3. QED
        BY <3>1, <3>2
    <2>2. QED
      BY <1>2, <1>11, <2>1 DEF KeyOf
  <1>12. ASSUME NEW k \in okxRecord'
         PROVE  KeyOf(k)' \/ Erased(k)'
    <2>1. KeyOf(k)
      BY <1>1, <1>2, <1>5, <1>12
    <2>2. CASE Named(a) /\ k = key /\ a \notin okxExcuse' /\ k = InstrumentKey(a)
      <3> DEFINE d == Call("erase", a, key)
      <3>1. okxUp
        BY <1>4, <1>5, <2>2
      <3>2. okxCall' = {d} /\ d.op = "erase" /\ d.ask = a
        BY <1>3, <3>1, CallFields
      <3> HIDE DEF d
      <3>3. QED
        BY <2>2, <3>2 DEF Erased, Named
    <2>3. QED
      BY <1>11, <2>1, <2>2
  <1>13. ASSUME NEW k \in okxCopy' \cup okxSent'
         PROVE  KeyOf(k)'
    <2>1. KeyOf(k) /\ k \in okxCopy \cup okxSent
      BY <1>1, <1>2, <1>13
    <2>2. k = key => a \in okxExcuse'
      BY <1>4, <2>1
    <2>3. QED
      BY <1>11, <2>1, <2>2
  <1>14. CarriedOrDue'
    <2>1. ASSUME okxUp, NEW b \in Kept'
          PROVE  Taken(RequestOf(b), TRUE) \subseteq okxCarried' \/ ComesBack(b)'
      <3>1. Taken(RequestOf(b), TRUE) \subseteq okxCarried \/ ComesBack(b)
        BY <1>1, <1>6, <2>1 DEF CarriedOrDue
      <3>2. ComesBack(b) => ComesBack(b)'
        BY <1>2 DEF ComesBack, Named
      <3>3. QED
        BY <1>1, <1>3, <1>6, <2>1, <3>1, <3>2, OthersStay
    <2>2. QED
      BY <1>2, <2>1 DEF CarriedOrDue
  <1>15. ASSUME NEW r \in okxCarried'
         PROVE  Explained(r)'
    <2>1. okxUp /\ r \in okxCarried /\ r \notin Taken(RequestOf(a), TRUE)
      BY <1>1, <1>3, <1>5, <1>15 DEF OkxTypes
    <2>2. Explained(r)
      BY <1>1, <2>1
    <2>3. QED
      BY <1>2, <1>6, <2>1, <2>2 DEF Explained
  <1>16. QED
    BY <1>7, <1>9, <1>10, <1>12, <1>13, <1>14, <1>15 DEF OkxInv

LEMMA BalanceKeeps ==
  ASSUME OkxInv, NEW a \in cast, UnsubscribeBalanceAndPosition(a)
  PROVE  OkxInv'
  <1> DEFINE key == WholeKey(a)  d == Call("erase", a, key)
  <1>1. /\ OkxTypes /\ Remembered /\ CarriedOrDue
        /\ (\A k \in okxRecord : KeyOf(k) \/ Erased(k))
        /\ (\A k \in okxCopy \cup okxSent : KeyOf(k)) /\ (\A r \in okxCarried : Explained(r))
    BY DEF OkxInv
  <1>2. /\ cast' = cast /\ okxUp' = okxUp /\ okxWanted' = okxWanted \ {a} /\ okxExcuse' = okxExcuse
        /\ okxRecord' = okxRecord /\ okxDue' = okxDue /\ okxCopy' = okxCopy /\ okxSent' = okxSent
        /\ okxCall = {} /\ okxCall' = {d}
        /\ okxCarried' = okxCarried \ Taken(RequestOf(a), TRUE)
        /\ a.channel = "balance_and_position"
    BY DEF UnsubscribeBalanceAndPosition, Calls, monitorOkxVars
  <1>3. \A b \in cast : b \in Asks
    BY <1>1 DEF OkxTypes
  <1>4. a.channel \in Whole /\ a.channel \notin ByInstrument
    BY <1>2 DEF Whole, ByInstrument
  <1>5. key[1] \in ByType \cup Whole
    <2>1. a.detail = Empty
      BY <1>2, <1>3, AskIs
    <2>2. key = <<a.channel>>
      BY <2>1 DEF WholeKey, PartOf
    <2>3. QED
      BY <1>4, <2>2
  <1>6. d.op = "erase" /\ d.ask = a /\ d.key = key
    BY CallFields
  <1> HIDE DEF d, key
  <1>7. OkxTypes'
    BY <1>1, <1>2 DEF OkxTypes
  <1>8. Recording = {} /\ (\A k : ~ Erased(k)) /\ Recording' = {}
    <2>1. \A c \in okxCall' : c.op # "record"
      BY <1>2, <1>6
    <2>2. QED
      BY <1>2, <2>1, NoCallRecords DEF Recording, AsksOf, Underway
  <1>9. ASSUME NEW b \in Kept'
        PROVE  b \in Kept /\ b \in cast /\ RequestOf(b) # RequestOf(a)
    <2>1. b \in Asks /\ a \in Asks /\ b # a /\ b \in Kept /\ b \in cast
      BY <1>1, <1>2, <1>3, <1>9 DEF OkxTypes, Kept
    <2>2. RequestOf(b) # RequestOf(a)
      <3>1. SUFFICES ASSUME RequestOf(b) = RequestOf(a)
                     PROVE  a = b
        BY <2>1
      <3>2. /\ RequestOf(a)["channel"] = <<ChannelName(a.channel)>>
            /\ RequestOf(b)["channel"] = <<ChannelName(b.channel)>>
        BY <2>1, RequestIs
      <3>3. ChannelName(a.channel) = ChannelName(b.channel)
        BY <3>1, <3>2
      <3>4. b.channel = "balance_and_position"
        BY <1>2, <3>3 DEF ChannelName
      <3>5. b.channel \in Whole
        BY <3>4 DEF Whole
      <3>6. a.inst = b.inst /\ a.type = b.type /\ a.detail = b.detail
        BY <1>2, <1>4, <2>1, <3>4, <3>5, AskIs
      <3>7. QED
        BY <1>2, <2>1, <3>4, <3>6, AskIs
    <2>3. QED
      BY <2>1, <2>2
  <1>10. \A c \in okxCall' : CallRight(c)'
    <2>1. \A b \in Kept' : Named(b) => InstrumentKey(b) # key
      BY <1>1, <1>5, <1>9, GivenUpKey
    <2>2. ~ Named(a)
      BY <1>4 DEF Named
    <2>3. QED
      BY <1>2, <1>6, <2>1, <2>2 DEF CallRight, Named
  <1>11. Remembered'
    BY <1>1, <1>2, <1>8, <1>9 DEF Remembered, Named
  <1>12. ASSUME NEW k, KeyOf(k)
         PROVE  KeyOf(k)'
    BY <1>2, <1>4, <1>12 DEF KeyOf
  <1>13. CarriedOrDue'
    <2>1. ASSUME okxUp, NEW b \in Kept'
          PROVE  Taken(RequestOf(b), TRUE) \subseteq okxCarried' \/ ComesBack(b)'
      <3>1. Taken(RequestOf(b), TRUE) \subseteq okxCarried \/ ComesBack(b)
        BY <1>1, <1>9, <2>1 DEF CarriedOrDue
      <3>2. ComesBack(b) => ComesBack(b)'
        BY <1>2 DEF ComesBack, Named
      <3>3. QED
        BY <1>1, <1>2, <1>9, <2>1, <3>1, <3>2, OthersStay
    <2>2. QED
      BY <1>2, <2>1 DEF CarriedOrDue
  <1>14. ASSUME NEW r \in okxCarried'
         PROVE  Explained(r)'
    <2>1. Explained(r) /\ r \notin Taken(RequestOf(a), TRUE)
      BY <1>1, <1>2, <1>14
    <2>2. QED
      BY <1>2, <2>1 DEF Explained
  <1>15. QED
    BY <1>1, <1>2, <1>7, <1>8, <1>10, <1>11, <1>12, <1>13, <1>14 DEF OkxInv

LEMMA CallWrittenKeeps ==
  ASSUME OkxInv, CallWritten
  PROVE  OkxInv'
  <1>1. /\ OkxTypes /\ Remembered /\ CarriedOrDue
        /\ (\A k \in okxRecord : KeyOf(k) \/ Erased(k))
        /\ (\A k \in okxCopy \cup okxSent : KeyOf(k)) /\ (\A r \in okxCarried : Explained(r))
    BY DEF OkxInv
  <1>2. /\ okxCall' = {}
        /\ okxRecord' = (okxRecord \ KeysOf(Underway("erase"))) \cup KeysOf(Underway("record"))
        /\ UNCHANGED <<cast, okxUp, okxDue, okxCopy, okxSent, okxCarried, okxWanted, okxExcuse>>
    BY DEF CallWritten, monitorOkxVars
  <1>3. PICK c \in okxCall : CallRight(c)
    BY DEF CallWritten, OkxInv
  <1>4. okxCall = {c} /\ (Named(c.ask) => c.key = InstrumentKey(c.ask))
    BY <1>3 DEF CallRight
  <1>5. OkxTypes' /\ Kept' = Kept
    BY <1>1, <1>2 DEF OkxTypes, Kept
  <1>6. (\A k : KeyOf(k) => KeyOf(k)') /\ (\A r : Explained(r) => Explained(r)')
    BY <1>2, ReasonsStay
  <1>7. Recording' = {}
    BY <1>2 DEF Recording, AsksOf, Underway
  <1>8. CASE c.op = "record"
    <2>1. okxRecord' = okxRecord \cup {c.key} /\ Recording = {c.ask} /\ KeyOf(c.key)
      BY <1>2, <1>3, <1>4, <1>8, OneCall DEF CallRight
    <2>2. \A k : ~ Erased(k)
      BY <1>4, <1>8 DEF Erased
    <2>3. \A k \in okxRecord' : KeyOf(k)'
      BY <1>1, <1>6, <2>1, <2>2
    <2>4. Remembered'
      BY <1>1, <1>2, <1>4, <1>5, <1>7, <2>1 DEF Remembered, Named
    <2>5. \A a : ComesBack(a) => ComesBack(a)'
      BY <1>2, <2>1 DEF ComesBack, Named
    <2>6. CarriedOrDue'
      BY <1>1, <1>2, <1>5, <2>5 DEF CarriedOrDue
    <2>7. QED
      BY <1>1, <1>2, <1>5, <1>6, <2>3, <2>4, <2>6 DEF OkxInv
  <1>9. CASE c.op = "erase"
    <2>1. okxRecord' = okxRecord \ {c.key} /\ Recording = {}
      BY <1>2, <1>4, <1>9, OneCall
    <2>2. \A b \in Kept : Named(b) => InstrumentKey(b) # c.key
      BY <1>3, <1>9 DEF CallRight
    <2>3. ASSUME NEW k \in okxRecord'
          PROVE  KeyOf(k)'
      <3>1. ~ Erased(k)
        BY <1>4, <2>1 DEF Erased
      <3>2. QED
        BY <1>1, <1>6, <2>1, <3>1
    <2>4. Remembered'
      BY <1>1, <1>2, <1>5, <1>7, <2>1, <2>2 DEF Remembered, Named
    <2>5. \A a \in Kept : ComesBack(a) => ComesBack(a)'
      BY <1>2, <2>1, <2>2 DEF ComesBack, Named
    <2>6. CarriedOrDue'
      BY <1>1, <1>2, <1>5, <2>5 DEF CarriedOrDue
    <2>7. QED
      BY <1>1, <1>2, <1>5, <1>6, <2>3, <2>4, <2>6 DEF OkxInv
  <1>10. QED
    BY <1>3, <1>8, <1>9 DEF CallRight

LEMMA OkxLostKeeps ==
  ASSUME OkxInv, ChannelsLost
  PROVE  OkxInv'
  <1>1. /\ OkxTypes /\ Remembered
        /\ (\A k \in okxRecord : KeyOf(k) \/ Erased(k)) /\ (\A k \in okxCopy \cup okxSent : KeyOf(k))
    BY DEF OkxInv
  <1>2. /\ okxUp' = FALSE /\ okxCarried' = {}
        /\ UNCHANGED <<cast, okxRecord, okxCall, okxDue, okxCopy, okxSent, okxWanted>>
        /\ okxExcuse' = okxExcuse \cup {a \in okxWanted : a.channel \notin ByInstrument \/ a.inst = Empty}
                                  \cup Recording
    BY DEF ChannelsLost, monitorOkxVars, Recording
  <1>3. Recording \subseteq cast
    BY DEF OkxInv, CallRight, Recording, AsksOf, Underway
  <1>4. /\ \A c \in okxCall' : CallRight(c)'
        /\ \A key : Erased(key) => Erased(key)'
        /\ Recording' = Recording /\ Kept' \subseteq Kept
        /\ \A key : KeyOf(key) => KeyOf(key)'
    BY <1>2, CallStays
  <1>5. OkxTypes'
    BY <1>1, <1>2, <1>3 DEF OkxTypes
  <1>6. \A a \in Kept' : Named(a) /\ a \notin Recording
    BY <1>2 DEF Kept, Named
  <1>7. Remembered'
    BY <1>1, <1>2, <1>4, <1>6 DEF Remembered, Named
  <1>8. QED
    BY <1>1, <1>2, <1>4, <1>5, <1>7 DEF OkxInv, CarriedOrDue

LEMMA OkxBackKeeps ==
  ASSUME OkxInv, ChannelsBack
  PROVE  OkxInv'
  <1>1. /\ OkxTypes /\ Remembered /\ ~ okxUp
        /\ (\A k \in okxRecord : KeyOf(k) \/ Erased(k)) /\ okxCopy = {} /\ okxSent = {} /\ okxCarried = {}
    BY DEF OkxInv, OkxTypes, ChannelsBack, MonitorRests
  <1>2. /\ okxUp' = TRUE /\ okxDue' = TRUE
        /\ UNCHANGED <<cast, okxRecord, okxCall, okxCopy, okxSent, okxCarried, okxWanted, okxExcuse>>
    BY DEF ChannelsBack
  <1>3. /\ \A c \in okxCall' : CallRight(c)'
        /\ \A key : Erased(key) => Erased(key)'
        /\ Recording' = Recording /\ Kept' \subseteq Kept
        /\ \A key : KeyOf(key) => KeyOf(key)'
    BY <1>2, CallStays
  <1>4. OkxTypes'
    BY <1>1, <1>2 DEF OkxTypes
  <1>5. Remembered'
    BY <1>1, <1>2, <1>3 DEF Remembered, Named
  <1>6. CarriedOrDue'
    BY <1>1, <1>2, <1>3 DEF CarriedOrDue, Remembered, ComesBack, Named
  <1>7. QED
    BY <1>1, <1>2, <1>3, <1>4, <1>5, <1>6 DEF OkxInv

LEMMA CopiesKeysKeeps ==
  ASSUME OkxInv, CopiesKeys
  PROVE  OkxInv'
  <1>1. /\ OkxTypes /\ Remembered /\ CarriedOrDue
        /\ (\A k \in okxRecord : KeyOf(k) \/ Erased(k)) /\ (\A r \in okxCarried : Explained(r))
        /\ okxCopy = {} /\ okxSent = {}
    BY DEF OkxInv, OkxTypes, CopiesKeys
  <1>2. /\ okxDue' = FALSE /\ okxCopy' = {k \in okxRecord : Len(k) > 1}
        /\ okxExcuse' = okxExcuse \cup AsksOf(Underway("erase"))
        /\ UNCHANGED <<cast, okxUp, okxRecord, okxCall, okxSent, okxCarried, okxWanted>>
    BY DEF CopiesKeys, Copied
  <1>3. AsksOf(Underway("erase")) \subseteq cast
    BY DEF OkxInv, CallRight, AsksOf, Underway
  <1>4. /\ \A c \in okxCall' : CallRight(c)'
        /\ \A key : Erased(key) => Erased(key)'
        /\ Recording' = Recording /\ Kept' \subseteq Kept
        /\ \A key : KeyOf(key) => KeyOf(key)'
        /\ \A r : Explained(r) => Explained(r)'
    BY <1>2, CallStays
  <1>5. OkxTypes'
    BY <1>1, <1>2, <1>3 DEF OkxTypes
  <1>6. Remembered'
    BY <1>1, <1>2, <1>4 DEF Remembered, Named
  <1>7. ASSUME okxUp, NEW a \in Kept'
        PROVE  Taken(RequestOf(a), TRUE) \subseteq okxCarried \/ ComesBack(a)'
    <2>1. Taken(RequestOf(a), TRUE) \subseteq okxCarried \/ (Named(a) /\ InstrumentKey(a) \in okxRecord)
      BY <1>1, <1>4, <1>7 DEF CarriedOrDue, ComesBack
    <2>2. a \in Asks
      BY <1>2, <1>5, <1>7 DEF OkxTypes, Kept
    <2>3. Named(a) => Len(InstrumentKey(a)) > 1
      BY <2>2, InstrumentAgain DEF Named
    <2>4. QED
      BY <1>2, <2>1, <2>3 DEF ComesBack, Named
  <1>8. ASSUME NEW k \in okxCopy'
        PROVE  KeyOf(k)'
    <2>1. k \in okxRecord
      BY <1>2, <1>8
    <2>2. CASE Erased(k)
      <3>1. PICK c \in okxCall : c.op = "erase" /\ Named(c.ask) /\ k = InstrumentKey(c.ask)
        BY <2>2 DEF Erased
      <3>2. c.ask \in okxExcuse'
        BY <1>2, <3>1 DEF AsksOf, Underway
      <3>3. QED
        BY <3>1, <3>2 DEF KeyOf, Named
    <2>3. QED
      BY <1>1, <1>4, <2>1, <2>2
  <1>9. CarriedOrDue'
    BY <1>2, <1>7 DEF CarriedOrDue
  <1>10. QED
    BY <1>1, <1>2, <1>4, <1>5, <1>6, <1>8, <1>9 DEF OkxInv

(* What is asked for again from a key has the reason that the key has. *)
LEMMA AgainExplained ==
  ASSUME OkxTypes, NEW k, KeyOf(k), Len(k) > 1, NEW overlooks, NEW r \in Taken(Again(k), overlooks)
  PROVE  Explained(r)
  <1>1. \A a \in okxWanted \cup okxExcuse \cup cast : a \in Asks
    BY DEF OkxTypes
  <1>2. ASSUME NEW a \in okxWanted \cup okxExcuse, a.channel \in ByInstrument, k = InstrumentKey(a)
        PROVE  Explained(r)
    <2>1. a \in Asks
      BY <1>1, <1>2
    <2>2. a.inst # Empty
      BY <1>2, <2>1, EmptyAgain
    <2>3. r \in Taken(RequestOf(a), TRUE)
      BY <1>2, <2>1, <2>2, InstrumentAgain, TakenAsSent
    <2>4. QED
      BY <1>2, <2>3 DEF Explained
  <1>3. CASE k[1] \in ByType
    BY <1>3, AgainIs
  <1>4. ASSUME NEW a \in cast, a.channel \in Whole, k = WholeKey(a)
        PROVE  Explained(r)
    <2>1. a.detail # Empty /\ r["channel"] = <<a.channel>>
      BY <1>1, <1>4, WholeAgain
    <2>2. QED
      BY <1>4, <2>1 DEF Explained
  <1>5. QED
    BY <1>2, <1>3, <1>4 DEF KeyOf

LEMMA SendsAgainKeeps ==
  ASSUME OkxInv, SendsAgain
  PROVE  OkxInv'
  <1>1. /\ OkxTypes /\ Remembered /\ CarriedOrDue
        /\ (\A k \in okxRecord : KeyOf(k) \/ Erased(k))
        /\ (\A k \in okxCopy \cup okxSent : KeyOf(k)) /\ (\A r \in okxCarried : Explained(r))
        /\ (\A k \in okxCopy : Len(k) > 1)
    BY DEF OkxInv, OkxTypes
  <1>2. PICK keys \in SUBSET okxCopy, overlooks \in BOOLEAN :
          /\ okxCopy' = okxCopy \ keys
          /\ IF okxUp
               THEN okxCarried' = okxCarried \cup TakenAgain(keys, overlooks) /\ okxSent' = keys
               ELSE UNCHANGED <<okxCarried, okxSent>>
    <2>1. PICK k \in okxCopy, overlooks \in BOOLEAN :
            LET keys == IF k[1] \in Batched THEN {l \in okxCopy : l[1] = k[1]} ELSE {k}
            IN  /\ okxCopy' = okxCopy \ keys
                /\ IF okxUp
                     THEN okxCarried' = okxCarried \cup TakenAgain(keys, overlooks) /\ okxSent' = keys
                     ELSE UNCHANGED <<okxCarried, okxSent>>
      BY DEF SendsAgain
    <2> DEFINE keys == IF k[1] \in Batched THEN {l \in okxCopy : l[1] = k[1]} ELSE {k}
    <2>2. keys \in SUBSET okxCopy
      OBVIOUS
    <2> HIDE DEF keys
    <2>3. QED
      BY <2>1, <2>2 DEF keys
  <1>3. UNCHANGED <<cast, okxUp, okxRecord, okxCall, okxDue, okxWanted, okxExcuse>> /\ okxSent = {}
        /\ ~ okxDue
    BY <1>1 DEF SendsAgain, OkxTypes
  <1>4. TakenAgain(keys, overlooks) = UNION {Taken(Again(k), overlooks) : k \in keys}
    BY DEF TakenAgain, Again
  <1>5. /\ \A c \in okxCall' : CallRight(c)'
        /\ \A key : Erased(key) => Erased(key)'
        /\ Recording' = Recording /\ Kept' \subseteq Kept
        /\ \A key : KeyOf(key) => KeyOf(key)'
        /\ \A r : Explained(r) => Explained(r)'
    BY <1>3, CallStays
  <1>6. OkxTypes'
    BY <1>1, <1>2, <1>3 DEF OkxTypes
  <1>7. Remembered'
    BY <1>1, <1>3, <1>5 DEF Remembered, Named
  <1>8. \A r \in okxCarried' : Explained(r)'
    <2>1. ASSUME NEW r \in TakenAgain(keys, overlooks)
          PROVE  Explained(r)
      <3>1. PICK k \in keys : r \in Taken(Again(k), overlooks)
        BY <1>4, <2>1
      <3>2. QED
        BY <1>1, <3>1, AgainExplained
    <2>2. QED
      BY <1>1, <1>2, <1>5, <2>1
  <1>9. ASSUME okxUp, NEW a \in Kept'
        PROVE  Taken(RequestOf(a), TRUE) \subseteq okxCarried' \/ ComesBack(a)'
    <2>1. Taken(RequestOf(a), TRUE) \subseteq okxCarried \/ (Named(a) /\ InstrumentKey(a) \in okxCopy)
      BY <1>1, <1>3, <1>5, <1>9 DEF CarriedOrDue, ComesBack
    <2>2. okxCarried' = okxCarried \cup TakenAgain(keys, overlooks)
      BY <1>2, <1>9
    <2>3. CASE Named(a) /\ InstrumentKey(a) \in keys
      <3>1. a \in Asks
        BY <1>3, <1>6, <1>9 DEF OkxTypes, Kept
      <3>2. Again(InstrumentKey(a)) = RequestOf(a)
        BY <2>3, <3>1, InstrumentAgain DEF Named
      <3>3. Taken(RequestOf(a), overlooks) \subseteq okxCarried'
        BY <1>4, <2>2, <2>3, <3>2
      <3>4. QED
        BY <3>1, <3>3, TakenAsSent
    <2>4. CASE Named(a) /\ InstrumentKey(a) \in okxCopy \ keys
      BY <1>2, <2>4 DEF ComesBack, Named
    <2>5. QED
      BY <2>1, <2>2, <2>3, <2>4
  <1>10. CarriedOrDue'
    BY <1>3, <1>9 DEF CarriedOrDue
  <1>11. \A k \in okxCopy' \cup okxSent' : KeyOf(k)'
    <2>1. okxCopy' \cup okxSent' \subseteq okxCopy
      BY <1>2, <1>3
    <2>2. QED
      BY <1>1, <1>5, <2>1
  <1>12. QED
    BY <1>1, <1>3, <1>5, <1>6, <1>7, <1>8, <1>10, <1>11 DEF OkxInv, OkxTypes

LEMMA RecordsAgainKeeps ==
  ASSUME OkxInv, RecordsAgain
  PROVE  OkxInv'
  <1>1. /\ OkxTypes /\ Remembered /\ CarriedOrDue
        /\ (\A k \in okxRecord : KeyOf(k) \/ Erased(k))
        /\ (\A k \in okxCopy \cup okxSent : KeyOf(k)) /\ (\A r \in okxCarried : Explained(r))
    BY DEF OkxInv
  <1>2. /\ okxSent' = {} /\ okxRecord' = okxRecord \cup okxSent
        /\ UNCHANGED <<cast, okxUp, okxCall, okxDue, okxCopy, okxCarried, okxWanted, okxExcuse>>
    BY DEF RecordsAgain
  <1>3. /\ \A c \in okxCall' : CallRight(c)'
        /\ \A key : Erased(key) => Erased(key)'
        /\ Recording' = Recording /\ Kept' = Kept
        /\ \A key : KeyOf(key) => KeyOf(key)'
        /\ \A r : Explained(r) => Explained(r)'
    BY <1>2, CallStays DEF Kept
  <1>4. OkxTypes'
    BY <1>1, <1>2 DEF OkxTypes
  <1>5. Remembered'
    BY <1>1, <1>2, <1>3 DEF Remembered, Named
  <1>6. CarriedOrDue'
    BY <1>1, <1>2, <1>3 DEF CarriedOrDue, ComesBack, Named
  <1>7. QED
    BY <1>1, <1>2, <1>3, <1>4, <1>5, <1>6 DEF OkxInv

-----------------------------------------------------------------------------
LEMMA FirstPart ==
  ASSUME NEW S, NEW s \in Seq(S), s # <<>>, NEW t \in Seq(S)
  PROVE  s \o t \in Seq(S) /\ s \o t # <<>> /\ (s \o t)[1] = s[1]
  <1>1. Len(s) \in Nat /\ Len(t) \in Nat /\ Len(s) # 0
    OBVIOUS
  <1>2. s \o t \in Seq(S) /\ Len(s \o t) = Len(s) + Len(t)
    BY ConcatProperties
  <1>3. 1 \in 1 .. Len(s) + Len(t) /\ 1 =< Len(s)
    BY <1>1
  <1>4. (s \o t)[1] = s[1]
    BY <1>3, ConcatProperties
  <1>5. QED
    BY <1>1, <1>2, <1>4

LEMMA TypeKeyIs ==
  ASSUME NEW a \in Asks
  PROVE  TypeKey(a)[1] = a.channel /\ (TypeKey(a) \o PartOf(a.detail))[1] = a.channel
  <1> DEFINE S == STRING \cup {a.channel}  c == <<a.channel>>  d == PartOf(a.detail)  i == PartOf(a.inst)
  <1>1. \A text \in Texts : text \in Seq(S)
    <2>1. ASSUME NEW text \in Texts
          PROVE  text \in Seq(S)
      <3>1. text \in Seq(STRING)
        BY <2>1 DEF Texts
      <3>2. text \in [1 .. Len(text) -> S] /\ Len(text) \in Nat
        BY <3>1
      <3>3. QED
        BY <3>1, <3>2
    <2>2. QED
      BY <2>1
  <1>2. a.type \in Seq(S) /\ d \in Seq(S) /\ i \in Seq(S)
    BY <1>1, AskIs DEF PartOf
  <1>3. c \in Seq(S) /\ c # <<>> /\ c[1] = a.channel
    OBVIOUS
  <1> HIDE DEF S, d, i, c
  <1>4. c \o a.type \in Seq(S) /\ c \o a.type # <<>> /\ (c \o a.type)[1] = a.channel
    BY <1>2, <1>3, FirstPart
  <1>5. (c \o a.type) \o i \in Seq(S) /\ (c \o a.type) \o i # <<>> /\ ((c \o a.type) \o i)[1] = a.channel
    BY <1>2, <1>4, FirstPart
  <1>6. (((c \o a.type) \o i) \o d)[1] = a.channel
    BY <1>2, <1>5, FirstPart
  <1>7. QED
    BY <1>5, <1>6 DEF TypeKey, c, d, i

LEMMA WholeKeyIs ==
  ASSUME NEW a \in Asks
  PROVE  WholeKey(a)[1] = a.channel
  <1>1. a.detail \in Texts
    BY AskIs
  <1>2. CASE a.detail = Empty
    BY <1>2 DEF WholeKey, PartOf
  <1>3. CASE a.detail # Empty
    BY <1>1, <1>3, KeyIs DEF WholeKey, PartOf
  <1>4. QED
    BY <1>2, <1>3

LEMMA CallKeeps ==
  ASSUME OkxInv, NEW a \in cast, OwnerCalls(a)
  PROVE  OkxInv'
  <1>1. a \in Asks
    BY DEF OkxInv, OkxTypes
  <1>2. /\ a.channel \in ByInstrument => a.channel \notin ByType \cup Whole
        /\ a.channel \in ByType \cup Whole => a.channel \notin ByInstrument /\ ~ Named(a)
    BY ChannelKinds DEF Named
  <1>3. ASSUME NEW key, Subscribe(a, RequestOf(a), key), a.channel \in ByInstrument, key = InstrumentKey(a)
        PROVE  OkxInv'
    BY <1>3, SubscribeKeeps
  <1>4. ASSUME NEW key, Subscribe(a, RequestOf(a), key), a.channel \in ByType, key[1] = a.channel
        PROVE  OkxInv'
    BY <1>2, <1>4, SubscribeKeeps
  <1>5. ASSUME Subscribe(a, RequestOf(a), WholeKey(a)), a.channel \in Whole
        PROVE  OkxInv'
    BY <1>2, <1>5, SubscribeKeeps
  <1>6. ASSUME NEW key, Unsubscribe(a, key), a.channel \in ByType \cup Whole, key[1] = a.channel
        PROVE  OkxInv'
    BY <1>2, <1>6, UnsubscribeKeeps
  <1>7. CASE SubscribeInstrument(a) \/ SubscribeTickersByType(a)
    <2>1. a.channel \in ByInstrument
      BY <1>7 DEF SubscribeInstrument, SubscribeTickersByType, ByInstrument
    <2>2. QED
      BY <1>3, <1>7, <2>1 DEF SubscribeInstrument, SubscribeTickersByType
  <1>8. CASE UnsubscribeInstrument(a)
    BY <1>8, UnsubscribeKeeps DEF UnsubscribeInstrument, Named
  <1>9. CASE SubscribeBatched(a)
    <2>1. a.channel \in ByInstrument /\ a.inst # Empty /\ ChannelName(a.channel) = a.channel
      BY <1>9 DEF SubscribeBatched, Batched, ByInstrument, ChannelName
    <2>2. Request(a.channel, Optional("instId", a.inst)) = RequestOf(a)
      BY <1>1, <2>1, InstrumentAgain
    <2>3. Subscribe(a, RequestOf(a), InstrumentKey(a))
      BY <1>9, <2>1, <2>2 DEF SubscribeBatched, InstrumentKey
    <2>4. QED
      BY <1>3, <2>1, <2>3
  <1>10. CASE SubscribeOrders(a) \/ SubscribePositions(a) \/ SubscribeOrdersAlgo(a) \/ SubscribeAlgoAdvance(a)
    <2>1. a.channel \in ByType
      BY <1>10 DEF SubscribeOrders, SubscribePositions, SubscribeOrdersAlgo, SubscribeAlgoAdvance, ByType
    <2>2. \E key \in {TypeKey(a), TypeKey(a) \o PartOf(a.detail)} : Subscribe(a, RequestOf(a), key)
      BY <1>10 DEF SubscribeOrders, SubscribePositions, SubscribeOrdersAlgo, SubscribeAlgoAdvance
    <2>3. QED
      BY <1>1, <1>4, <2>1, <2>2, TypeKeyIs
  <1>11. CASE UnsubscribeOrders(a) \/ UnsubscribePositions(a) \/ UnsubscribeOrdersAlgo(a) \/ UnsubscribeAlgoAdvance(a)
    <2>1. a.channel \in ByType
      BY <1>11 DEF UnsubscribeOrders, UnsubscribePositions, UnsubscribeOrdersAlgo, UnsubscribeAlgoAdvance, ByType
    <2>2. \E key \in {TypeKey(a), TypeKey(a) \o PartOf(a.detail)} : Unsubscribe(a, key)
      BY <1>11 DEF UnsubscribeOrders, UnsubscribePositions, UnsubscribeOrdersAlgo, UnsubscribeAlgoAdvance
    <2>3. QED
      BY <1>1, <1>6, <2>1, <2>2, TypeKeyIs
  <1>12. CASE SubscribeAccount(a) \/ SubscribeBalanceAndPosition(a) \/ SubscribeSprdOrders(a) \/ SubscribeSprdTrades(a)
    <2>1. a.channel \in Whole
      BY <1>12 DEF SubscribeAccount, SubscribeBalanceAndPosition, SubscribeSprdOrders, SubscribeSprdTrades, Whole
    <2>2. Subscribe(a, RequestOf(a), WholeKey(a))
      BY <1>12 DEF SubscribeAccount, SubscribeBalanceAndPosition, SubscribeSprdOrders, SubscribeSprdTrades
    <2>3. QED
      BY <1>5, <2>1, <2>2
  <1>13. CASE UnsubscribeAccount(a)
    <2>1. a.channel = "account" /\ a.channel \in Whole /\ Unsubscribe(a, <<"account">> \o Empty)
      BY <1>13 DEF UnsubscribeAccount, Whole
    <2>2. (<<"account">> \o Empty)[1] = "account"
      BY DEF Empty
    <2>3. QED
      BY <1>6, <2>1, <2>2
  <1>14. CASE UnsubscribeSprdOrders(a) \/ UnsubscribeSprdTrades(a)
    <2>1. a.channel \in Whole /\ Unsubscribe(a, WholeKey(a))
      BY <1>14 DEF UnsubscribeSprdOrders, UnsubscribeSprdTrades, Whole
    <2>2. QED
      BY <1>1, <1>6, <2>1, WholeKeyIs
  <1>15. QED
    BY <1>7, <1>8, <1>9, <1>10, <1>11, <1>12, <1>13, <1>14, BalanceKeeps DEF OwnerCalls

LEMMA OkxInvCarries == OkxInv => OkxCarriesWanted
  <1>1. SUFFICES ASSUME OkxInv, okxUp, ~ okxDue, okxCopy = {}
                 PROVE  /\ \A a \in Kept : Taken(RequestOf(a), TRUE) \subseteq okxCarried
                        /\ \A r \in okxCarried : Explained(r)
    BY DEF OkxCarriesWanted, MonitorRests, Kept, Explained
  <1>2. QED
    BY <1>1 DEF OkxInv, CarriedOrDue, ComesBack

(* Whatever its owner may ask for, the adapter's connection carries what   *)
(* its owner wants, and nothing else, through drops and reconnections, but *)
(* for the exceptions that OkxCarriesWanted names.                         *)
THEOREM OkxCarries == OkxSpec => []OkxCarriesWanted
  <1>1. OkxInv /\ [OkxNext]_okxVars => OkxInv'
    <2> SUFFICES ASSUME OkxInv, [OkxNext]_okxVars
                 PROVE  OkxInv'
      OBVIOUS
    <2>1. CASE \E a \in cast : OwnerCalls(a)
      BY <2>1, CallKeeps
    <2>2. CASE ChannelsLost
      BY <2>2, OkxLostKeeps
    <2>3. CASE ChannelsBack
      BY <2>3, OkxBackKeeps
    <2>4. CASE CallWritten
      BY <2>4, CallWrittenKeeps
    <2>5. CASE CopiesKeys
      BY <2>5, CopiesKeysKeeps
    <2>6. CASE SendsAgain
      BY <2>6, SendsAgainKeeps
    <2>7. CASE RecordsAgain
      BY <2>7, RecordsAgainKeeps
    <2>8. CASE UNCHANGED okxVars
      <3>1. /\ UNCHANGED <<cast, okxUp, okxRecord, okxCall, okxDue, okxCopy, okxSent>>
            /\ UNCHANGED <<okxCarried, okxWanted, okxExcuse>>
        BY <2>8 DEF okxVars, monitorOkxVars
      <3>2. /\ \A c \in okxCall' : CallRight(c)'
            /\ \A key : Erased(key) => Erased(key)'
            /\ Recording' = Recording /\ Kept' = Kept
            /\ \A key : KeyOf(key) => KeyOf(key)'
            /\ \A r : Explained(r) => Explained(r)'
        BY <3>1, CallStays DEF Kept
      <3>3. OkxTypes' /\ Remembered' /\ CarriedOrDue'
        BY <3>1, <3>2 DEF OkxInv, OkxTypes, Remembered, CarriedOrDue, ComesBack, Named
      <3>4. QED
        BY <3>1, <3>2, <3>3 DEF OkxInv
    <2>9. QED
      BY <2>1, <2>2, <2>3, <2>4, <2>5, <2>6, <2>7, <2>8 DEF OkxNext
  <1>2. QED
    BY InitOkx, OkxInvCarries, <1>1, PTL DEF OkxSpec

-----------------------------------------------------------------------------
(* The feed *)

(* What is published but handled by nobody. *)
Unhandled == {<<"ticker", "swap", "">>, <<"ticker", "perp", "">>, <<"mark_price", "perp", "">>}

Messages == [topic : Topics \cup Unhandled, n : Nat, final : BOOLEAN]

SocketHooks ==
    OkxCallbacks \cup {<<"batch", "kline">>} \cup {<<"market", c>> : c \in {"ticker", "trade", "kline", "mark_price"}}

DataTypes ==
    /\ setup \in {"main", "after"} /\ flowing \subseteq Feeds
    /\ hooks \subseteq SocketHooks
    /\ joined \in BOOLEAN
    /\ pushes \in [Feeds -> Nat]
    /\ queue \in Seq(Messages) /\ Len(queue) =< QueueRoom
    /\ buffers \in [Topics -> Seq(Messages)]
    /\ published \in [Topics -> Nat]

Unjoined == ~ joined => queue = <<>> /\ \A t \in Topics : buffers[t] = <<>>

OwnBuffers == \A t \in Topics : \A i \in DOMAIN buffers[t] : buffers[t][i].topic = t

(* Of OKX main sets the callbacks of candles and tickers alone. *)
MainWiring ==
    /\ setup = "main" => hooks \cap OkxCallbacks \subseteq {<<"business", "kline">>, <<"public", "ticker">>}
    /\ setup = "main" => \A i \in DOMAIN queue :
                            queue[i].topic[2] = "swap" => queue[i].topic[1] \in {"kline", "ticker"}
    /\ setup = "main" => \A t \in Topics : t[2] = "swap" /\ buffers[t] # <<>> => t[1] = "kline"

(* From its first event on everything a feed brings is published. *)
Counted ==
    \A f \in Feeds :
        LET t == TopicOf(f)
        IN  t \in Topics \ twice /\ published[t] > 0 /\ f.channel # "kline" =>
                published[t] = pushes[f] /\ <<f.socket, Callback(f)>> \in hooks

(* A topic that one socket brings is in order, in the buffer, in the queue *)
(* and from one to the other.                                              *)
OnTheWay(t) ==
    /\ \A i \in DOMAIN buffers[t] :
          /\ buffers[t][i].final /\ buffers[t][i].n \in 1 .. published[t]
          /\ \A j \in DOMAIN buffers[t] : i < j => buffers[t][i].n < buffers[t][j].n
          /\ \A j \in Places(queue, t) : buffers[t][i].n < queue[j].n
    /\ \A i \in Places(queue, t) :
          /\ queue[i].final /\ queue[i].n \in 1 .. published[t]
          /\ \A j \in Places(queue, t) : i < j => queue[i].n < queue[j].n

Unbroken(t) ==
    \E first \in 1 .. published[t] + 1 :
        Numbers(buffers[t], t) \cup Numbers(queue, t) = first .. published[t]

FeedInv ==
    /\ DataTypes /\ Unjoined /\ OwnBuffers /\ MainWiring /\ Counted
    /\ \A t \in Topics \ twice : OnTheWay(t)
    /\ \A t \in Topics \ (twice \cup gaps) : Unbroken(t)

-----------------------------------------------------------------------------
(* Each feed with its callback, which begins its topic. *)
IsFeed(f, socket, channel, symbol, detail, callback) ==
    /\ f.socket = socket /\ f.channel = channel /\ f.symbol = symbol /\ f.detail = detail
    /\ f = Feed(socket, channel, symbol, detail)
    /\ Callback(f) = callback /\ TopicOf(f) = <<callback, symbol, detail>>

FeedTable(f) ==
    \/ IsFeed(f, "business", "candle", "swap", "1m", "kline")
    \/ IsFeed(f, "business", "candle", "swap", "5m", "kline")
    \/ IsFeed(f, "public", "tickers", "swap", "", "ticker")
    \/ IsFeed(f, "public", "trades", "swap", "", "trade")
    \/ IsFeed(f, "public", "funding-rate", "swap", "", "funding_rate")
    \/ IsFeed(f, "public", "books5", "swap", "books5", "orderbook")
    \/ IsFeed(f, "public", "bbo-tbt", "swap", "bbo-tbt", "orderbook")
    \/ IsFeed(f, "batch", "continuous_kline", "perp", "1m", "kline")
    \/ IsFeed(f, "market", "kline", "perp", "1m", "kline")
    \/ IsFeed(f, "market", "trade", "perp", "", "trade")
    \/ IsFeed(f, "market", "depthUpdate", "perp", "", "orderbook")
    \/ IsFeed(f, "market", "markPriceUpdate", "perp", "", "mark_price")
    \/ IsFeed(f, "market", "24hrTicker", "perp", "", "ticker")

LEMMA FeedsInTable ==
  ASSUME NEW f \in Feeds
  PROVE  FeedTable(f)
  <1>1. \/ f \in {Feed("business", "candle", "swap", bar) : bar \in {"1m", "5m"}}
        \/ f \in {Feed("public", channel, "swap", "") : channel \in {"tickers", "trades", "funding-rate"}}
        \/ f \in {Feed("public", channel, "swap", channel) : channel \in {"books5", "bbo-tbt"}}
        \/ f \in {Feed("batch", "continuous_kline", "perp", "1m"), Feed("market", "kline", "perp", "1m")}
        \/ f \in {Feed("market", channel, "perp", "") : channel \in {"trade", "depthUpdate", "markPriceUpdate", "24hrTicker"}}
    BY DEF Feeds
  <1>2. \/ f = Feed("business", "candle", "swap", "1m")
        \/ f = Feed("business", "candle", "swap", "5m")
        \/ f = Feed("public", "tickers", "swap", "")
        \/ f = Feed("public", "trades", "swap", "")
        \/ f = Feed("public", "funding-rate", "swap", "")
        \/ f = Feed("public", "books5", "swap", "books5")
        \/ f = Feed("public", "bbo-tbt", "swap", "bbo-tbt")
        \/ f = Feed("batch", "continuous_kline", "perp", "1m")
        \/ f = Feed("market", "kline", "perp", "1m")
        \/ f = Feed("market", "trade", "perp", "")
        \/ f = Feed("market", "depthUpdate", "perp", "")
        \/ f = Feed("market", "markPriceUpdate", "perp", "")
        \/ f = Feed("market", "24hrTicker", "perp", "")
    BY <1>1
  <1>3. CASE f = Feed("business", "candle", "swap", "1m")
    <2>1. f.socket = "business" /\ f.channel = "candle" /\ f.symbol = "swap" /\ f.detail = "1m"
      BY <1>3 DEF Feed
    <2>2. Callback(f) = "kline"
      BY <2>1 DEF Callback, OkxCallback
    <2>3. IsFeed(f, "business", "candle", "swap", "1m", "kline")
      BY <1>3, <2>1, <2>2 DEF IsFeed, TopicOf
    <2>4. QED
      BY <2>3 DEF FeedTable
  <1>4. CASE f = Feed("business", "candle", "swap", "5m")
    <2>1. f.socket = "business" /\ f.channel = "candle" /\ f.symbol = "swap" /\ f.detail = "5m"
      BY <1>4 DEF Feed
    <2>2. Callback(f) = "kline"
      BY <2>1 DEF Callback, OkxCallback
    <2>3. IsFeed(f, "business", "candle", "swap", "5m", "kline")
      BY <1>4, <2>1, <2>2 DEF IsFeed, TopicOf
    <2>4. QED
      BY <2>3 DEF FeedTable
  <1>5. CASE f = Feed("public", "tickers", "swap", "")
    <2>1. f.socket = "public" /\ f.channel = "tickers" /\ f.symbol = "swap" /\ f.detail = ""
      BY <1>5 DEF Feed
    <2>2. Callback(f) = "ticker"
      BY <2>1 DEF Callback, OkxCallback
    <2>3. IsFeed(f, "public", "tickers", "swap", "", "ticker")
      BY <1>5, <2>1, <2>2 DEF IsFeed, TopicOf
    <2>4. QED
      BY <2>3 DEF FeedTable
  <1>6. CASE f = Feed("public", "trades", "swap", "")
    <2>1. f.socket = "public" /\ f.channel = "trades" /\ f.symbol = "swap" /\ f.detail = ""
      BY <1>6 DEF Feed
    <2>2. Callback(f) = "trade"
      BY <2>1 DEF Callback, OkxCallback
    <2>3. IsFeed(f, "public", "trades", "swap", "", "trade")
      BY <1>6, <2>1, <2>2 DEF IsFeed, TopicOf
    <2>4. QED
      BY <2>3 DEF FeedTable
  <1>7. CASE f = Feed("public", "funding-rate", "swap", "")
    <2>1. f.socket = "public" /\ f.channel = "funding-rate" /\ f.symbol = "swap" /\ f.detail = ""
      BY <1>7 DEF Feed
    <2>2. Callback(f) = "funding_rate"
      BY <2>1 DEF Callback, OkxCallback
    <2>3. IsFeed(f, "public", "funding-rate", "swap", "", "funding_rate")
      BY <1>7, <2>1, <2>2 DEF IsFeed, TopicOf
    <2>4. QED
      BY <2>3 DEF FeedTable
  <1>8. CASE f = Feed("public", "books5", "swap", "books5")
    <2>1. f.socket = "public" /\ f.channel = "books5" /\ f.symbol = "swap" /\ f.detail = "books5"
      BY <1>8 DEF Feed
    <2>2. Callback(f) = "orderbook"
      BY <2>1 DEF Callback, OkxCallback
    <2>3. IsFeed(f, "public", "books5", "swap", "books5", "orderbook")
      BY <1>8, <2>1, <2>2 DEF IsFeed, TopicOf
    <2>4. QED
      BY <2>3 DEF FeedTable
  <1>9. CASE f = Feed("public", "bbo-tbt", "swap", "bbo-tbt")
    <2>1. f.socket = "public" /\ f.channel = "bbo-tbt" /\ f.symbol = "swap" /\ f.detail = "bbo-tbt"
      BY <1>9 DEF Feed
    <2>2. Callback(f) = "orderbook"
      BY <2>1 DEF Callback, OkxCallback
    <2>3. IsFeed(f, "public", "bbo-tbt", "swap", "bbo-tbt", "orderbook")
      BY <1>9, <2>1, <2>2 DEF IsFeed, TopicOf
    <2>4. QED
      BY <2>3 DEF FeedTable
  <1>10. CASE f = Feed("batch", "continuous_kline", "perp", "1m")
    <2>1. f.socket = "batch" /\ f.channel = "continuous_kline" /\ f.symbol = "perp" /\ f.detail = "1m"
      BY <1>10 DEF Feed
    <2>2. Callback(f) = "kline"
      BY <2>1 DEF Callback, BinanceCallback
    <2>3. IsFeed(f, "batch", "continuous_kline", "perp", "1m", "kline")
      BY <1>10, <2>1, <2>2 DEF IsFeed, TopicOf
    <2>4. QED
      BY <2>3 DEF FeedTable
  <1>11. CASE f = Feed("market", "kline", "perp", "1m")
    <2>1. f.socket = "market" /\ f.channel = "kline" /\ f.symbol = "perp" /\ f.detail = "1m"
      BY <1>11 DEF Feed
    <2>2. Callback(f) = "kline"
      BY <2>1 DEF Callback, BinanceCallback
    <2>3. IsFeed(f, "market", "kline", "perp", "1m", "kline")
      BY <1>11, <2>1, <2>2 DEF IsFeed, TopicOf
    <2>4. QED
      BY <2>3 DEF FeedTable
  <1>12. CASE f = Feed("market", "trade", "perp", "")
    <2>1. f.socket = "market" /\ f.channel = "trade" /\ f.symbol = "perp" /\ f.detail = ""
      BY <1>12 DEF Feed
    <2>2. Callback(f) = "trade"
      BY <2>1 DEF Callback, BinanceCallback
    <2>3. IsFeed(f, "market", "trade", "perp", "", "trade")
      BY <1>12, <2>1, <2>2 DEF IsFeed, TopicOf
    <2>4. QED
      BY <2>3 DEF FeedTable
  <1>13. CASE f = Feed("market", "depthUpdate", "perp", "")
    <2>1. f.socket = "market" /\ f.channel = "depthUpdate" /\ f.symbol = "perp" /\ f.detail = ""
      BY <1>13 DEF Feed
    <2>2. Callback(f) = "orderbook"
      BY <2>1 DEF Callback, BinanceCallback
    <2>3. IsFeed(f, "market", "depthUpdate", "perp", "", "orderbook")
      BY <1>13, <2>1, <2>2 DEF IsFeed, TopicOf
    <2>4. QED
      BY <2>3 DEF FeedTable
  <1>14. CASE f = Feed("market", "markPriceUpdate", "perp", "")
    <2>1. f.socket = "market" /\ f.channel = "markPriceUpdate" /\ f.symbol = "perp" /\ f.detail = ""
      BY <1>14 DEF Feed
    <2>2. Callback(f) = "mark_price"
      BY <2>1 DEF Callback, BinanceCallback
    <2>3. IsFeed(f, "market", "markPriceUpdate", "perp", "", "mark_price")
      BY <1>14, <2>1, <2>2 DEF IsFeed, TopicOf
    <2>4. QED
      BY <2>3 DEF FeedTable
  <1>15. CASE f = Feed("market", "24hrTicker", "perp", "")
    <2>1. f.socket = "market" /\ f.channel = "24hrTicker" /\ f.symbol = "perp" /\ f.detail = ""
      BY <1>15 DEF Feed
    <2>2. Callback(f) = "ticker"
      BY <2>1 DEF Callback, BinanceCallback
    <2>3. IsFeed(f, "market", "24hrTicker", "perp", "", "ticker")
      BY <1>15, <2>1, <2>2 DEF IsFeed, TopicOf
    <2>4. QED
      BY <2>3 DEF FeedTable
  <1>16. QED
    BY <1>2, <1>3, <1>4, <1>5, <1>6, <1>7, <1>8, <1>9, <1>10, <1>11, <1>12, <1>13, <1>14, <1>15

LEMMA FeedFacts ==
  ASSUME NEW f \in Feeds
  PROVE  /\ TopicOf(f)[1] = Callback(f) /\ TopicOf(f)[2] = f.symbol
         /\ Callback(f) = "kline" /\ f.socket = "market" => f.channel = "kline"
         /\ f.symbol = "swap" => f.socket \in {"business", "public"}
         /\ <<f.socket, Callback(f)>> \in SocketHooks => TopicOf(f) \in Topics \cup Unhandled
  <1>1. TopicOf(f)[1] = Callback(f) /\ TopicOf(f)[2] = f.symbol
    BY DEF TopicOf
  <1>2. Callback(f) = "kline" /\ f.socket = "market" => f.channel = "kline"
    BY FeedsInTable DEF FeedTable, IsFeed
  <1>3. f.symbol = "swap" => f.socket \in {"business", "public"}
    BY FeedsInTable DEF FeedTable, IsFeed
  <1>4. <<f.socket, Callback(f)>> \in SocketHooks => TopicOf(f) \in Topics \cup Unhandled
    <2>1. CASE f.channel = "depthUpdate"
      <3>1. f.socket = "market" /\ Callback(f) = "orderbook"
        BY <2>1, FeedsInTable DEF FeedTable, IsFeed
      <3>2. QED
        <4>1. <<"market", "orderbook">> \notin OkxCallbacks
          BY DEF OkxCallbacks
        <4>2. <<"market", "orderbook">> # <<"batch", "kline">>
          OBVIOUS
        <4>3. <<"market", "orderbook">> \notin {<<"market", c>> : c \in {"ticker", "trade", "kline", "mark_price"}}
          OBVIOUS
        <4>4. <<f.socket, Callback(f)>> = <<"market", "orderbook">>
          BY <3>1
        <4>5. QED
          BY <4>1, <4>2, <4>3, <4>4, Zenon DEF SocketHooks
    <2>2. CASE f.channel # "depthUpdate"
      <3>1. \/ TopicOf(f) \in {<<"kline", "swap", "1m">>, <<"kline", "swap", "5m">>, <<"kline", "perp", "1m">>}
            \/ \E c \in {"trade", "funding_rate"}, symbol \in {"swap", "perp"} : TopicOf(f) = <<c, symbol, "">>
            \/ \E c \in {"books5", "bbo-tbt", "orderbook"} : TopicOf(f) = <<"orderbook", "swap", c>>
            \/ TopicOf(f) \in Unhandled
        BY <2>2, FeedsInTable DEF FeedTable, IsFeed, Unhandled
      <3>2. ASSUME NEW c \in {"trade", "funding_rate"}, NEW symbol \in {"swap", "perp"}
            PROVE  <<c, symbol, "">> \in Topics
        <4>1. <<c, symbol, "">> \in {"trade", "funding_rate"} \X {"swap", "perp"} \X {""}
          OBVIOUS
        <4>2. QED
          BY <4>1, Zenon DEF Topics
      <3>3. (\E c \in {"books5", "bbo-tbt", "orderbook"} : TopicOf(f) = <<"orderbook", "swap", c>>) => TopicOf(f) \in Topics
        BY DEF Topics
      <3>4. TopicOf(f) \in {<<"kline", "swap", "1m">>, <<"kline", "swap", "5m">>, <<"kline", "perp", "1m">>}
              => TopicOf(f) \in Topics
        BY Zenon DEF Topics
      <3>5. TopicOf(f) \in Topics \cup Unhandled
        BY <3>1, <3>2, <3>3, <3>4, Zenon
      <3>6. QED
        BY <3>5
    <2>3. QED
      BY <2>1, <2>2
  <1>5. QED
    BY <1>1, <1>2, <1>3, <1>4

(* A topic is brought by one feed, but for the candles that a client asks  *)
(* for by name.                                                            *)
LEMMA OneFeed ==
  ASSUME NEW f \in Feeds, NEW g \in Feeds, f.channel # "kline", g.channel # "kline", TopicOf(f) = TopicOf(g)
  PROVE  f = g
  <1>1. Callback(f) = Callback(g) /\ f.symbol = g.symbol /\ f.detail = g.detail
    BY DEF TopicOf
  <1>2. FeedTable(f) /\ FeedTable(g)
    BY FeedsInTable
  <1>3. f.socket = g.socket /\ f.channel = g.channel
    BY <1>1, <1>2 DEF FeedTable, IsFeed
  <1>4. f = Feed(f.socket, f.channel, f.symbol, f.detail) /\ g = Feed(g.socket, g.channel, g.symbol, g.detail)
    BY <1>2 DEF FeedTable, IsFeed
  <1>5. QED
    BY <1>1, <1>3, <1>4

LEMMA HandledFacts ==
  /\ \A t \in Unhandled : t[1] \in {"ticker", "mark_price"}
  /\ \A t \in Topics : t[1] \in {"kline", "trade", "orderbook", "funding_rate"}
  <1>1. \A t \in Unhandled : t[1] \in {"ticker", "mark_price"}
    <2>1. ASSUME NEW t \in Unhandled
          PROVE  t[1] \in {"ticker", "mark_price"}
      <3>1. CASE t = <<"ticker", "swap", "">>
        BY <3>1
      <3>2. CASE t = <<"ticker", "perp", "">>
        BY <3>2
      <3>3. CASE t = <<"mark_price", "perp", "">>
        BY <3>3
      <3>4. QED
        BY <2>1, <3>1, <3>2, <3>3 DEF Unhandled
    <2>2. QED
      BY <2>1
  <1>2. ASSUME NEW t \in Topics
        PROVE  t[1] \in {"kline", "trade", "orderbook", "funding_rate"}
    <2>1. CASE t \in {<<"kline", "swap", "1m">>, <<"kline", "swap", "5m">>, <<"kline", "perp", "1m">>}
      <3>1. \E symbol, bar : t = <<"kline", symbol, bar>>
        BY <2>1
      <3>2. t[1] = "kline"
        BY <3>1
      <3>3. QED
        BY <3>2, Zenon
    <2>2. CASE t \in {"trade", "funding_rate"} \X {"swap", "perp"} \X {""}
      BY <2>2
    <2>3. CASE t \in {<<"orderbook", "swap", channel>> : channel \in {"books5", "bbo-tbt", "orderbook"}}
      <3>1. \E channel : t = <<"orderbook", "swap", channel>>
        BY <2>3
      <3>2. t[1] = "orderbook"
        BY <3>1
      <3>3. QED
        BY <3>2, Zenon
    <2>4. \/ t \in {<<"kline", "swap", "1m">>, <<"kline", "swap", "5m">>, <<"kline", "perp", "1m">>}
          \/ t \in {"trade", "funding_rate"} \X {"swap", "perp"} \X {""}
          \/ t \in {<<"orderbook", "swap", channel>> : channel \in {"books5", "bbo-tbt", "orderbook"}}
      BY DEF Topics
    <2>5. QED
      BY <2>1, <2>2, <2>3, <2>4
  <1>3. QED
    BY <1>1, <1>2

-----------------------------------------------------------------------------
(* A message behind a row, and a row without its first. *)
LEMMA AppendedPlaces ==
  ASSUME NEW S, NEW q \in Seq(S), NEW e \in S, NEW t
  PROVE  /\ Append(q, e) \in Seq(S)
         /\ Places(Append(q, e), t) = Places(q, t) \cup (IF e.topic = t THEN {Len(q) + 1} ELSE {})
         /\ \A i \in 1 .. Len(q) : Append(q, e)[i] = q[i]
         /\ Append(q, e)[Len(q) + 1] = e
         /\ Places(q, t) \subseteq 1 .. Len(q)
         /\ Numbers(Append(q, e), t) = Numbers(q, t) \cup (IF e.topic = t THEN {e.n} ELSE {})
  <1> DEFINE r == Append(q, e)  n == Len(q)
  <1>1. /\ r \in Seq(S) /\ n \in Nat /\ DOMAIN q = 1 .. n /\ DOMAIN r = 1 .. n + 1
        /\ (\A i \in 1 .. n : r[i] = q[i]) /\ r[n + 1] = e
    OBVIOUS
  <1> HIDE DEF r
  <1>2. 1 .. n + 1 = (1 .. n) \cup {n + 1} /\ n + 1 \notin 1 .. n
    BY <1>1
  <1>3. Places(r, t) = Places(q, t) \cup (IF e.topic = t THEN {n + 1} ELSE {}) /\ Places(q, t) \subseteq 1 .. n
    BY <1>1, <1>2 DEF Places
  <1>4. Numbers(r, t) = Numbers(q, t) \cup (IF e.topic = t THEN {e.n} ELSE {})
    <2>1. \A i \in Places(q, t) : r[i].n = q[i].n
      BY <1>1, <1>3
    <2>2. CASE e.topic = t
      <3>1. Places(r, t) = Places(q, t) \cup {n + 1}
        BY <1>3, <2>2
      <3>2. QED
        BY <1>1, <2>1, <2>2, <3>1 DEF Numbers
    <2>3. CASE e.topic # t
      <3>1. Places(r, t) = Places(q, t)
        BY <1>3, <2>3
      <3>2. QED
        BY <2>1, <2>3, <3>1 DEF Numbers
    <2>4. QED
      BY <2>2, <2>3
  <1>5. QED
    BY <1>1, <1>3, <1>4 DEF r

TailTaken(q, t) ==
    /\ Head(q) = q[1] /\ (Head(q).topic = t => 1 \in Places(q, t))
    /\ \A i \in Places(Tail(q), t) : i \in Nat /\ i + 1 \in Places(q, t) /\ 1 < i + 1 /\ Tail(q)[i] = q[i + 1]
    /\ Numbers(q, t) = Numbers(Tail(q), t) \cup (IF Head(q).topic = t THEN {Head(q).n} ELSE {})
    /\ \A k \in Numbers(Tail(q), t) : \E i \in Places(q, t) : 1 < i /\ q[i].n = k

LEMMA TakenPlaces ==
  ASSUME NEW S, NEW q \in Seq(S), q # <<>>, NEW t
  PROVE  TailTaken(q, t) /\ Tail(q) \in Seq(S) /\ Head(q) \in S /\ Len(Tail(q)) = Len(q) - 1
  <1> DEFINE r == Tail(q)  n == Len(q)
  <1>1. /\ r \in Seq(S) /\ n \in Nat /\ n >= 1 /\ Len(r) = n - 1 /\ DOMAIN q = 1 .. n /\ DOMAIN r = 1 .. n - 1
        /\ (\A i \in 1 .. n - 1 : r[i] = q[i + 1]) /\ Head(q) = q[1] /\ q[1] \in S
    OBVIOUS
  <1> HIDE DEF r
  <1>2. \A i \in Places(r, t) : i \in Nat /\ i + 1 \in Places(q, t) /\ 1 < i + 1 /\ r[i] = q[i + 1]
    BY <1>1 DEF Places
  <1>3. Head(q).topic = t => 1 \in Places(q, t)
    BY <1>1 DEF Places
  <1>4. \A i \in Places(q, t) : (i = 1 /\ q[1].topic = t) \/ (i - 1 \in Places(r, t) /\ r[i - 1] = q[i])
    <2>1. ASSUME NEW i \in Places(q, t), i # 1
          PROVE  i - 1 \in Places(r, t) /\ r[i - 1] = q[i]
      <3>1. i \in 1 .. n /\ i - 1 \in 1 .. n - 1 /\ (i - 1) + 1 = i /\ q[i].topic = t
        BY <1>1, <2>1 DEF Places
      <3>2. r[i - 1] = q[i]
        BY <1>1, <3>1
      <3>3. QED
        BY <1>1, <3>1, <3>2 DEF Places
    <2>2. QED
      BY <2>1 DEF Places
  <1>5. Numbers(q, t) = Numbers(r, t) \cup (IF Head(q).topic = t THEN {Head(q).n} ELSE {})
    <2>1. Numbers(r, t) \subseteq Numbers(q, t)
      BY <1>2 DEF Numbers
    <2>2. Head(q).topic = t => Head(q).n \in Numbers(q, t)
      BY <1>1, <1>3 DEF Numbers
    <2>3. \A k \in Numbers(q, t) : k \in Numbers(r, t) \/ (Head(q).topic = t /\ k = Head(q).n)
      BY <1>1, <1>4 DEF Numbers
    <2>4. QED
      BY <2>1, <2>2, <2>3
  <1>6. \A k \in Numbers(r, t) : \E i \in Places(q, t) : 1 < i /\ q[i].n = k
    BY <1>2 DEF Numbers
  <1>7. QED
    <2>1. TailTaken(q, t)
      BY <1>1, <1>2, <1>3, <1>5, <1>6 DEF r, TailTaken
    <2>2. QED
      BY <1>1, <2>1 DEF r

-----------------------------------------------------------------------------
(* A topic of which nothing changes. *)
LEMMA TopicStill ==
  ASSUME NEW u \in Topics, OnTheWay(u), buffers'[u] = buffers[u], published'[u] = published[u],
         Places(queue, u)' = Places(queue, u), \A i \in Places(queue, u) : queue'[i] = queue[i]
  PROVE  OnTheWay(u)' /\ (Unbroken(u) => Unbroken(u)')
  <1>1. OnTheWay(u)'
    BY DEF OnTheWay
  <1>2. Numbers(queue, u)' = Numbers(queue, u) /\ Numbers(buffers[u], u)' = Numbers(buffers[u], u)
    BY DEF Numbers, Places
  <1>3. QED
    BY <1>1, <1>2 DEF Unbroken

LEMMA PublishKeeps ==
  ASSUME FeedInv, NEW f \in Feeds, NEW final \in BOOLEAN, Arrives(f, final), Passes(f, final)
  PROVE  FeedInv'
  <1> DEFINE t == TopicOf(f)  n == pushes[f] + 1  e == [topic |-> t, n |-> n, final |-> final]
  <1>1. /\ DataTypes /\ Unjoined /\ OwnBuffers /\ MainWiring /\ Counted
        /\ (\A u \in Topics \ twice : OnTheWay(u)) /\ (\A u \in Topics \ (twice \cup gaps) : Unbroken(u))
    BY DEF FeedInv
  <1>2. /\ queue' = IF joined /\ Len(queue) < QueueRoom THEN Append(queue, e) ELSE queue
        /\ gaps' = IF t \in Topics /\ joined /\ Len(queue) = QueueRoom THEN gaps \cup {t} ELSE gaps
        /\ published' = IF t \in Topics THEN [published EXCEPT ![t] = n] ELSE published
        /\ twice' = IF f.channel = "kline" THEN twice \cup {t} ELSE twice
        /\ pushes' = [pushes EXCEPT ![f] = IF final THEN @ + 1 ELSE @]
        /\ UNCHANGED <<setup, flowing, made, hooks, joined, wanted, buffers>>
        /\ <<f.socket, Callback(f)>> \in hooks /\ (final \/ f.socket = "market") /\ (final \/ Callback(f) = "kline")
    BY DEF Arrives, Publish, Passes, wiringVars
  <1>3. /\ pushes \in [Feeds -> Nat] /\ pushes[f] \in Nat /\ n \in Nat /\ n >= 1
        /\ queue \in Seq(Messages) /\ Len(queue) \in Nat /\ Len(queue) =< QueueRoom /\ QueueRoom \in Nat
        /\ published \in [Topics -> Nat] /\ buffers \in [Topics -> Seq(Messages)] /\ hooks \subseteq SocketHooks
    BY <1>1, DataFeedAssumption DEF DataTypes
  <1>4. t \in Topics \cup Unhandled /\ t[1] = Callback(f) /\ t[2] = f.symbol /\ e \in Messages
    <2>1. t \in Topics \cup Unhandled /\ t[1] = Callback(f) /\ t[2] = f.symbol
      BY <1>2, <1>3, FeedFacts
    <2>2. QED
      BY <1>3, <2>1 DEF Messages
  <1>5. f.channel # "kline" => final
    BY <1>2, FeedFacts
  <1>6. published' \in [Topics -> Nat] /\ (t \in Topics => published'[t] = n)
        /\ \A u \in Topics \ {t} : published'[u] = published[u]
    BY <1>2, <1>3
  <1>7. pushes' \in [Feeds -> Nat] /\ (f.channel # "kline" => pushes'[f] = n)
        /\ \A g \in Feeds \ {f} : pushes'[g] = pushes[g]
    BY <1>2, <1>3, <1>5
  <1>8. DataTypes'
    <2>1. queue' \in Seq(Messages) /\ Len(queue') =< QueueRoom
      <3>1. CASE joined /\ Len(queue) < QueueRoom
        BY <1>2, <1>3, <1>4, <3>1, AppendedPlaces
      <3>2. CASE ~ (joined /\ Len(queue) < QueueRoom)
        <4>1. queue' = queue
          BY <1>2, <3>2
        <4>2. QED
          BY <1>3, <4>1
      <3>3. QED
        BY <3>1, <3>2
    <2>2. QED
      BY <1>1, <1>2, <1>6, <1>7, <2>1 DEF DataTypes
  <1>9. Unjoined' /\ OwnBuffers'
    BY <1>1, <1>2 DEF Unjoined, OwnBuffers
  <1>10. MainWiring'
    <2>1. ASSUME setup = "main", NEW i \in DOMAIN queue', queue'[i].topic[2] = "swap"
          PROVE  queue'[i].topic[1] \in {"kline", "ticker"}
      <3>1. CASE i \in DOMAIN queue /\ queue'[i] = queue[i]
        BY <1>1, <2>1, <3>1 DEF MainWiring
      <3>2. CASE queue'[i] = e
        <4>1. f.symbol = "swap" /\ Callback(f) = t[1]
          BY <1>4, <2>1, <3>2
        <4>2. f.socket \in {"business", "public"}
          BY <4>1, FeedFacts
        <4>3. <<f.socket, Callback(f)>> \in OkxCallbacks
          BY <1>2, <1>3, <4>2 DEF SocketHooks
        <4>4. <<f.socket, Callback(f)>> \in {<<"business", "kline">>, <<"public", "ticker">>}
          BY <1>1, <1>2, <2>1, <4>3 DEF MainWiring
        <4>5. Callback(f) \in {"kline", "ticker"}
          BY <4>4
        <4>6. QED
          BY <3>2, <4>1, <4>5
      <3>3. (i \in DOMAIN queue /\ queue'[i] = queue[i]) \/ queue'[i] = e
        <4>1. CASE joined /\ Len(queue) < QueueRoom
          BY <1>2, <1>3, <1>4, <2>1, <4>1
        <4>2. CASE ~ (joined /\ Len(queue) < QueueRoom)
          BY <1>2, <2>1, <4>2
        <4>3. QED
          BY <4>1, <4>2
      <3>4. QED
        BY <3>1, <3>2, <3>3
    <2>2. QED
      BY <1>1, <1>2, <2>1 DEF MainWiring
  <1>11. Counted'
    <2>1. ASSUME NEW g \in Feeds, TopicOf(g) \in Topics \ twice', published'[TopicOf(g)] > 0, g.channel # "kline"
          PROVE  published'[TopicOf(g)] = pushes'[g] /\ <<g.socket, Callback(g)>> \in hooks'
      <3>1. CASE g = f
        BY <1>2, <1>6, <1>7, <2>1, <3>1
      <3>2. CASE g # f
        <4>1. TopicOf(g) # t
          <5>1. CASE f.channel = "kline"
            BY <1>2, <2>1, <5>1
          <5>2. CASE f.channel # "kline"
            BY <2>1, <3>2, <5>2, OneFeed
          <5>3. QED
            BY <5>1, <5>2
        <4>2. TopicOf(g) \notin twice /\ published'[TopicOf(g)] = published[TopicOf(g)] /\ pushes'[g] = pushes[g]
          BY <1>2, <1>6, <1>7, <2>1, <3>2, <4>1
        <4>3. QED
          BY <1>1, <1>2, <2>1, <4>2 DEF Counted
      <3>3. QED
        BY <3>1, <3>2
    <2>2. QED
      BY <2>1 DEF Counted
  <1>12. ASSUME NEW u \in Topics \ twice', u # t
         PROVE  OnTheWay(u)' /\ (Unbroken(u) => Unbroken(u)')
    <2>1. Places(queue, u)' = Places(queue, u) /\ \A i \in Places(queue, u) : queue'[i] = queue[i]
      <3>1. CASE joined /\ Len(queue) < QueueRoom
        <4>1. e.topic # u
          BY <1>12
        <4>2. Places(Append(queue, e), u) = Places(queue, u) /\ \A i \in Places(queue, u) : Append(queue, e)[i] = queue[i]
          <5>1. /\ Places(Append(queue, e), u) = Places(queue, u) \cup (IF e.topic = u THEN {Len(queue) + 1} ELSE {})
                /\ \A i \in 1 .. Len(queue) : Append(queue, e)[i] = queue[i]
                /\ Places(queue, u) \subseteq 1 .. Len(queue)
            BY <1>3, <1>4, AppendedPlaces
          <5>2. QED
            BY <4>1, <5>1
        <4>3. QED
          BY <1>2, <3>1, <4>2 DEF Places
      <3>2. CASE ~ (joined /\ Len(queue) < QueueRoom)
        BY <1>2, <3>2 DEF Places
      <3>3. QED
        BY <3>1, <3>2
    <2>2. u \notin twice /\ published'[u] = published[u] /\ buffers'[u] = buffers[u]
      BY <1>2, <1>6, <1>12
    <2>3. QED
      BY <1>1, <1>12, <2>1, <2>2, TopicStill
  <1>13. ASSUME t \in Topics \ twice'
         PROVE  OnTheWay(t)' /\ (t \notin gaps' => Unbroken(t)')
    <2>1. t \in Topics \ twice /\ OnTheWay(t) /\ f.channel # "kline" /\ final = TRUE /\ published'[t] = n
          /\ buffers'[t] = buffers[t]
      BY <1>1, <1>2, <1>5, <1>6, <1>13
    <2>2. published[t] \in Nat /\ published[t] < n /\ (published[t] > 0 => n = published[t] + 1)
      <3>1. published[t] \in Nat
        BY <1>3, <2>1
      <3>2. published[t] > 0 => published[t] = pushes[f]
        BY <1>1, <2>1 DEF Counted
      <3>3. QED
        BY <1>3, <3>1, <3>2
    <2>3. /\ \A i \in DOMAIN buffers[t] : buffers[t][i].n \in 1 .. published[t]
          /\ \A i \in Places(queue, t) : queue[i].n \in 1 .. published[t]
      BY <2>1 DEF OnTheWay
    <2>4. CASE joined /\ Len(queue) < QueueRoom
      <3>1. /\ Places(queue, t)' = Places(queue, t) \cup {Len(queue) + 1}
            /\ Places(queue, t) \subseteq 1 .. Len(queue)
            /\ \A i \in Places(queue, t) : queue'[i] = queue[i]
            /\ queue'[Len(queue) + 1] = e
            /\ Numbers(queue, t)' = Numbers(queue, t) \cup {n}
        <4>1. queue' = Append(queue, e)
          BY <1>2, <2>4
        <4>2. /\ Places(Append(queue, e), t) = Places(queue, t) \cup {Len(queue) + 1}
              /\ Places(queue, t) \subseteq 1 .. Len(queue)
              /\ \A i \in 1 .. Len(queue) : Append(queue, e)[i] = queue[i]
              /\ Append(queue, e)[Len(queue) + 1] = e
              /\ Numbers(Append(queue, e), t) = Numbers(queue, t) \cup {n}
          BY <1>3, <1>4, AppendedPlaces
        <4>3. Places(queue, t)' = Places(queue', t) /\ Numbers(queue, t)' = Numbers(queue', t)
          BY DEF Places, Numbers
        <4>4. QED
          BY <4>1, <4>2, <4>3
      <3>2. OnTheWay(t)'
        <4>1. ASSUME NEW i \in DOMAIN buffers[t]
              PROVE  /\ buffers[t][i].final /\ buffers[t][i].n \in 1 .. n
                     /\ \A j \in DOMAIN buffers[t] : i < j => buffers[t][i].n < buffers[t][j].n
                     /\ \A j \in Places(queue, t)' : buffers[t][i].n < queue'[j].n
          <5>1. buffers[t][i].n \in 1 .. published[t] /\ buffers[t][i].n < e.n
            BY <1>3, <2>2, <2>3
          <5>2. buffers[t][i].n \in 1 .. n
            BY <1>3, <2>2, <5>1
          <5>3. /\ buffers[t][i].final
                /\ \A j \in DOMAIN buffers[t] : i < j => buffers[t][i].n < buffers[t][j].n
                /\ \A j \in Places(queue, t) : buffers[t][i].n < queue[j].n
            BY <2>1 DEF OnTheWay
          <5>4. \A j \in Places(queue, t)' : buffers[t][i].n < queue'[j].n
            BY <3>1, <5>1, <5>3
          <5>5. QED
            BY <5>2, <5>3, <5>4
        <4>2. ASSUME NEW i \in Places(queue, t)'
              PROVE  /\ queue'[i].final /\ queue'[i].n \in 1 .. n
                     /\ \A j \in Places(queue, t)' : i < j => queue'[i].n < queue'[j].n
          <5>1. CASE i \in Places(queue, t)
            <6>1. queue'[i] = queue[i] /\ queue[i].n \in 1 .. published[t] /\ queue[i].n < e.n /\ queue[i].final
              BY <1>3, <2>1, <2>2, <2>3, <3>1, <5>1 DEF OnTheWay
            <6>2. \A j \in Places(queue, t) : i < j => queue[i].n < queue[j].n
              BY <2>1, <5>1 DEF OnTheWay
            <6>3. QED
              BY <1>3, <2>2, <3>1, <6>1, <6>2
          <5>2. CASE i = Len(queue) + 1
            <6>1. queue'[i] = e /\ \A j \in Places(queue, t)' : ~ (i < j)
              BY <1>3, <3>1, <5>2
            <6>2. e.final = TRUE /\ e.n \in 1 .. n
              BY <1>3, <2>1
            <6>3. QED
              BY <6>1, <6>2
          <5>3. QED
            BY <3>1, <4>2, <5>1, <5>2
        <4>3. QED
          BY <2>1, <4>1, <4>2 DEF OnTheWay
      <3>3. ASSUME t \notin gaps'
            PROVE  Unbroken(t)'
        <4>1. Unbroken(t)
          BY <1>1, <1>2, <2>1, <3>3
        <4>2. PICK first \in 1 .. published[t] + 1 : Numbers(buffers[t], t) \cup Numbers(queue, t) = first .. published[t]
          BY <4>1 DEF Unbroken
        <4>3. Numbers(buffers[t], t)' = Numbers(buffers[t], t)
          BY <2>1 DEF Numbers, Places
        <4>4. CASE published[t] > 0
          <5>1. (first .. published[t]) \cup {n} = first .. n /\ first \in 1 .. n + 1
            BY <2>2, <4>4
          <5>2. QED
            BY <2>1, <3>1, <4>2, <4>3, <5>1 DEF Unbroken
        <4>5. CASE published[t] = 0
          <5>1. (first .. published[t]) \cup {n} = n .. n /\ n \in 1 .. n + 1
            BY <1>3, <4>5
          <5>2. QED
            BY <2>1, <3>1, <4>2, <4>3, <5>1 DEF Unbroken
        <4>6. QED
          BY <2>2, <4>4, <4>5
      <3>4. QED
        BY <3>2, <3>3
    <2>5. CASE ~ (joined /\ Len(queue) < QueueRoom)
      <3>1. queue' = queue /\ Places(queue, t)' = Places(queue, t) /\ Numbers(queue, t)' = Numbers(queue, t)
            /\ Numbers(buffers[t], t)' = Numbers(buffers[t], t)
        BY <1>2, <2>1, <2>5 DEF Places, Numbers
      <3>2. OnTheWay(t)'
        <4>1. \A k \in 1 .. published[t] : k \in 1 .. n
          BY <1>3, <2>2
        <4>2. QED
          BY <2>1, <3>1, <4>1 DEF OnTheWay
      <3>3. ASSUME t \notin gaps'
            PROVE  Unbroken(t)'
        <4>1. ~ joined
          BY <1>2, <1>3, <2>1, <2>5, <3>3
        <4>2. queue = <<>> /\ buffers[t] = <<>>
          BY <1>1, <2>1, <4>1 DEF Unjoined
        <4>3. Numbers(buffers[t], t) \cup Numbers(queue, t) = {}
          BY <4>2 DEF Numbers, Places
        <4>4. n + 1 \in 1 .. n + 1 /\ n + 1 .. n = {}
          BY <1>3
        <4>5. QED
          BY <2>1, <3>1, <4>3, <4>4 DEF Unbroken
      <3>4. QED
        BY <3>2, <3>3
    <2>6. QED
      BY <2>4, <2>5
  <1>14. \A u \in Topics \ twice' : OnTheWay(u)'
    BY <1>12, <1>13
  <1>15. \A u \in Topics \ (twice' \cup gaps') : Unbroken(u)'
    <2>1. ASSUME NEW u \in Topics \ (twice' \cup gaps')
          PROVE  Unbroken(u)'
      <3>1. u \notin twice /\ u \notin gaps
        BY <1>2
      <3>2. QED
        BY <1>1, <1>12, <1>13, <3>1
    <2>2. QED
      BY <2>1
  <1>16. QED
    BY <1>8, <1>9, <1>10, <1>11, <1>14, <1>15 DEF FeedInv

-----------------------------------------------------------------------------
(* The strategy takes the first message of its queue. *)
LEMMA TakenOther ==
  ASSUME DataTypes, queue # <<>>, queue' = Tail(queue), NEW u \in Topics, OnTheWay(u),
         Head(queue).topic # u \/ buffers[u] = <<>> \/ u \in gaps',
         buffers'[u] = buffers[u], published' = published
  PROVE  OnTheWay(u)' /\ (Unbroken(u) /\ u \notin gaps' => Unbroken(u)')
  <1>1. queue \in Seq(Messages) /\ published[u] \in Nat /\ buffers[u] \in Seq(Messages)
    BY DEF DataTypes
  <1>2. TailTaken(queue, u)
    BY <1>1, TakenPlaces
  <1>3. Places(queue, u)' = Places(Tail(queue), u) /\ Numbers(queue, u)' = Numbers(Tail(queue), u)
        /\ Numbers(buffers[u], u)' = Numbers(buffers[u], u)
        /\ \A i \in Places(queue, u)' : i \in Nat /\ i + 1 \in Places(queue, u) /\ queue'[i] = queue[i + 1]
    <2>1. Places(queue, u)' = Places(Tail(queue), u) /\ Numbers(queue, u)' = Numbers(Tail(queue), u)
          /\ Numbers(buffers[u], u)' = Numbers(buffers[u], u)
      BY DEF Places, Numbers
    <2>2. QED
      BY <1>2, <2>1 DEF TailTaken
  <1>4. OnTheWay(u)'
    <2>1. ASSUME NEW i \in DOMAIN buffers[u]
          PROVE  /\ buffers[u][i].final /\ buffers[u][i].n \in 1 .. published[u]
                 /\ \A j \in DOMAIN buffers[u] : i < j => buffers[u][i].n < buffers[u][j].n
                 /\ \A j \in Places(queue, u)' : buffers[u][i].n < queue'[j].n
      BY <1>3 DEF OnTheWay
    <2>2. ASSUME NEW i \in Places(queue, u)'
          PROVE  /\ queue'[i].final /\ queue'[i].n \in 1 .. published[u]
                 /\ \A j \in Places(queue, u)' : i < j => queue'[i].n < queue'[j].n
      <3>1. i + 1 \in Places(queue, u) /\ queue'[i] = queue[i + 1] /\ i \in Nat
        BY <1>3
      <3>2. ASSUME NEW j \in Places(queue, u)', i < j
            PROVE  queue'[i].n < queue'[j].n
        <4>1. j + 1 \in Places(queue, u) /\ queue'[j] = queue[j + 1] /\ i + 1 < j + 1
          <5>1. j \in Nat /\ j + 1 \in Places(queue, u) /\ queue'[j] = queue[j + 1]
            BY <1>3
          <5>2. \A k \in Nat, m \in Nat : k < m => k + 1 < m + 1
            OBVIOUS
          <5>3. i + 1 < j + 1
            BY <3>1, <3>2, <5>1, <5>2
          <5>4. QED
            BY <5>1, <5>3
        <4>2. QED
          BY <3>1, <4>1 DEF OnTheWay
      <3>3. QED
        BY <3>1, <3>2 DEF OnTheWay
    <2>3. QED
      BY <2>1, <2>2 DEF OnTheWay
  <1>5. ASSUME Unbroken(u), u \notin gaps'
        PROVE  Unbroken(u)'
    <2>1. PICK first \in 1 .. published[u] + 1 : Numbers(buffers[u], u) \cup Numbers(queue, u) = first .. published[u]
      BY <1>5 DEF Unbroken
    <2>2. CASE Head(queue).topic # u
      BY <1>2, <1>3, <2>1, <2>2 DEF Unbroken, TailTaken
    <2>3. CASE Head(queue).topic = u
      <3>1. Numbers(buffers[u], u) = {}
        BY <1>5, <2>3 DEF Numbers, Places
      <3>2. Numbers(Tail(queue), u) \cup {Head(queue).n} = first .. published[u]
        BY <1>2, <2>1, <2>3, <3>1 DEF TailTaken
      <3>3. \A k \in Numbers(Tail(queue), u) : Head(queue).n < k
        BY <1>2, <2>3 DEF OnTheWay, TailTaken
      <3> DEFINE m == Head(queue).n  rest == Numbers(Tail(queue), u)
      <3>4. m \in first .. published[u] /\ rest \subseteq first .. published[u] /\ first \in Nat
        BY <2>1, <3>2
      <3> HIDE DEF m, rest
      <3>5. m = first
        <4>1. first \in first .. published[u]
          BY <1>1, <3>4
        <4>2. first = m \/ first \in rest
          BY <3>2, <4>1 DEF m, rest
        <4>3. first \in rest => m < first
          BY <3>3 DEF m, rest
        <4>4. QED
          BY <1>1, <3>4, <4>2, <4>3
      <3>6. rest = first + 1 .. published[u]
        <4>1. \A k \in first + 1 .. published[u] : k \in first .. published[u] /\ k # m
          BY <1>1, <3>4, <3>5
        <4>2. \A k \in rest : k \in first .. published[u] /\ m < k
          BY <3>3, <3>4 DEF m, rest
        <4>3. QED
          <5>1. \A k \in first + 1 .. published[u] : k \in rest
            BY <3>2, <4>1 DEF m, rest
          <5>2. \A k \in rest : k \in first + 1 .. published[u]
            BY <1>1, <3>4, <3>5, <4>2
          <5>3. QED
            BY <5>1, <5>2
      <3>7. first + 1 \in 1 .. published[u] + 1
        BY <1>1, <3>4, <3>5
      <3>8. Numbers(buffers[u], u)' \cup Numbers(queue, u)' = first + 1 .. published[u]
        BY <1>3, <3>1, <3>6 DEF rest
      <3>9. QED
        BY <3>7, <3>8 DEF Unbroken
    <2>4. QED
      BY <2>2, <2>3
  <1>6. QED
    BY <1>4, <1>5

LEMMA TakenStored ==
  ASSUME DataTypes, OwnBuffers, queue # <<>>, queue' = Tail(queue), NEW u \in Topics, OnTheWay(u),
         Head(queue).topic = u, buffers'[u] = Append(buffers[u], Head(queue)), published' = published
  PROVE  OnTheWay(u)' /\ (Unbroken(u) => Unbroken(u)')
  <1> DEFINE b == buffers[u]  e == Head(queue)
  <1>1. queue \in Seq(Messages) /\ published[u] \in Nat /\ b \in Seq(Messages)
    BY DEF DataTypes
  <1>2. /\ e = queue[1] /\ 1 \in Places(queue, u) /\ e \in Messages
        /\ \A i \in Places(Tail(queue), u) : i \in Nat /\ i + 1 \in Places(queue, u) /\ 1 < i + 1 /\ Tail(queue)[i] = queue[i + 1]
        /\ Numbers(queue, u) = Numbers(Tail(queue), u) \cup {e.n}
    <2>1. TailTaken(queue, u) /\ e \in Messages
      BY <1>1, TakenPlaces
    <2>2. QED
      BY <2>1 DEF TailTaken
  <1>3. /\ Len(b) \in Nat /\ DOMAIN b = 1 .. Len(b) /\ DOMAIN Append(b, e) = 1 .. Len(b) + 1
        /\ \A i \in 1 .. Len(b) : Append(b, e)[i] = b[i]
        /\ Append(b, e)[Len(b) + 1] = e
        /\ Numbers(Append(b, e), u) = Numbers(b, u) \cup {e.n}
    BY <1>1, <1>2, AppendedPlaces
  <1>4. /\ Places(queue, u)' = Places(Tail(queue), u) /\ Numbers(queue, u)' = Numbers(Tail(queue), u)
        /\ Numbers(buffers[u], u)' = Numbers(Append(b, e), u)
        /\ \A i \in Places(queue, u)' : i \in Nat /\ i + 1 \in Places(queue, u) /\ queue'[i] = queue[i + 1]
    <2>1. /\ Places(queue, u)' = Places(Tail(queue), u) /\ Numbers(queue, u)' = Numbers(Tail(queue), u)
          /\ Numbers(buffers[u], u)' = Numbers(Append(b, e), u)
      BY DEF Places, Numbers
    <2>2. QED
      BY <1>2, <2>1
  <1>5. e.final /\ e.n \in 1 .. published[u] /\ \A i \in Places(Tail(queue), u) : e.n < Tail(queue)[i].n
    BY <1>2 DEF OnTheWay
  <1>6. \A i \in 1 .. Len(b) : b[i].n < e.n
    BY <1>2, <1>3 DEF OnTheWay
  <1>7. OnTheWay(u)'
    <2>1. ASSUME NEW i \in 1 .. Len(b) + 1
          PROVE  /\ buffers'[u][i].final /\ buffers'[u][i].n \in 1 .. published[u]
                 /\ \A j \in 1 .. Len(b) + 1 : i < j => buffers'[u][i].n < buffers'[u][j].n
                 /\ \A j \in Places(queue, u)' : buffers'[u][i].n < queue'[j].n
      <3>1. CASE i = Len(b) + 1
        <4>1. buffers'[u][i] = e
          BY <1>3, <3>1
        <4>2. \A j \in 1 .. Len(b) + 1 : ~ (i < j)
          BY <1>3, <3>1
        <4>3. QED
          BY <1>4, <1>5, <4>1, <4>2
      <3>2. CASE i # Len(b) + 1
        <4>1. i \in 1 .. Len(b) /\ buffers'[u][i] = b[i]
          BY <1>3, <3>2
        <4>2. b[i].final /\ b[i].n \in 1 .. published[u]
          BY <1>3, <4>1 DEF OnTheWay
        <4>3. ASSUME NEW j \in 1 .. Len(b) + 1, i < j
              PROVE  b[i].n < buffers'[u][j].n
          <5>1. CASE j = Len(b) + 1
            BY <1>3, <1>6, <4>1, <5>1
          <5>2. CASE j # Len(b) + 1
            <6>1. j \in 1 .. Len(b) /\ buffers'[u][j] = b[j]
              BY <1>3, <5>2
            <6>2. QED
              BY <1>3, <4>1, <4>3, <6>1 DEF OnTheWay
          <5>3. QED
            BY <5>1, <5>2
        <4>4. ASSUME NEW j \in Places(queue, u)'
              PROVE  b[i].n < queue'[j].n
          <5>1. j + 1 \in Places(queue, u) /\ queue'[j] = queue[j + 1]
            BY <1>4
          <5>2. QED
            BY <1>3, <4>1, <5>1 DEF OnTheWay
        <4>5. QED
          BY <4>1, <4>2, <4>3, <4>4
      <3>3. QED
        BY <3>1, <3>2
    <2>2. ASSUME NEW i \in Places(queue, u)'
          PROVE  /\ queue'[i].final /\ queue'[i].n \in 1 .. published[u]
                 /\ \A j \in Places(queue, u)' : i < j => queue'[i].n < queue'[j].n
      <3>1. i + 1 \in Places(queue, u) /\ queue'[i] = queue[i + 1] /\ i \in Nat
        BY <1>4
      <3>2. ASSUME NEW j \in Places(queue, u)', i < j
            PROVE  queue'[i].n < queue'[j].n
        <4>1. j + 1 \in Places(queue, u) /\ queue'[j] = queue[j + 1] /\ i + 1 < j + 1
          <5>1. j \in Nat /\ j + 1 \in Places(queue, u) /\ queue'[j] = queue[j + 1]
            BY <1>4
          <5>2. \A k \in Nat, m \in Nat : k < m => k + 1 < m + 1
            OBVIOUS
          <5>3. i + 1 < j + 1
            BY <3>1, <3>2, <5>1, <5>2
          <5>4. QED
            BY <5>1, <5>3
        <4>2. QED
          BY <3>1, <4>1 DEF OnTheWay
      <3>3. QED
        BY <3>1, <3>2 DEF OnTheWay
    <2>3. DOMAIN buffers'[u] = 1 .. Len(b) + 1
      BY <1>3
    <2>4. QED
      BY <2>1, <2>2, <2>3 DEF OnTheWay
  <1>8. Unbroken(u) => Unbroken(u)'
    <2>1. (Numbers(buffers[u], u) \cup Numbers(queue, u))' = Numbers(buffers[u], u) \cup Numbers(queue, u)
      BY <1>2, <1>3, <1>4
    <2>2. QED
      BY <2>1 DEF Unbroken
  <1>9. QED
    BY <1>7, <1>8

(* A message of a topic in order is never taken for the last one again. *)
LEMMA AppendsInOrder ==
  ASSUME DataTypes, queue # <<>>, NEW u \in Topics, OnTheWay(u), Head(queue).topic = u
  PROVE  CorrectsLast(buffers[u], Head(queue)) = Append(buffers[u], Head(queue))
  <1> DEFINE b == buffers[u]
  <1>1. queue \in Seq(Messages) /\ b \in Seq(Messages)
    BY DEF DataTypes
  <1>2. Head(queue) = queue[1] /\ 1 \in Places(queue, u)
    BY <1>1, TakenPlaces DEF TailTaken
  <1>3. ASSUME b # <<>>
        PROVE  Last(b).n # Head(queue).n
    <2>1. Len(b) \in DOMAIN b /\ b[Len(b)] \in Messages /\ queue[1] \in Messages
      BY <1>1, <1>3
    <2>2. b[Len(b)].n < queue[1].n
      BY <1>2, <2>1 DEF OnTheWay
    <2>3. b[Len(b)].n \in Nat /\ queue[1].n \in Nat
      BY <2>1 DEF Messages
    <2>4. QED
      BY <1>2, <2>2, <2>3 DEF Last
  <1>4. QED
    BY <1>3 DEF CorrectsLast

(* What a buffer becomes when a message is stored. *)
LEMMA StoredIs ==
  ASSUME NEW b \in Seq(Messages), NEW e \in Messages, NEW stored \in {Append(b, e), CorrectsLast(b, e)},
         \A i \in DOMAIN b : b[i].topic = e.topic
  PROVE  stored \in Seq(Messages) /\ \A i \in DOMAIN stored : stored[i].topic = e.topic
  <1>1. CASE stored = Append(b, e)
    <2>1. \A i \in 1 .. Len(b) + 1 : i \in 1 .. Len(b) \/ i = Len(b) + 1
      OBVIOUS
    <2>2. /\ stored \in Seq(Messages) /\ DOMAIN stored = 1 .. Len(b) + 1 /\ DOMAIN b = 1 .. Len(b)
          /\ stored[Len(b) + 1] = e /\ Len(b) \in Nat
      <3>1. stored \in Seq(Messages)
        BY <1>1
      <3>2. Len(b) \in Nat /\ DOMAIN b = 1 .. Len(b)
        OBVIOUS
      <3>3. DOMAIN stored = 1 .. Len(b) + 1 /\ stored[Len(b) + 1] = e
        BY <1>1, <3>2
      <3>4. QED
        BY <3>1, <3>2, <3>3
    <2>3. \A i \in 1 .. Len(b) : stored[i] = b[i]
      BY <1>1
    <2>4. \A i \in DOMAIN stored : stored[i].topic = e.topic
      BY <2>1, <2>2, <2>3
    <2>5. QED
      BY <2>2, <2>4
  <1>2. CASE b # <<>> /\ stored = [b EXCEPT ![Len(b)] = e]
    <2>1. Len(b) \in 1 .. Len(b) /\ DOMAIN b = 1 .. Len(b)
      BY <1>2
    <2>2. stored \in Seq(Messages)
      BY <1>2, <2>1, ExceptSeq
    <2>3. \A i \in DOMAIN stored : i \in DOMAIN b /\ (stored[i] = e \/ stored[i] = b[i])
      BY <1>2, <2>1
    <2>4. QED
      BY <2>2, <2>3
  <1>3. QED
    BY <1>1, <1>2 DEF CorrectsLast

LEMMA ProcessKeeps ==
  ASSUME FeedInv, ProcessMarketData
  PROVE  FeedInv'
  <1> DEFINE e == Head(queue)  t == e.topic
  <1>1. /\ DataTypes /\ Unjoined /\ OwnBuffers /\ MainWiring /\ Counted
        /\ (\A u \in Topics \ twice : OnTheWay(u)) /\ (\A u \in Topics \ (twice \cup gaps) : Unbroken(u))
    BY DEF FeedInv
  <1>2. /\ queue # <<>> /\ queue' = Tail(queue)
        /\ UNCHANGED <<setup, flowing, made, hooks, pushes, joined, wanted, published, twice>>
    BY DEF ProcessMarketData, wiringVars
  <1>3. /\ queue \in Seq(Messages) /\ Len(queue) =< QueueRoom /\ QueueRoom \in Nat
        /\ buffers \in [Topics -> Seq(Messages)]
        /\ Tail(queue) \in Seq(Messages) /\ e \in Messages /\ e = queue[1] /\ Len(Tail(queue)) = Len(queue) - 1
        /\ t \in Topics \cup Unhandled
    <2>1. queue \in Seq(Messages) /\ Len(queue) =< QueueRoom /\ QueueRoom \in Nat /\ buffers \in [Topics -> Seq(Messages)]
      BY <1>1, DataFeedAssumption DEF DataTypes
    <2>2. Tail(queue) \in Seq(Messages) /\ e \in Messages /\ e = queue[1] /\ Len(Tail(queue)) = Len(queue) - 1
      BY <1>2, <2>1, TakenPlaces DEF TailTaken
    <2>3. t \in Topics \cup Unhandled
      BY <2>2 DEF Messages
    <2>4. QED
      BY <2>1, <2>2, <2>3
  <1>4. \/ t \in Unhandled /\ UNCHANGED <<buffers, gaps>>
        \/ /\ t \in Topics /\ t \in wanted /\ gaps' = gaps
           /\ \E stored \in {Append(buffers[t], e), CorrectsLast(buffers[t], e)} :
                 buffers' = [buffers EXCEPT ![t] = stored]
        \/ /\ t \in Topics /\ buffers' = buffers
           /\ gaps' = IF buffers[t] # <<>> THEN gaps \cup {t} ELSE gaps
    <2>1. CASE t[1] \in {"kline", "trade", "orderbook", "funding_rate"}
      <3>1. t \in Topics
        BY <1>3, <2>1, HandledFacts
      <3>2. \E stored \in {Append(buffers[t], e), CorrectsLast(buffers[t], e)} : Handled(e, stored)
        BY <2>1 DEF ProcessMarketData, HandleKline, HandleTrades, HandleOrderbook, HandleFundingRate
      <3>3. QED
        BY <3>1, <3>2 DEF Handled
    <2>2. CASE t \in Unhandled
      <3>1. t[1] \in {"ticker", "mark_price"}
        BY <2>2, HandledFacts
      <3>2. UNCHANGED <<buffers, gaps>>
        BY <3>1 DEF ProcessMarketData, HandleKline, HandleTrades, HandleOrderbook, HandleFundingRate
      <3>3. QED
        BY <2>2, <3>2
    <2>3. QED
      BY <1>3, <2>1, <2>2, HandledFacts
  <1>5. buffers' \in [Topics -> Seq(Messages)] /\ OwnBuffers'
        /\ (\A u \in Topics \ {t} : buffers'[u] = buffers[u])
        /\ (t \in Unhandled \/ buffers'[t] = buffers[t]
            \/ (gaps' = gaps /\ buffers'[t] \in {Append(buffers[t], e), CorrectsLast(buffers[t], e)}))
    <2>1. CASE buffers' = buffers
      <3>1. OwnBuffers'
        BY <1>1, <2>1 DEF OwnBuffers
      <3>2. buffers' \in [Topics -> Seq(Messages)]
        BY <1>3, <2>1
      <3>3. QED
        BY <2>1, <3>1, <3>2
    <2>2. ASSUME t \in Topics, gaps' = gaps, NEW stored \in {Append(buffers[t], e), CorrectsLast(buffers[t], e)},
                 buffers' = [buffers EXCEPT ![t] = stored]
          PROVE  buffers' \in [Topics -> Seq(Messages)] /\ OwnBuffers'
                 /\ (\A u \in Topics \ {t} : buffers'[u] = buffers[u]) /\ buffers'[t] = stored
      <3>1. \A i \in DOMAIN buffers[t] : buffers[t][i].topic = e.topic
        BY <1>1, <2>2 DEF OwnBuffers
      <3>2. stored \in Seq(Messages) /\ \A i \in DOMAIN stored : stored[i].topic = e.topic
        <4>1. buffers[t] \in Seq(Messages)
          BY <1>3, <2>2
        <4> HIDE DEF e, t
        <4>2. \A i \in DOMAIN buffers[t] : buffers[t][i].topic = t
          BY <3>1 DEF t
        <4>3. e \in Messages /\ e.topic = t
          BY <1>3 DEF t
        <4>4. stored \in {Append(buffers[t], e), CorrectsLast(buffers[t], e)}
          BY <2>2
        <4>5. QED
          BY <3>1, <4>1, <4>2, <4>3, <4>4, StoredIs
      <3>3. buffers' \in [Topics -> Seq(Messages)] /\ (\A u \in Topics \ {t} : buffers'[u] = buffers[u]) /\ buffers'[t] = stored
        BY <1>3, <2>2, <3>2
      <3>4. OwnBuffers'
        BY <1>1, <3>2, <3>3 DEF OwnBuffers
      <3>5. QED
        BY <3>3, <3>4
    <2>3. QED
      BY <1>4, <2>1, <2>2
  <1>6. DataTypes'
    BY <1>1, <1>2, <1>3, <1>5 DEF DataTypes
  <1>7. joined
    BY <1>1, <1>2 DEF Unjoined
  <1>8. Unjoined' /\ Counted'
    BY <1>1, <1>2, <1>7 DEF Unjoined, Counted
  <1>9. MainWiring'
    <2>1. \A i \in DOMAIN queue' : i + 1 \in DOMAIN queue /\ queue'[i] = queue[i + 1]
      BY <1>2, <1>3
    <2>2. ASSUME setup = "main", NEW u \in Topics, u[2] = "swap", buffers'[u] # <<>>
          PROVE  u[1] = "kline"
      <3>1. CASE buffers[u] # <<>>
        BY <1>1, <2>2, <3>1 DEF MainWiring
      <3>2. CASE buffers[u] = <<>>
        <4>1. u = t /\ 1 \in DOMAIN queue
          <5>1. u = t
            BY <1>5, <2>2, <3>2
          <5>2. DOMAIN queue = 1 .. Len(queue) /\ Len(queue) \in Nat /\ Len(queue) # 0
            BY <1>2, <1>3
          <5>3. QED
            BY <5>1, <5>2
        <4>2. t[1] \in {"kline", "ticker"}
          BY <1>1, <1>3, <2>2, <4>1 DEF MainWiring
        <4>3. QED
          BY <2>2, <4>1, <4>2, HandledFacts
      <3>3. QED
        BY <3>1, <3>2
    <2>3. setup' = "main" => \A i \in DOMAIN queue' : queue'[i].topic[2] = "swap" => queue'[i].topic[1] \in {"kline", "ticker"}
      BY <1>1, <1>2, <2>1 DEF MainWiring
    <2>4. QED
      BY <1>1, <1>2, <2>2, <2>3 DEF MainWiring
  <1>10. ASSUME NEW u \in Topics \ twice
         PROVE  OnTheWay(u)' /\ (u \notin gaps' => Unbroken(u)')
    <2>1. OnTheWay(u) /\ gaps \subseteq gaps'
      BY <1>1, <1>4
    <2>2. CASE u = t /\ buffers'[u] # buffers[u]
      <3>1. buffers'[u] = Append(buffers[u], e) /\ gaps' = gaps
        <4>1. CorrectsLast(buffers[u], e) = Append(buffers[u], e)
          BY <1>1, <1>2, <2>1, <2>2, AppendsInOrder
        <4>2. t \notin Unhandled
          BY <2>2, HandledFacts
        <4>3. QED
          BY <1>5, <2>2, <4>1, <4>2
      <3>2. OnTheWay(u)' /\ (Unbroken(u) => Unbroken(u)')
        BY <1>1, <1>2, <2>1, <2>2, <3>1, TakenStored
      <3>3. QED
        BY <1>1, <3>1, <3>2
    <2>3. CASE u = t /\ buffers'[u] = buffers[u]
      <3>1. buffers[u] = <<>> \/ u \in gaps'
        <4>1. t \notin Unhandled
          BY <2>3, HandledFacts
        <4>2. \A stored \in {Append(buffers[t], e), CorrectsLast(buffers[t], e)} : buffers' # [buffers EXCEPT ![t] = stored]
          <5>1. CorrectsLast(buffers[u], e) = Append(buffers[u], e)
            BY <1>1, <1>2, <2>1, <2>3, AppendsInOrder
          <5>2. Append(buffers[u], e) # buffers[u]
            <6>1. buffers[u] \in Seq(Messages)
              BY <1>3
            <6>2. Len(Append(buffers[u], e)) = Len(buffers[u]) + 1 /\ Len(buffers[u]) \in Nat
              BY <1>3, <6>1
            <6>3. QED
              BY <6>2
          <5>3. QED
            BY <1>3, <2>3, <5>1, <5>2
        <4>3. QED
          BY <1>4, <2>3, <4>1, <4>2
      <3>2. OnTheWay(u)' /\ (Unbroken(u) /\ u \notin gaps' => Unbroken(u)')
        BY <1>1, <1>2, <2>1, <2>3, <3>1, TakenOther
      <3>3. QED
        BY <1>1, <2>1, <3>2
    <2>4. CASE u # t
      <3>1. OnTheWay(u)' /\ (Unbroken(u) /\ u \notin gaps' => Unbroken(u)')
        BY <1>1, <1>2, <1>5, <2>1, <2>4, TakenOther
      <3>2. QED
        BY <1>1, <2>1, <3>1
    <2>5. QED
      BY <2>2, <2>3, <2>4
  <1>11. QED
    BY <1>2, <1>5, <1>6, <1>8, <1>9, <1>10 DEF FeedInv

(* Steps that leave what is on the way alone. *)
LEMMA WayStill ==
  ASSUME FeedInv, UNCHANGED <<queue, buffers, published, gaps, twice>>
  PROVE  /\ OwnBuffers' /\ (\A u \in Topics \ twice' : OnTheWay(u)')
         /\ (\A u \in Topics \ (twice' \cup gaps') : Unbroken(u)')
  <1>1. OwnBuffers'
    BY DEF FeedInv, OwnBuffers
  <1>2. ASSUME NEW u \in Topics \ twice
        PROVE  OnTheWay(u)' /\ (Unbroken(u) => Unbroken(u)')
    <2>1. OnTheWay(u) /\ Places(queue, u)' = Places(queue, u)
      BY DEF FeedInv, Places
    <2>2. QED
      BY <2>1, TopicStill
  <1>3. QED
    BY <1>1, <1>2 DEF FeedInv

LEMMA WiresKeeps ==
  ASSUME FeedInv, NEW sockets, NEW callbacks \in SUBSET SocketHooks, Wires(sockets, callbacks),
         setup = "main" => callbacks \cap OkxCallbacks \subseteq {<<"business", "kline">>, <<"public", "ticker">>}
  PROVE  FeedInv'
  <1>1. /\ hooks' = hooks \cup callbacks
        /\ UNCHANGED <<setup, flowing, joined, queue, wanted, buffers, pushes, published, gaps, twice>>
    BY DEF Wires, strategyVars
  <1>2. /\ OwnBuffers' /\ (\A u \in Topics \ twice' : OnTheWay(u)') /\ (\A u \in Topics \ (twice' \cup gaps') : Unbroken(u)')
    BY <1>1, WayStill
  <1>3. DataTypes' /\ Unjoined' /\ Counted'
    BY <1>1 DEF FeedInv, DataTypes, Unjoined, Counted
  <1>4. MainWiring'
    BY <1>1 DEF FeedInv, MainWiring
  <1>5. QED
    BY <1>2, <1>3, <1>4 DEF FeedInv

LEMMA ArrivesKeeps ==
  ASSUME FeedInv, NEW f \in Feeds, NEW final \in BOOLEAN, Arrives(f, final)
  PROVE  FeedInv'
  <1>1. CASE Passes(f, final)
    BY <1>1, PublishKeeps
  <1>2. CASE ~ Passes(f, final)
    <2>1. /\ UNCHANGED <<setup, flowing, hooks, joined, queue, wanted, buffers, published, gaps, twice>>
          /\ pushes' = [pushes EXCEPT ![f] = IF final THEN @ + 1 ELSE @]
      BY <1>2 DEF Arrives, wiringVars
    <2>2. /\ OwnBuffers' /\ (\A u \in Topics \ twice' : OnTheWay(u)') /\ (\A u \in Topics \ (twice' \cup gaps') : Unbroken(u)')
      BY <2>1, WayStill
    <2>3. DataTypes' /\ Unjoined' /\ MainWiring'
      BY <2>1 DEF FeedInv, DataTypes, Unjoined, MainWiring
    <2>4. Counted'
      <3>1. ASSUME NEW g \in Feeds, TopicOf(g) \in Topics \ twice, published[TopicOf(g)] > 0, g.channel # "kline"
            PROVE  pushes'[g] = pushes[g]
        <4>1. CASE g = f
          <5>1. <<f.socket, Callback(f)>> \in hooks
            BY <3>1, <4>1 DEF FeedInv, Counted
          <5>2. ~ final
            BY <1>2, <5>1 DEF Passes
          <5>3. QED
            BY <2>1, <4>1, <5>2 DEF FeedInv, DataTypes
        <4>2. CASE g # f
          BY <2>1, <4>2 DEF FeedInv, DataTypes
        <4>3. QED
          BY <4>1, <4>2
      <3>2. QED
        BY <2>1, <3>1 DEF FeedInv, Counted
    <2>5. QED
      BY <2>2, <2>3, <2>4 DEF FeedInv
  <1>3. QED
    BY <1>1, <1>2

LEMMA NextFeed == FeedInv /\ [DataNext]_dataVars => FeedInv'
  <1> SUFFICES ASSUME FeedInv, [DataNext]_dataVars
               PROVE  FeedInv'
    OBVIOUS
  <1>1. CASE MakeBusiness \/ MakePublic \/ ConnectBatches \/ MakeMarket
    <2>1. \A sockets : SetupWebsocketCallbacks(sockets) \subseteq OkxCallbacks
      BY DEF SetupWebsocketCallbacks
    <2>2. SetupWebsocketCallbacks({"business"}) \subseteq {<<"business", "kline">>}
      BY DEF SetupWebsocketCallbacks, OkxCallbacks
    <2>3. CASE MakeBusiness
      <3>1. PICK callbacks \in SUBSET SocketHooks :
              /\ Wires({"business"}, callbacks)
              /\ setup = "main" => callbacks \cap OkxCallbacks \subseteq {<<"business", "kline">>, <<"public", "ticker">>}
        BY <2>1, <2>2, <2>3 DEF MakeBusiness, SocketHooks
      <3>2. QED
        BY <3>1, WiresKeeps
    <2>4. CASE MakePublic
      <3>1. <<"public", "ticker">> \in SocketHooks
        BY DEF SocketHooks, OkxCallbacks
      <3>2. PICK callbacks \in SUBSET SocketHooks :
              /\ Wires({"public"}, callbacks)
              /\ setup = "main" => callbacks \cap OkxCallbacks \subseteq {<<"business", "kline">>, <<"public", "ticker">>}
        <4>1. CASE setup = "main"
          BY <2>4, <3>1, <4>1 DEF MakePublic
        <4>2. CASE setup # "main"
          BY <2>1, <2>4, <4>2 DEF MakePublic, SocketHooks
        <4>3. QED
          BY <4>1, <4>2
      <3>3. QED
        BY <3>2, WiresKeeps
    <2>5. CASE ConnectBatches
      <3>1. {<<"batch", "kline">>} \in SUBSET SocketHooks /\ {<<"batch", "kline">>} \cap OkxCallbacks = {}
        BY DEF SocketHooks, OkxCallbacks
      <3>2. QED
        BY <2>5, <3>1, WiresKeeps DEF ConnectBatches
    <2>6. CASE MakeMarket
      <3> DEFINE C == {<<"market", c>> : c \in {"ticker", "trade", "kline", "mark_price"}}
      <3>1. C \in SUBSET SocketHooks /\ C \cap OkxCallbacks = {}
        BY DEF SocketHooks, OkxCallbacks
      <3>2. QED
        BY <2>6, <3>1, WiresKeeps DEF MakeMarket
    <2>7. QED
      BY <1>1, <2>3, <2>4, <2>5, <2>6
  <1>2. ASSUME NEW f \in Feeds, NEW final \in BOOLEAN, PushOkx(f, final) \/ PushBinance(f, final)
        PROVE  FeedInv'
    BY <1>2, ArrivesKeeps DEF PushOkx, PushBinance
  <1>3. CASE Joins \/ \E t : Toggles(t)
    <2>1. /\ UNCHANGED <<setup, flowing, hooks, pushes, queue, buffers, published, gaps, twice>>
          /\ joined' = TRUE
      BY <1>3 DEF Joins, Toggles, wiringVars, FeedInv, DataTypes
    <2>2. /\ OwnBuffers' /\ (\A u \in Topics \ twice' : OnTheWay(u)') /\ (\A u \in Topics \ (twice' \cup gaps') : Unbroken(u)')
      BY <2>1, WayStill
    <2>3. DataTypes' /\ Unjoined' /\ MainWiring' /\ Counted'
      BY <2>1 DEF FeedInv, DataTypes, Unjoined, MainWiring, Counted
    <2>4. QED
      BY <2>2, <2>3 DEF FeedInv
  <1>4. CASE ProcessMarketData
    BY <1>4, ProcessKeeps
  <1>5. CASE UNCHANGED dataVars
    <2>1. /\ OwnBuffers' /\ (\A u \in Topics \ twice' : OnTheWay(u)') /\ (\A u \in Topics \ (twice' \cup gaps') : Unbroken(u)')
      BY <1>5, WayStill DEF dataVars, strategyVars
    <2>2. DataTypes' /\ Unjoined' /\ MainWiring' /\ Counted'
      BY <1>5 DEF FeedInv, DataTypes, Unjoined, MainWiring, Counted, dataVars, wiringVars, strategyVars
    <2>3. QED
      BY <2>1, <2>2 DEF FeedInv
  <1>6. QED
    BY <1>1, <1>2, <1>3, <1>4, <1>5
       DEF DataNext, ToggleKline, ToggleTrades, ToggleOrderbook, ToggleFundingRate

LEMMA InitFeed == DataInit => FeedInv
  <1> SUFFICES ASSUME DataInit
               PROVE  FeedInv
    OBVIOUS
  <1>1. /\ queue = <<>> /\ Len(queue) = 0 /\ DOMAIN queue = {}
        /\ \A t \in Topics : buffers[t] = <<>> /\ DOMAIN buffers[t] = {} /\ published[t] = 0
    BY DEF DataInit
  <1>2. flowing \subseteq Feeds
    BY DEF DataInit
  <1>3. DataTypes
    <2>1. queue \in Seq(Messages) /\ Len(queue) =< QueueRoom
      BY <1>1, DataFeedAssumption
    <2>2. buffers \in [Topics -> Seq(Messages)]
      BY DEF DataInit
    <2>3. published \in [Topics -> Nat]
      BY DEF DataInit
    <2>4. hooks \subseteq SocketHooks
      BY DEF DataInit
    <2>5. joined \in BOOLEAN
      BY DEF DataInit
    <2>6. setup \in {"main", "after"}
      BY DEF DataInit
    <2>7. pushes \in [Feeds -> Nat]
      BY DEF DataInit
    <2>8. QED
      BY <1>2, <2>1, <2>2, <2>3, <2>4, <2>5, <2>6, <2>7 DEF DataTypes
  <1>4. Unjoined /\ OwnBuffers /\ MainWiring /\ Counted
    BY <1>1 DEF DataInit, Unjoined, OwnBuffers, MainWiring, Counted
  <1>5. ASSUME NEW t \in Topics
        PROVE  OnTheWay(t) /\ Unbroken(t)
    <2>1. Places(queue, t) = {} /\ Places(buffers[t], t) = {}
      BY <1>1 DEF Places
    <2>2. Numbers(buffers[t], t) \cup Numbers(queue, t) = {}
      BY <2>1 DEF Numbers
    <2>3. 1 \in 1 .. published[t] + 1 /\ 1 .. published[t] = {}
      BY <1>1
    <2>4. Unbroken(t)
      BY <2>2, <2>3 DEF Unbroken
    <2>5. OnTheWay(t)
      BY <1>1, <2>1 DEF OnTheWay
    <2>6. QED
      BY <2>4, <2>5
  <1>6. QED
    BY <1>3, <1>4, <1>5 DEF FeedInv

(* The places of a topic in a buffer and the queue behind it. *)
BothHold(b, q, t) ==
    /\ \A i \in Places(b \o q, t) :
          \/ i \in Places(b, t) /\ i =< Len(b) /\ (b \o q)[i] = b[i]
          \/ i - Len(b) \in Places(q, t) /\ Len(b) < i /\ (b \o q)[i] = q[i - Len(b)]
    /\ Numbers(b \o q, t) = Numbers(b, t) \cup Numbers(q, t)

LEMMA JoinedPlaces ==
  ASSUME NEW S, NEW b \in Seq(S), NEW q \in Seq(S), NEW t
  PROVE  BothHold(b, q, t)
  <1> DEFINE s == b \o q  n == Len(b)
  <1>1. /\ n \in Nat /\ Len(q) \in Nat /\ DOMAIN b = 1 .. n /\ DOMAIN q = 1 .. Len(q) /\ DOMAIN s = 1 .. n + Len(q)
        /\ (\A i \in 1 .. n : s[i] = b[i]) /\ (\A i \in n + 1 .. n + Len(q) : s[i] = q[i - n])
    OBVIOUS
  <1> HIDE DEF s
  <1>2. \A i \in DOMAIN s : (i \in DOMAIN b /\ i =< n /\ s[i] = b[i]) \/ (i - n \in DOMAIN q /\ n < i /\ s[i] = q[i - n])
    BY <1>1
  <1>3. \A i \in DOMAIN b : i \in DOMAIN s /\ s[i] = b[i]
    BY <1>1
  <1>4. \A i \in DOMAIN q : i + n \in DOMAIN s /\ s[i + n] = q[i]
    <2>1. ASSUME NEW i \in 1 .. Len(q)
          PROVE  i + n \in 1 .. n + Len(q) /\ s[i + n] = q[i]
      <3>1. i + n \in n + 1 .. n + Len(q) /\ (i + n) - n = i /\ i + n \in 1 .. n + Len(q)
        BY <1>1
      <3>2. QED
        BY <1>1, <3>1
    <2>2. QED
      BY <1>1, <2>1
  <1>5. \A i \in Places(s, t) :
          \/ i \in Places(b, t) /\ i =< n /\ s[i] = b[i]
          \/ i - n \in Places(q, t) /\ n < i /\ s[i] = q[i - n]
    BY <1>2 DEF Places
  <1>6. Numbers(s, t) = Numbers(b, t) \cup Numbers(q, t)
    <2>1. Numbers(s, t) \subseteq Numbers(b, t) \cup Numbers(q, t)
      BY <1>5 DEF Numbers
    <2>2. \A i \in Places(b, t) : i \in Places(s, t) /\ s[i].n = b[i].n
      BY <1>3 DEF Places
    <2>3. \A i \in Places(q, t) : i + n \in Places(s, t) /\ s[i + n].n = q[i].n
      BY <1>4 DEF Places
    <2>4. Numbers(b, t) \subseteq Numbers(s, t)
      BY <2>2 DEF Numbers
    <2>5. Numbers(q, t) \subseteq Numbers(s, t)
      BY <2>3 DEF Numbers
    <2>6. QED
      BY <2>1, <2>4, <2>5
  <1>7. QED
    BY <1>5, <1>6 DEF s, BothHold

LEMMA FeedInvUnbroken == FeedInv => FeedUnbroken
  <1> SUFFICES ASSUME FeedInv, NEW t \in Topics
               PROVE  LET seen == buffers[t] \o queue
                      IN  /\ t \notin twice =>
                                \A i, j \in Places(seen, t) : seen[i].final /\ (i < j => seen[i].n < seen[j].n)
                          /\ t \notin twice \cup gaps =>
                                \E first \in 1 .. published[t] + 1 : Numbers(seen, t) = first .. published[t]
                          /\ setup = "main" /\ t[2] = "swap" /\ buffers[t] # <<>> => t[1] = "kline"
    BY DEF FeedUnbroken
  <1> DEFINE b == buffers[t]  s == b \o queue  n == Len(b)
  <1>1. b \in Seq(Messages) /\ queue \in Seq(Messages) /\ n \in Nat
    BY DEF FeedInv, DataTypes
  <1>2. /\ \A i \in Places(s, t) :
              \/ i \in Places(b, t) /\ i =< n /\ s[i] = b[i]
              \/ i - n \in Places(queue, t) /\ n < i /\ s[i] = queue[i - n]
        /\ Numbers(s, t) = Numbers(b, t) \cup Numbers(queue, t)
    <2>1. BothHold(b, queue, t)
      BY <1>1, JoinedPlaces
    <2>2. QED
      BY <2>1 DEF BothHold
  <1>3. Places(b, t) \subseteq DOMAIN b /\ Places(b, t) \subseteq Int /\ Places(queue, t) \subseteq Int
    BY <1>1 DEF Places
  <1> HIDE DEF s
  <1>4. ASSUME t \notin twice, NEW i \in Places(s, t), NEW j \in Places(s, t)
        PROVE  s[i].final /\ (i < j => s[i].n < s[j].n)
    <2>1. OnTheWay(t)
      BY <1>4 DEF FeedInv
    <2>2. i \in Int /\ j \in Int
      <3>1. DOMAIN s \subseteq Int
        BY <1>1 DEF s
      <3>2. QED
        BY <3>1 DEF Places
    <2>3. CASE i \in Places(b, t) /\ i =< n /\ s[i] = b[i]
      <3>1. s[i].final /\ \A k \in DOMAIN b : i < k => b[i].n < b[k].n
        BY <1>3, <2>1, <2>3 DEF OnTheWay
      <3>2. \A k \in Places(queue, t) : b[i].n < queue[k].n
        BY <1>3, <2>1, <2>3 DEF OnTheWay
      <3>3. QED
        BY <1>2, <1>3, <2>3, <3>1, <3>2
    <2>4. CASE i - n \in Places(queue, t) /\ n < i /\ s[i] = queue[i - n]
      <3>1. s[i].final /\ \A k \in Places(queue, t) : i - n < k => queue[i - n].n < queue[k].n
        BY <2>1, <2>4 DEF OnTheWay
      <3>2. ASSUME i < j
            PROVE  s[i].n < s[j].n
        <4>1. ~ (j =< n) /\ i - n < j - n
          BY <1>1, <2>2, <2>4, <3>2
        <4>2. j - n \in Places(queue, t) /\ s[j] = queue[j - n]
          BY <1>2, <4>1
        <4>3. QED
          BY <2>4, <3>1, <4>1, <4>2
      <3>3. QED
        BY <3>1, <3>2
    <2>5. QED
      BY <1>2, <2>3, <2>4
  <1>5. ASSUME t \notin twice \cup gaps
        PROVE  \E first \in 1 .. published[t] + 1 : Numbers(s, t) = first .. published[t]
    BY <1>2, <1>5 DEF FeedInv, Unbroken
  <1>6. setup = "main" /\ t[2] = "swap" /\ buffers[t] # <<>> => t[1] = "kline"
    BY DEF FeedInv, MainWiring
  <1>7. QED
    BY <1>4, <1>5, <1>6 DEF s

(* What is published reaches the buffer of a strategy that keeps its topic *)
(* in order, once, final and without a hole, but for what its full socket  *)
(* dropped and candles that two sockets bring; and as main wires it no     *)
(* trade, book or funding rate of OKX does.                                *)
THEOREM FeedIsUnbroken == DataSpec => []FeedUnbroken
  <1>1. FeedInv /\ [DataNext]_dataVars => FeedInv'
    BY NextFeed
  <1>2. QED
    BY InitFeed, FeedInvUnbroken, <1>1, PTL DEF DataSpec

=============================================================================
