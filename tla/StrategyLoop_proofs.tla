------------------------- MODULE StrategyLoop_proofs --------------------------
(***************************************************************************)
(* Proofs about StrategyLoop and TaskScheduler, for any set of orders, any *)
(* length of the queues, any number of restarts, and any tasks, interval,  *)
(* clock and depth of nesting: the types of the loop, what the strategy's  *)
(* table may say of an order, that it implements OrderLife, and that a     *)
(* task is not called more often than its interval allows (NotTooOften).   *)
(*                                                                         *)
(* An order passes through three places: a request that is under way       *)
(* (Named), a report that waits in the strategy's socket (Words), and the  *)
(* table.  OrdersInv says that it is in one of them at a time, once, that  *)
(* nothing has happened at the exchange while its request waits, and that  *)
(* a report that waits is still true when it is read.                      *)
(***************************************************************************)
EXTENDS StrategyLoop, TaskScheduler, FiniteSetTheorems, SequenceTheorems, TLAPS

(* The orders a request asks to place. *)
Names(r) == IF r.kind \in {"place", "batch"} THEN r.orders ELSE {}
Named(q) == UNION {Names(r) : r \in Queued(q)}
Once(q) == \A i, j \in 1 .. Len(q) : i # j => Names(q[i]) \cap Names(q[j]) = {}

Words(q) == {m \in Queued(q) : m.kind = "order"}
OnceTold(q) ==
    \A i, j \in 1 .. Len(q) :
        i # j /\ q[i].kind = "order" /\ q[j].kind = "order" => q[i].order # q[j].order

-----------------------------------------------------------------------------
(* Queues *)

LEMMA TailFacts ==
  ASSUME NEW S, NEW q \in Seq(S), q # <<>>
  PROVE  /\ Head(q) \in S /\ Head(q) = q[1] /\ Tail(q) \in Seq(S) /\ Len(Tail(q)) = Len(q) - 1
         /\ Len(q) \in Nat \ {0} /\ \A i \in 1 .. Len(q) - 1 : Tail(q)[i] = q[i + 1]
         /\ Head(q) \in Queued(q) /\ Queued(Tail(q)) \subseteq Queued(q)
         /\ Queued(q) \subseteq Queued(Tail(q)) \cup {Head(q)}
  <1>1. /\ Head(q) \in S /\ Head(q) = q[1] /\ Tail(q) \in Seq(S) /\ Len(Tail(q)) = Len(q) - 1
        /\ \A i \in 1 .. Len(q) - 1 : Tail(q)[i] = q[i + 1]
    BY HeadTailProperties
  <1>2. Len(q) \in Nat \ {0}
    BY EmptySeq, LenProperties
  <1>3. Head(q) \in Queued(q)
    BY <1>1, <1>2 DEF Queued
  <1>4. Queued(Tail(q)) \subseteq Queued(q)
    <2>1. ASSUME NEW i \in 1 .. Len(q) - 1 PROVE Tail(q)[i] \in Queued(q)
      <3>1. i + 1 \in 1 .. Len(q) /\ Tail(q)[i] = q[i + 1]
        BY <1>1, <1>2
      <3>2. QED
        BY <3>1 DEF Queued
    <2>2. QED
      BY <1>1, <2>1 DEF Queued
  <1>5. ASSUME NEW i \in 1 .. Len(q) PROVE q[i] \in Queued(Tail(q)) \cup {Head(q)}
    <2>1. CASE i = 1
      BY <1>1, <2>1
    <2>2. CASE i # 1
      <3>1. i - 1 \in 1 .. Len(Tail(q)) /\ (i - 1) + 1 = i /\ i - 1 \in 1 .. Len(q) - 1
        BY <1>1, <1>2, <2>2
      <3>2. Tail(q)[i - 1] = q[i]
        BY <1>1, <3>1
      <3>3. QED
        BY <3>1, <3>2 DEF Queued
    <2>3. QED
      BY <2>1, <2>2
  <1>6. Queued(q) \subseteq Queued(Tail(q)) \cup {Head(q)}
    BY <1>5 DEF Queued
  <1>7. QED
    BY <1>1, <1>2, <1>3, <1>4, <1>6

LEMMA AppendFacts ==
  ASSUME NEW S, NEW q \in Seq(S), NEW x \in S
  PROVE  /\ Append(q, x) \in Seq(S) /\ Len(Append(q, x)) = Len(q) + 1 /\ Len(q) \in Nat
         /\ \A i \in 1 .. Len(q) : Append(q, x)[i] = q[i]
         /\ Append(q, x)[Len(q) + 1] = x
         /\ Queued(Append(q, x)) = Queued(q) \cup {x}
  <1>1. /\ Append(q, x) \in Seq(S) /\ Len(Append(q, x)) = Len(q) + 1
        /\ \A i \in 1 .. Len(q) : Append(q, x)[i] = q[i]
        /\ Append(q, x)[Len(q) + 1] = x
    BY AppendProperties
  <1>2. Len(q) \in Nat
    BY LenProperties
  <1>3. \A i \in 1 .. Len(q) + 1 : i \in 1 .. Len(q) \/ i = Len(q) + 1
    BY <1>2
  <1>4. 1 .. Len(q) \subseteq 1 .. Len(q) + 1 /\ Len(q) + 1 \in 1 .. Len(q) + 1
    BY <1>2
  <1>5. Queued(Append(q, x)) = Queued(q) \cup {x}
    BY <1>1, <1>3, <1>4, Zenon DEF Queued
  <1>6. QED
    BY <1>1, <1>2, <1>5

LEMMA NamedIn ==
  ASSUME NEW q, NEW r \in Queued(q)
  PROVE  Names(r) \subseteq Named(q)
  BY DEF Named

(* What the first request asks for is asked for by no other. *)
LEMMA OnceTail ==
  ASSUME NEW S, NEW q \in Seq(S), q # <<>>, Once(q)
  PROVE  /\ Once(Tail(q))
         /\ Named(Tail(q)) \subseteq Named(q) \ Names(Head(q)) /\ Names(Head(q)) \subseteq Named(q)
         /\ Named(q) \subseteq Named(Tail(q)) \cup Names(Head(q))
  <1>0. /\ Len(q) \in Nat \ {0} /\ Len(Tail(q)) = Len(q) - 1 /\ Head(q) = q[1]
        /\ \A i \in 1 .. Len(q) - 1 : Tail(q)[i] = q[i + 1]
        /\ Head(q) \in Queued(q) /\ Queued(Tail(q)) \subseteq Queued(q)
        /\ Queued(q) \subseteq Queued(Tail(q)) \cup {Head(q)}
    BY TailFacts
  <1>1. ASSUME NEW i \in 1 .. Len(Tail(q)), NEW j \in 1 .. Len(Tail(q)), i # j
        PROVE  Names(Tail(q)[i]) \cap Names(Tail(q)[j]) = {}
    <2>1. i + 1 \in 1 .. Len(q) /\ j + 1 \in 1 .. Len(q) /\ i + 1 # j + 1
            /\ i \in 1 .. Len(q) - 1 /\ j \in 1 .. Len(q) - 1
      BY <1>0, <1>1
    <2>2. Tail(q)[i] = q[i + 1] /\ Tail(q)[j] = q[j + 1]
      BY <1>0, <2>1
    <2>3. QED
      BY <2>1, <2>2 DEF Once
  <1>2. ASSUME NEW r \in Queued(Tail(q)) PROVE Names(r) \cap Names(Head(q)) = {}
    <2>1. PICK i \in 1 .. Len(Tail(q)) : r = Tail(q)[i]
      BY DEF Queued
    <2>2. i + 1 \in 1 .. Len(q) /\ 1 \in 1 .. Len(q) /\ i + 1 # 1 /\ i \in 1 .. Len(q) - 1
      BY <1>0
    <2>3. r = q[i + 1] /\ Head(q) = q[1]
      BY <1>0, <2>1, <2>2
    <2>4. QED
      BY <2>2, <2>3 DEF Once
  <1>3. Once(Tail(q))
    BY <1>1 DEF Once
  <1>4. Named(Tail(q)) \subseteq Named(q) \ Names(Head(q))
    BY <1>0, <1>2 DEF Named
  <1>5. Names(Head(q)) \subseteq Named(q) /\ Named(q) \subseteq Named(Tail(q)) \cup Names(Head(q))
    BY <1>0 DEF Named
  <1>6. QED
    BY <1>3, <1>4, <1>5

LEMMA OnceAppend ==
  ASSUME NEW S, NEW q \in Seq(S), NEW r \in S, Once(q), Names(r) \cap Named(q) = {}
  PROVE  Once(Append(q, r)) /\ Named(Append(q, r)) = Named(q) \cup Names(r)
  <1> DEFINE n == Len(q) + 1
  <1>0. /\ Len(Append(q, r)) = n /\ Len(q) \in Nat
        /\ \A i \in 1 .. Len(q) : Append(q, r)[i] = q[i]
        /\ Append(q, r)[n] = r
        /\ Queued(Append(q, r)) = Queued(q) \cup {r}
    BY AppendFacts
  <1>1. ASSUME NEW i \in 1 .. Len(q) PROVE Names(q[i]) \cap Names(r) = {}
    BY DEF Named, Queued
  <1>2. ASSUME NEW i \in 1 .. n, NEW j \in 1 .. n, i # j
        PROVE  Names(Append(q, r)[i]) \cap Names(Append(q, r)[j]) = {}
    <2>1. CASE i \in 1 .. Len(q) /\ j \in 1 .. Len(q)
      BY <1>0, <1>2, <2>1 DEF Once
    <2>2. CASE i = n /\ j \in 1 .. Len(q)
      BY <1>0, <1>1, <2>2
    <2>3. CASE j = n /\ i \in 1 .. Len(q)
      BY <1>0, <1>1, <2>3
    <2>4. \A k \in 1 .. n : k \in 1 .. Len(q) \/ k = n
      BY <1>0
    <2>5. QED
      BY <1>2, <2>1, <2>2, <2>3, <2>4
  <1>3. Once(Append(q, r))
    BY <1>0, <1>2 DEF Once
  <1>4. QED
    BY <1>0, <1>3 DEF Named

LEMMA OnceToldTail ==
  ASSUME NEW S, NEW q \in Seq(S), q # <<>>, OnceTold(q)
  PROVE  /\ OnceTold(Tail(q)) /\ Words(Tail(q)) \subseteq Words(q)
         /\ Words(q) \subseteq Words(Tail(q)) \cup {Head(q)}
         /\ Head(q).kind = "order" =>
              Head(q) \in Words(q) /\ \A m \in Words(Tail(q)) : m.order # Head(q).order
  <1>0. /\ Len(q) \in Nat \ {0} /\ Len(Tail(q)) = Len(q) - 1 /\ Head(q) = q[1]
        /\ \A i \in 1 .. Len(q) - 1 : Tail(q)[i] = q[i + 1]
        /\ Head(q) \in Queued(q) /\ Queued(Tail(q)) \subseteq Queued(q)
        /\ Queued(q) \subseteq Queued(Tail(q)) \cup {Head(q)}
    BY TailFacts
  <1>1. ASSUME NEW i \in 1 .. Len(Tail(q)), NEW j \in 1 .. Len(Tail(q)), i # j,
               Tail(q)[i].kind = "order", Tail(q)[j].kind = "order"
        PROVE  Tail(q)[i].order # Tail(q)[j].order
    <2>1. i + 1 \in 1 .. Len(q) /\ j + 1 \in 1 .. Len(q) /\ i + 1 # j + 1
            /\ i \in 1 .. Len(q) - 1 /\ j \in 1 .. Len(q) - 1
      BY <1>0, <1>1
    <2>2. Tail(q)[i] = q[i + 1] /\ Tail(q)[j] = q[j + 1]
      BY <1>0, <2>1
    <2>3. QED
      BY <1>1, <2>1, <2>2 DEF OnceTold
  <1>2. ASSUME NEW m \in Words(Tail(q)), Head(q).kind = "order" PROVE m.order # Head(q).order
    <2>1. PICK i \in 1 .. Len(Tail(q)) : m = Tail(q)[i]
      BY DEF Words, Queued
    <2>2. i + 1 \in 1 .. Len(q) /\ 1 \in 1 .. Len(q) /\ i + 1 # 1 /\ i \in 1 .. Len(q) - 1
      BY <1>0
    <2>3. m = q[i + 1] /\ Head(q) = q[1] /\ m.kind = "order"
      BY <1>0, <2>1, <2>2 DEF Words
    <2>4. QED
      BY <1>2, <2>2, <2>3 DEF OnceTold
  <1>3. OnceTold(Tail(q))
    BY <1>1 DEF OnceTold
  <1>4. QED
    BY <1>0, <1>2, <1>3 DEF Words

LEMMA OnceToldAppend ==
  ASSUME NEW S, NEW q \in Seq(S), NEW m \in S, OnceTold(q),
         m.kind = "order" => \A w \in Words(q) : w.order # m.order
  PROVE  OnceTold(Append(q, m)) /\ Words(Append(q, m)) = Words(q) \cup (IF m.kind = "order" THEN {m} ELSE {})
  <1> DEFINE n == Len(q) + 1
  <1>0. /\ Len(Append(q, m)) = n /\ Len(q) \in Nat
        /\ \A i \in 1 .. Len(q) : Append(q, m)[i] = q[i]
        /\ Append(q, m)[n] = m
        /\ Queued(Append(q, m)) = Queued(q) \cup {m}
    BY AppendFacts
  <1>1. ASSUME NEW i \in 1 .. Len(q), q[i].kind = "order" PROVE q[i] \in Words(q)
    BY <1>1 DEF Words, Queued
  <1>2. ASSUME NEW i \in 1 .. n, NEW j \in 1 .. n, i # j,
               Append(q, m)[i].kind = "order", Append(q, m)[j].kind = "order"
        PROVE  Append(q, m)[i].order # Append(q, m)[j].order
    <2>1. CASE i \in 1 .. Len(q) /\ j \in 1 .. Len(q)
      BY <1>0, <1>2, <2>1 DEF OnceTold
    <2>2. CASE i = n /\ j \in 1 .. Len(q)
      BY <1>0, <1>1, <1>2, <2>2
    <2>3. CASE j = n /\ i \in 1 .. Len(q)
      BY <1>0, <1>1, <1>2, <2>3
    <2>4. \A k \in 1 .. n : k \in 1 .. Len(q) \/ k = n
      BY <1>0
    <2>5. QED
      BY <1>2, <2>1, <2>2, <2>3, <2>4
  <1>3. OnceTold(Append(q, m))
    BY <1>0, <1>2 DEF OnceTold
  <1>4. QED
    BY <1>0, <1>3 DEF Words

-----------------------------------------------------------------------------
(* Requests and messages *)

LEMMA NamesFacts ==
  /\ \A o \in Orders : Names(Place(o)) = {o} /\ Names(Cancel(o)) = {}
  /\ \A B \in SUBSET Orders : Names(Batch(B)) = B
  /\ Names(CancelAll) = {} /\ Names(ChangeLeverage) = {}
  /\ \A k \in {"register", "unregister", "query_account", "query_positions"} : Names(Ask(k)) = {}
  BY DEF Names, Place, Cancel, Batch, CancelAll, ChangeLeverage, Ask

LEMMA RequestsFacts ==
  ASSUME NEW r \in Requests
  PROVE  r.orders \subseteq Orders /\ Names(r) \subseteq Orders
  <1>1. r.orders \subseteq Orders
    BY DEF Requests, Place, Cancel, Batch, CancelAll, ChangeLeverage, Ask
  <1>2. QED
    BY <1>1 DEF Names

LEMMA OrderMessages ==
  ASSUME NEW m \in Messages, m.kind = "order"
  PROVE  /\ m.order \in Orders /\ m.word \in {"accepted", "submitted", "filled", "rejected"}
         /\ m = Report(m.order, m.word)
  <1>1. PICK o \in Orders, w \in {"accepted", "submitted", "filled", "rejected"} : m = Report(o, w)
    BY DEF Messages, Report, AccountReport, PositionReport, OtherReport
  <1>2. QED
    BY <1>1 DEF Report

LEMMA ReportFacts ==
  ASSUME NEW o \in Orders, NEW w \in {"accepted", "submitted", "filled", "rejected"}
  PROVE  /\ Report(o, w) \in Messages /\ Report(o, w).kind = "order"
         /\ Report(o, w).order = o /\ Report(o, w).word = w
  BY DEF Messages, Report

LEMMA WordFacts ==
  ASSUME NEW w \in {"accepted", "submitted", "filled", "rejected"}
  PROVE  /\ w \in DOMAIN StatusOf <=> w # "submitted"
         /\ w # "submitted" => StatusOf[w] = w
  BY DEF StatusOf

-----------------------------------------------------------------------------
(* The orders *)

Shown(o) == IF o = sending THEN "submitted" ELSE table[o]

TrueWord(o, w) ==
    /\ w = "accepted" => AtExchange(o)
    /\ w = "filled" => o \in executed
    /\ w = "rejected" => ~ AtExchange(o) \/ o \in doubtful
    /\ w = "submitted" => AtExchange(o) /\ o \in OnBinance

WordsInv ==
    \A m \in Words(inbox) :
        /\ Shown(m.order) = "submitted" /\ TrueWord(m.order, m.word)
        /\ m.order \notin Named(requests)

OrdersInv ==
    /\ Once(requests) /\ OnceTold(inbox) /\ WordsInv
    /\ \A o \in Orders : o = sending => table[o] = "absent"
    /\ \A o \in Named(requests) : Shown(o) = "submitted" /\ ~ AtExchange(o)
    /\ \A o \in Orders : Shown(o) = "absent" => ~ AtExchange(o)
    /\ \A o \in executed : AtExchange(o)
    /\ ShownIsTrue

LEMMA NamedOrders ==
  ASSUME TypeOK
  PROVE  Named(requests) \subseteq Orders
  <1>1. ASSUME NEW r \in Queued(requests) PROVE Names(r) \subseteq Orders
    <2>1. r \in Requests
      BY ElementOfSeq DEF Queued, TypeOK
    <2>2. QED
      BY <2>1, RequestsFacts
  <1>2. QED
    BY <1>1 DEF Named

LEMMA WordsOrders ==
  ASSUME TypeOK, NEW m \in Words(inbox)
  PROVE  /\ m \in Messages /\ m.kind = "order"
         /\ m.order \in Orders /\ m.word \in {"accepted", "submitted", "filled", "rejected"}
  <1>1. m \in Messages /\ m.kind = "order"
    BY ElementOfSeq DEF Words, Queued, TypeOK
  <1>2. QED
    BY <1>1, OrderMessages

(* What the server and the exchange do keeps OrdersInv: the orders of A    *)
(* leave the requests and may arrive and be reported, the others stay      *)
(* where they are, and what is new about them is a trade or an end.        *)
LEMMA ServedInv ==
  ASSUME TypeOK, OrdersInv, UNCHANGED <<table, sending>>, NEW A \in SUBSET Orders,
         A \subseteq Named(requests),
         Once(requests'), Named(requests') \subseteq Named(requests) \ A,
         OnceTold(inbox'),
         \A m \in Words(inbox') : m \in Words(inbox) \/ (m.order \in A /\ TrueWord(m.order, m.word)'),
         \A o \in Orders \ A : (exchange'[o] = "none") = (exchange[o] = "none"),
         \A o \in Orders \ A : o \in doubtful => o \in doubtful',
         \A o \in Orders : o \in executed => o \in executed',
         \A o \in executed' : exchange'[o] # "none" /\ o \in Orders
  PROVE  OrdersInv'
  <1>1. \A o \in Orders : Shown(o)' = Shown(o)
    BY DEF Shown
  <1>2. ASSUME NEW m \in Words(inbox'), m \in Words(inbox)
        PROVE  /\ m.order \in Orders \ A /\ Shown(m.order)' = "submitted" /\ TrueWord(m.order, m.word)'
               /\ m.order \notin Named(requests')
    <2>1. m.order \in Orders /\ m.order \notin Named(requests) /\ Shown(m.order) = "submitted"
            /\ TrueWord(m.order, m.word)
      BY <1>2, WordsOrders DEF OrdersInv, WordsInv
    <2>2. m.order \in Orders \ A
      BY <2>1
    <2>3. QED
      BY <1>1, <2>1, <2>2 DEF TrueWord, AtExchange
  <1>3. WordsInv'
    <2>1. ASSUME NEW m \in Words(inbox'), m.order \in A, TrueWord(m.order, m.word)'
          PROVE  /\ Shown(m.order)' = "submitted" /\ m.order \notin Named(requests')
      BY <1>1, <2>1 DEF OrdersInv
    <2>2. QED
      BY <1>2, <2>1 DEF WordsInv
  <1>4. \A o \in Orders : (o = sending => table[o] = "absent")'
    BY DEF OrdersInv
  <1>5. \A o \in Named(requests') : Shown(o)' = "submitted" /\ ~ AtExchange(o)'
    BY <1>1, NamedOrders DEF OrdersInv, AtExchange
  <1>6. \A o \in Orders : Shown(o)' = "absent" => ~ AtExchange(o)'
    BY <1>1 DEF OrdersInv, AtExchange
  <1>7. ShownIsTrue'
    <2>1. ASSUME NEW o \in Orders, o \in A, table[o] \in {"accepted", "filled", "rejected"} PROVE FALSE
      BY <2>1 DEF OrdersInv, Shown
    <2>2. ASSUME NEW o \in Orders, o \notin A
          PROVE  /\ table[o] = "accepted" => AtExchange(o)'
                 /\ table[o] = "filled" => o \in executed'
                 /\ table[o] = "rejected" => ~ AtExchange(o)' \/ o \in doubtful'
      BY <2>2 DEF OrdersInv, ShownIsTrue, AtExchange
    <2>3. QED
      BY <2>1, <2>2 DEF ShownIsTrue
  <1>8. QED
    BY <1>3, <1>4, <1>5, <1>6, <1>7 DEF OrdersInv, AtExchange

LEMMA TakeFacts ==
  ASSUME TypeOK, OrdersInv, NEW r, Take(r)
  PROVE  /\ r \in Requests /\ Once(requests') /\ Named(requests') \subseteq Named(requests) \ Names(r)
         /\ Names(r) \subseteq Named(requests) /\ Names(r) \in SUBSET Orders
  <1>1. requests \in Seq(Requests) /\ requests # <<>> /\ r = Head(requests) /\ requests' = Tail(requests)
          /\ Once(requests)
    BY DEF TypeOK, OrdersInv, Take
  <1>2. r \in Requests
    BY <1>1, TailFacts
  <1>3. QED
    BY <1>1, <1>2, OnceTail, RequestsFacts

LEMMA PublishFacts ==
  ASSUME TypeOK, OrdersInv, NEW m \in Messages, Publish(m), m.kind = "order" => m.order \in Named(requests)
  PROVE  /\ OnceTold(inbox') /\ Words(inbox) \subseteq Words(inbox')
         /\ Words(inbox') \subseteq Words(inbox) \cup (IF m.kind = "order" THEN {m} ELSE {})
         /\ m.kind = "order" /\ Delivers => m \in Words(inbox')
  <1>1. inbox \in Seq(Messages) /\ OnceTold(inbox)
    BY DEF TypeOK, OrdersInv
  <1>2. CASE Delivers
    <2>1. inbox' = Append(inbox, m)
      BY <1>2 DEF Publish
    <2>2. m.kind = "order" => \A w \in Words(inbox) : w.order # m.order
      BY DEF OrdersInv, WordsInv
    <2>3. OnceTold(inbox') /\ Words(inbox') = Words(inbox) \cup (IF m.kind = "order" THEN {m} ELSE {})
      BY <1>1, <2>1, <2>2, OnceToldAppend
    <2>4. QED
      BY <2>3
  <1>3. CASE ~ Delivers
    BY <1>1, <1>3 DEF Publish
  <1>4. QED
    BY <1>2, <1>3

LEMMA PushFacts ==
  ASSUME TypeOK, OrdersInv, NEW r \in Requests, Push(r), Names(r) \cap Named(requests) = {}
  PROVE  /\ Once(requests') /\ Named(requests') = Named(requests) \cup Names(r)
         /\ Queued(requests') = Queued(requests) \cup {r}
  <1>1. requests \in Seq(Requests) /\ Once(requests) /\ requests' = Append(requests, r)
    BY DEF TypeOK, OrdersInv, Push
  <1>2. QED
    BY <1>1, OnceAppend, AppendFacts

(* Nothing about an order changes. *)
LEMMA QuietInv ==
  ASSUME TypeOK, OrdersInv, UNCHANGED <<table, sending, exchange, executed, doubtful>>,
         Once(requests'), Named(requests') \subseteq Named(requests),
         OnceTold(inbox'), Words(inbox') \subseteq Words(inbox)
  PROVE  OrdersInv'
  <1>1. \A o \in executed : exchange[o] # "none" /\ o \in Orders
    BY DEF OrdersInv, AtExchange, TypeOK
  <1>2. {} \in SUBSET Orders
    OBVIOUS
  <1>3. QED
    BY <1>1, <1>2, ServedInv

LEMMA QuietPush ==
  ASSUME TypeOK, OrdersInv, NEW r \in Requests, Names(r) = {}, Push(r),
         UNCHANGED <<table, sending, exchange, executed, doubtful, inbox>>
  PROVE  OrdersInv'
  <1>1. Once(requests') /\ Named(requests') = Named(requests)
    BY PushFacts
  <1>2. OnceTold(inbox') /\ Words(inbox') = Words(inbox)
    BY DEF OrdersInv
  <1>3. QED
    BY <1>1, <1>2, QuietInv

LEMMA SendInv ==
  ASSUME TypeOK, OrdersInv, NEW o \in Orders, SendOrder(o), UNCHANGED <<exchange, executed, doubtful>>
  PROVE  OrdersInv'
  <1>1. /\ sending = NoOrder /\ table[o] = "absent" /\ Push(Place(o)) /\ sending' = o
        /\ table' = table /\ inbox' = inbox
    BY DEF SendOrder, NewId
  <1>2. o # NoOrder /\ Shown(o) = "absent"
    BY <1>1, NoOrderAssumption DEF Shown
  <1>3. Place(o) \in Requests /\ Names(Place(o)) = {o}
    BY NamesFacts DEF Requests
  <1>4. o \notin Named(requests) /\ ~ AtExchange(o)
    BY <1>2 DEF OrdersInv
  <1>5. Once(requests') /\ Named(requests') = Named(requests) \cup {o}
    BY <1>1, <1>3, <1>4, PushFacts
  <1>6. \A k \in Orders : Shown(k)' = IF k = o THEN "submitted" ELSE Shown(k)
    BY <1>1, NoOrderAssumption DEF Shown
  <1>7. \A k \in Orders : (k = sending => table[k] = "absent")'
    BY <1>1
  <1>8. WordsInv'
    <2>1. ASSUME NEW m \in Words(inbox)
          PROVE  /\ Shown(m.order)' = "submitted" /\ TrueWord(m.order, m.word)'
                 /\ m.order \notin Named(requests')
      <3>1. m.order \in Orders /\ Shown(m.order) = "submitted" /\ TrueWord(m.order, m.word)
              /\ m.order \notin Named(requests)
        BY WordsOrders DEF OrdersInv, WordsInv
      <3>2. m.order # o
        BY <1>2, <3>1
      <3>3. QED
        BY <1>5, <1>6, <3>1, <3>2 DEF TrueWord, AtExchange
    <2>2. QED
      BY <1>1, <2>1 DEF WordsInv
  <1>9. \A k \in Named(requests') : Shown(k)' = "submitted" /\ ~ AtExchange(k)'
    BY <1>4, <1>5, <1>6, NamedOrders DEF OrdersInv, AtExchange
  <1>10. \A k \in Orders : Shown(k)' = "absent" => ~ AtExchange(k)'
    BY <1>6 DEF OrdersInv, AtExchange
  <1>11. ShownIsTrue' /\ \A k \in executed' : AtExchange(k)'
    BY <1>1 DEF OrdersInv, ShownIsTrue, AtExchange
  <1>12. OnceTold(inbox')
    BY <1>1 DEF OrdersInv
  <1>13. QED
    BY <1>5, <1>7, <1>8, <1>9, <1>10, <1>11, <1>12 DEF OrdersInv

LEMMA RecordInv ==
  ASSUME TypeOK, OrdersInv, RecordOrder, UNCHANGED <<exchange, executed, doubtful>>
  PROVE  OrdersInv'
  <1>1. /\ sending \in Orders /\ sending' = NoOrder /\ requests' = requests /\ inbox' = inbox
        /\ table' = [k \in Orders |-> IF k = sending THEN "submitted" ELSE table[k]]
    BY DEF RecordOrder, Submitted, channelVars, TypeOK
  <1>2. \A k \in Orders : Shown(k)' = Shown(k)
    BY <1>1, NoOrderAssumption DEF Shown
  <1>3. WordsInv'
    <2>1. ASSUME NEW m \in Words(inbox)
          PROVE  /\ Shown(m.order)' = "submitted" /\ TrueWord(m.order, m.word)'
                 /\ m.order \notin Named(requests')
      BY <1>1, <1>2, WordsOrders DEF OrdersInv, WordsInv, TrueWord, AtExchange
    <2>2. QED
      BY <1>1, <2>1 DEF WordsInv
  <1>4. \A k \in Named(requests') : Shown(k)' = "submitted" /\ ~ AtExchange(k)'
    BY <1>1, <1>2, NamedOrders DEF OrdersInv, AtExchange
  <1>5. \A k \in Orders : Shown(k)' = "absent" => ~ AtExchange(k)'
    BY <1>2 DEF OrdersInv, AtExchange
  <1>6. \A k \in Orders : table'[k] \in {"accepted", "filled", "rejected"} => table'[k] = table[k]
    BY <1>1
  <1>7. ShownIsTrue'
    BY <1>6 DEF OrdersInv, ShownIsTrue, AtExchange
  <1>8. QED
    BY <1>1, <1>3, <1>4, <1>5, <1>7, NoOrderAssumption DEF OrdersInv, AtExchange

LEMMA BatchInv ==
  ASSUME TypeOK, OrdersInv, NEW B \in SUBSET Orders, SendBatchOrders(B), UNCHANGED <<exchange, executed, doubtful>>
  PROVE  OrdersInv'
  <1>1. /\ sending = NoOrder /\ sending' = NoOrder /\ inbox' = inbox
        /\ table' = [k \in Orders |-> IF k \in B THEN "submitted" ELSE table[k]]
        /\ \A k \in B : table[k] = "absent"
        /\ Push(Batch(B)) \/ requests' = requests
    BY DEF SendBatchOrders, Submitted, NewId
  <1>2. \A k \in B : Shown(k) = "absent" /\ k \notin Named(requests) /\ ~ AtExchange(k)
    BY <1>1, NoOrderAssumption DEF Shown, OrdersInv
  <1>3. Batch(B) \in Requests /\ Names(Batch(B)) = B
    BY NamesFacts DEF Requests
  <1>4. Once(requests') /\ Named(requests') \subseteq Named(requests) \cup B
    <2>1. CASE Push(Batch(B))
      BY <1>2, <1>3, <2>1, PushFacts
    <2>2. CASE requests' = requests
      BY <2>2 DEF OrdersInv
    <2>3. QED
      BY <1>1, <2>1, <2>2
  <1>5. \A k \in Orders : Shown(k)' = IF k \in B THEN "submitted" ELSE Shown(k)
    BY <1>1, NoOrderAssumption DEF Shown
  <1>6. WordsInv'
    <2>1. ASSUME NEW m \in Words(inbox)
          PROVE  /\ Shown(m.order)' = "submitted" /\ TrueWord(m.order, m.word)'
                 /\ m.order \notin Named(requests')
      <3>1. m.order \in Orders /\ Shown(m.order) = "submitted" /\ TrueWord(m.order, m.word)
              /\ m.order \notin Named(requests)
        BY WordsOrders DEF OrdersInv, WordsInv
      <3>2. m.order \notin B
        BY <1>2, <3>1
      <3>3. QED
        BY <1>4, <1>5, <3>1, <3>2 DEF TrueWord, AtExchange
    <2>2. QED
      BY <1>1, <2>1 DEF WordsInv
  <1>7. \A k \in Named(requests') : Shown(k)' = "submitted" /\ ~ AtExchange(k)'
    BY <1>2, <1>4, <1>5, NamedOrders DEF OrdersInv, AtExchange
  <1>8. \A k \in Orders : Shown(k)' = "absent" => ~ AtExchange(k)'
    BY <1>5 DEF OrdersInv, AtExchange
  <1>9. \A k \in Orders : table'[k] \in {"accepted", "filled", "rejected"} => table'[k] = table[k]
    BY <1>1
  <1>10. ShownIsTrue'
    BY <1>9 DEF OrdersInv, ShownIsTrue, AtExchange
  <1>11. QED
    BY <1>1, <1>4, <1>6, <1>7, <1>8, <1>10, NoOrderAssumption DEF OrdersInv, AtExchange

(* What reading a report does to the table. *)
LEMMA ReadFacts ==
  ASSUME TypeOK, OrdersInv, sending = NoOrder, NEW m, Receive(m), m.kind = "order",
         UpdateOrderFromReport(m.order, m.word)
  PROVE  /\ m.order \in Orders /\ table[m.order] = "submitted" /\ TrueWord(m.order, m.word)
         /\ m.word \in {"accepted", "submitted", "filled", "rejected"} /\ m \in Words(inbox)
         /\ m.order \notin Named(requests)
         /\ table' = [table EXCEPT ![m.order] = m.word]
  <1>1. m \in Words(inbox)
    BY OnceToldTail DEF TypeOK, OrdersInv, Receive
  <1>2. /\ m.order \in Orders /\ m.word \in {"accepted", "submitted", "filled", "rejected"}
        /\ m.order \notin Named(requests)
        /\ Shown(m.order) = "submitted" /\ TrueWord(m.order, m.word)
    BY <1>1, WordsOrders DEF OrdersInv, WordsInv
  <1>3. table[m.order] = "submitted"
    BY <1>2, NoOrderAssumption DEF Shown
  <1>4. table' = [table EXCEPT ![m.order] = m.word]
    <2>1. CASE m.word = "submitted"
      <3>1. table' = table
        BY <1>2, <2>1, WordFacts DEF UpdateOrderFromReport
      <3>2. QED
        BY <1>3, <2>1, <3>1 DEF TypeOK
    <2>2. CASE m.word # "submitted"
      BY <1>2, <1>3, <2>2, WordFacts DEF UpdateOrderFromReport
    <2>3. QED
      BY <2>1, <2>2
  <1>5. QED
    BY <1>1, <1>2, <1>3, <1>4

LEMMA ReadInv ==
  ASSUME TypeOK, OrdersInv, sending = NoOrder, NEW m, Receive(m),
         IF m.kind = "order" THEN UpdateOrderFromReport(m.order, m.word) ELSE UNCHANGED table,
         UNCHANGED <<requests, sending, exchange, executed, doubtful>>
  PROVE  OrdersInv'
  <1>1. /\ OnceTold(inbox') /\ Words(inbox') \subseteq Words(inbox)
        /\ m.kind = "order" => \A k \in Words(inbox') : k.order # m.order
    BY OnceToldTail DEF TypeOK, OrdersInv, Receive
  <1>2. CASE m.kind # "order"
    <2>1. UNCHANGED <<table, sending, exchange, executed, doubtful>> /\ Once(requests')
            /\ Named(requests') \subseteq Named(requests)
      BY <1>2 DEF OrdersInv
    <2>2. QED
      BY <1>1, <2>1, QuietInv
  <1>3. CASE m.kind = "order"
    <2>1. /\ m.order \in Orders /\ table[m.order] = "submitted" /\ TrueWord(m.order, m.word)
          /\ m.word \in {"accepted", "submitted", "filled", "rejected"}
          /\ m.order \notin Named(requests)
          /\ table' = [table EXCEPT ![m.order] = m.word] /\ DOMAIN table = Orders
      <3>1. DOMAIN table = Orders
        BY DEF TypeOK
      <3>2. QED
        BY <1>3, <3>1, ReadFacts
    <2>2. \A k \in Orders : k # m.order => Shown(k)' = Shown(k)
      BY <2>1 DEF Shown
    <2>3. WordsInv'
      <3>1. ASSUME NEW k \in Words(inbox')
            PROVE  /\ Shown(k.order)' = "submitted" /\ TrueWord(k.order, k.word)'
                   /\ k.order \notin Named(requests')
        BY <1>1, <1>3, <2>2, WordsOrders DEF OrdersInv, WordsInv, TrueWord, AtExchange
      <3>2. QED
        BY <3>1 DEF WordsInv
    <2>4. \A k \in Named(requests') : Shown(k)' = "submitted" /\ ~ AtExchange(k)'
      BY <2>1, <2>2, NamedOrders DEF OrdersInv, AtExchange
    <2>5. \A k \in Orders : Shown(k)' = "absent" => ~ AtExchange(k)'
      BY <2>1, <2>2, NoOrderAssumption DEF OrdersInv, AtExchange, Shown
    <2>6. ShownIsTrue'
      <3>1. ASSUME NEW k \in Orders, k # m.order
            PROVE  /\ table'[k] = "accepted" => AtExchange(k)'
                   /\ table'[k] = "filled" => k \in executed'
                   /\ table'[k] = "rejected" => ~ AtExchange(k)' \/ k \in doubtful'
        BY <2>1, <3>1 DEF OrdersInv, ShownIsTrue, AtExchange
      <3>2. /\ table'[m.order] = "accepted" => AtExchange(m.order)'
            /\ table'[m.order] = "filled" => m.order \in executed'
            /\ table'[m.order] = "rejected" => ~ AtExchange(m.order)' \/ m.order \in doubtful'
        BY <2>1 DEF TrueWord, AtExchange
      <3>3. QED
        BY <3>1, <3>2 DEF ShownIsTrue
    <2>7. \A k \in Orders : (k = sending => table[k] = "absent")'
      BY NoOrderAssumption
    <2>8. QED
      BY <1>1, <2>3, <2>4, <2>5, <2>6, <2>7 DEF OrdersInv, AtExchange
  <1>4. QED
    BY <1>2, <1>3

LEMMA StopInv ==
  ASSUME TypeOK, OrdersInv, Stop
  PROVE  OrdersInv'
  <1>1. UNCHANGED <<requests, table, sending, exchange, executed, doubtful>> /\ inbox' = <<>>
    BY DEF Stop, tableVars
  <1>2. Queued(inbox') = {}
    BY <1>1, EmptySeq DEF Queued
  <1>3. OnceTold(inbox') /\ Words(inbox') = {}
    BY <1>1, <1>2, EmptySeq DEF OnceTold, Words
  <1>4. Once(requests') /\ Named(requests') = Named(requests)
    BY <1>1 DEF OrdersInv
  <1>5. QED
    BY <1>1, <1>3, <1>4, QuietInv

-----------------------------------------------------------------------------
(* The server and the exchange.  Each lemma gives what became of the       *)
(* orders A that the request named, which is all ServedInv asks for.       *)

Frame == UNCHANGED <<table, sending>>

(* A request that names no order, answered or not. *)
LEMMA ServedQuietly ==
  ASSUME TypeOK, OrdersInv, NEW r, Take(r), Names(r) = {},
         inbox' = inbox \/ \E m \in Messages : m.kind # "order" /\ Publish(m),
         UNCHANGED <<table, sending, exchange, executed, doubtful>>
  PROVE  OrdersInv'
  <1>1. Once(requests') /\ Named(requests') \subseteq Named(requests)
    BY TakeFacts
  <1>2. OnceTold(inbox') /\ Words(inbox') \subseteq Words(inbox)
    <2>1. CASE inbox' = inbox
      BY <2>1 DEF OrdersInv
    <2>2. ASSUME NEW m \in Messages, m.kind # "order", Publish(m)
          PROVE  OnceTold(inbox') /\ Words(inbox') \subseteq Words(inbox)
      BY <2>2, PublishFacts
    <2>3. QED
      BY <2>1, <2>2
  <1>3. QED
    BY <1>1, <1>2, QuietInv

(* A request for one order, answered with a word that is true afterwards. *)
LEMMA AnsweredInv ==
  ASSUME TypeOK, OrdersInv, NEW o \in Orders, Take(Place(o)),
         NEW w \in {"accepted", "submitted", "filled", "rejected"}, Answer(o, w), TrueWord(o, w)',
         Frame, \A k \in Orders \ {o} : exchange'[k] = exchange[k],
         doubtful \subseteq doubtful', executed \subseteq executed', executed' \subseteq executed \cup {o},
         o \in executed' => exchange'[o] # "none"
  PROVE  OrdersInv'
  <1>1. /\ Once(requests') /\ Named(requests') \subseteq Named(requests) \ {o}
        /\ {o} \subseteq Named(requests) /\ {o} \in SUBSET Orders
    BY TakeFacts, NamesFacts
  <1>2. /\ Report(o, w) \in Messages /\ Report(o, w).kind = "order"
        /\ Report(o, w).order = o /\ Report(o, w).word = w
    BY ReportFacts
  <1>3. OnceTold(inbox') /\ Words(inbox') \subseteq Words(inbox) \cup {Report(o, w)}
    BY <1>1, <1>2, PublishFacts DEF Answer
  <1>4. \A m \in Words(inbox') : m \in Words(inbox) \/ (m.order \in {o} /\ TrueWord(m.order, m.word)')
    <2>1. ASSUME NEW m \in Words(inbox'), m \notin Words(inbox)
          PROVE  m.order \in {o} /\ TrueWord(m.order, m.word)'
      <3>1. m = Report(o, w)
        BY <1>3, <2>1
      <3>2. m.order = o /\ m.word = w
        BY <1>2, <3>1
      <3>3. QED
        BY <3>2
    <2>2. QED
      BY <2>1
  <1>5. \A k \in executed' : exchange'[k] # "none" /\ k \in Orders
    BY DEF OrdersInv, AtExchange, TypeOK
  <1>6. /\ \A k \in Orders \ {o} : (exchange'[k] = "none") = (exchange[k] = "none")
        /\ \A k \in Orders \ {o} : k \in doubtful => k \in doubtful'
        /\ \A k \in Orders : k \in executed => k \in executed'
    OBVIOUS
  <1>7. UNCHANGED <<table, sending>>
    BY DEF Frame
  <1>8. QED
    BY <1>1, <1>3, <1>4, <1>5, <1>6, <1>7, ServedInv

LEMMA ArriveFacts ==
  ASSUME TypeOK, NEW A \in SUBSET Orders, NEW st, Arrive(A, st)
  PROVE  /\ \A k \in Orders \ A : exchange'[k] = exchange[k]
         /\ \A k \in A : exchange'[k] = st
  BY DEF Arrive

LEMMA PlaceTakenInv ==
  ASSUME TypeOK, OrdersInv, NEW o \in Orders, NEW st \in {"open", "filled"}, NEW part \in BOOLEAN,
         PlaceTaken(o, st, part)
  PROVE  OrdersInv'
  <1>1. /\ Take(Place(o)) /\ Arrive({o}, st) /\ Frame /\ doubtful' = doubtful
        /\ executed' = IF part \/ st = "filled" THEN executed \cup {o} ELSE executed
    BY DEF PlaceTaken, Handled, tableVars, Frame
  <1>2. exchange'[o] = st /\ st # "none" /\ \A k \in Orders \ {o} : exchange'[k] = exchange[k]
    BY <1>1, ArriveFacts
  <1>3. PICK w \in {"accepted", "submitted", "filled", "rejected"} :
            w = IF o \notin OnBinance THEN "accepted" ELSE IF o \in executed' THEN "filled" ELSE "submitted"
    OBVIOUS
  <1>4. Answer(o, w)
    BY <1>3 DEF PlaceTaken
  <1>5. TrueWord(o, w)'
    BY <1>2, <1>3 DEF TrueWord, AtExchange
  <1>6. doubtful \subseteq doubtful' /\ executed \subseteq executed' /\ executed' \subseteq executed \cup {o}
    BY <1>1
  <1>7. QED
    BY <1>1, <1>2, <1>4, <1>5, <1>6, AnsweredInv

LEMMA PlaceRefusedInv ==
  ASSUME TypeOK, OrdersInv, NEW o \in Orders, PlaceRefused(o)
  PROVE  OrdersInv'
  <1>1. /\ Take(Place(o)) /\ Answer(o, "rejected") /\ Frame
        /\ UNCHANGED <<exchange, executed, doubtful>>
    BY DEF PlaceRefused, Handled, tableVars, Frame
  <1>2. o \in Named(requests)
    BY <1>1, TakeFacts, NamesFacts
  <1>3. ~ AtExchange(o)' /\ TrueWord(o, "rejected")'
    BY <1>1, <1>2 DEF OrdersInv, TrueWord, AtExchange
  <1>4. o \notin executed'
    BY <1>1, <1>3 DEF OrdersInv, AtExchange
  <1>5. QED
    BY <1>1, <1>3, <1>4, AnsweredInv

LEMMA PlaceLostInv ==
  ASSUME TypeOK, OrdersInv, NEW o \in Orders, NEW arrived \in BOOLEAN, PlaceLost(o, arrived)
  PROVE  OrdersInv'
  <1>1. /\ Take(Place(o)) /\ Answer(o, "rejected") /\ Frame /\ executed' = executed
        /\ Arrive(IF arrived THEN {o} ELSE {}, "open") /\ doubtful' = doubtful \cup {o}
    BY DEF PlaceLost, Handled, tableVars, Frame
  <1>2. o \in Named(requests)
    BY <1>1, TakeFacts, NamesFacts
  <1>3. o \notin executed' /\ TrueWord(o, "rejected")'
    BY <1>1, <1>2 DEF OrdersInv, TrueWord, AtExchange
  <1>4. \A k \in Orders \ {o} : exchange'[k] = exchange[k]
    BY <1>1 DEF Arrive
  <1>5. QED
    BY <1>1, <1>3, <1>4, AnsweredInv

LEMMA ServeBatchInv ==
  ASSUME TypeOK, OrdersInv, NEW B \in SUBSET Orders, NEW A \in SUBSET B, ServeBatch(B, A)
  PROVE  OrdersInv'
  <1>1. /\ Take(Batch(B)) /\ Arrive(A, "open") /\ Publish(OtherReport) /\ UNCHANGED <<table, sending>>
        /\ UNCHANGED <<executed, doubtful>>
    BY DEF ServeBatch, Handled, tableVars
  <1>2. /\ Once(requests') /\ Named(requests') \subseteq Named(requests) \ B /\ B \subseteq Named(requests)
    BY <1>1, TakeFacts, NamesFacts
  <1>3. OtherReport \in Messages /\ OtherReport.kind # "order"
    BY DEF Messages, OtherReport
  <1>4. OnceTold(inbox') /\ Words(inbox') \subseteq Words(inbox)
    BY <1>1, <1>3, PublishFacts
  <1>5. \A k \in Orders \ B : (exchange'[k] = "none") = (exchange[k] = "none")
    BY <1>1 DEF Arrive
  <1>6. \A k \in executed' : exchange'[k] # "none" /\ k \in Orders
    BY <1>1 DEF OrdersInv, AtExchange, Arrive, TypeOK
  <1>7. \A m \in Words(inbox') : m \in Words(inbox)
    BY <1>4
  <1>8. QED
    BY <1>1, <1>2, <1>4, <1>5, <1>6, <1>7, ServedInv

LEMMA ServeCancelInv ==
  ASSUME TypeOK, OrdersInv, NEW o \in Orders, NEW works \in BOOLEAN, ServeCancel(o, works)
  PROVE  OrdersInv'
  <1>1. /\ Take(Cancel(o)) /\ Arrive(IF works THEN {o} ELSE {}, "gone") /\ Publish(OtherReport)
        /\ works => exchange[o] = "open"
        /\ UNCHANGED <<table, sending>> /\ UNCHANGED <<executed, doubtful>>
    BY DEF ServeCancel, Handled, tableVars
  <1>2. Once(requests') /\ Named(requests') \subseteq Named(requests)
    BY <1>1, TakeFacts
  <1>3. OtherReport \in Messages /\ OtherReport.kind # "order"
    BY DEF Messages, OtherReport
  <1>4. OnceTold(inbox') /\ Words(inbox') \subseteq Words(inbox)
    BY <1>1, <1>3, PublishFacts
  <1>5. \A k \in Orders : (exchange'[k] = "none") = (exchange[k] = "none")
    BY <1>1 DEF Arrive
  <1>6. \A k \in executed' : exchange'[k] # "none" /\ k \in Orders
    BY <1>1, <1>5 DEF OrdersInv, AtExchange, TypeOK
  <1>7. {} \in SUBSET Orders
    OBVIOUS
  <1>8. QED
    BY <1>1, <1>2, <1>4, <1>5, <1>6, <1>7, ServedInv

LEMMA QuietServes ==
  ASSUME TypeOK, OrdersInv,
         \/ \E r \in Queued(requests) : ServeOther(r)
         \/ \E valid \in BOOLEAN : ServeRegister(valid)
         \/ ServeUnregister
         \/ \E outcome \in {"error", "garbled", "fresh", "cached"}, v \in Positions \ {0} :
               ServePositions(outcome, v)
  PROVE  OrdersInv'
  <1>1. OtherReport \in Messages /\ OtherReport.kind # "order"
    BY DEF Messages, OtherReport
  <1>2. ASSUME NEW r, ServeOther(r) PROVE OrdersInv'
    <2>1. Take(r) /\ Names(r) = {}
      BY <1>2, NamesFacts DEF ServeOther
    <2>2. inbox' = inbox \/ Publish(OtherReport)
      BY <1>2 DEF ServeOther
    <2>3. UNCHANGED <<table, sending, exchange, executed, doubtful>>
      BY <1>2 DEF ServeOther, serverVars, tableVars
    <2>4. QED
      BY <1>1, <2>1, <2>2, <2>3, ServedQuietly
  <1>3. ASSUME NEW valid \in BOOLEAN, ServeRegister(valid) PROVE OrdersInv'
    <2>1. PICK s \in {"registered", "rejected"} : Publish(AccountReport("register", s))
      BY <1>3 DEF ServeRegister
    <2>2. AccountReport("register", s) \in Messages /\ AccountReport("register", s).kind # "order"
      BY DEF Messages, AccountReport
    <2>3. Take(Ask("register")) /\ Names(Ask("register")) = {}
      BY <1>3, NamesFacts DEF ServeRegister
    <2>4. UNCHANGED <<table, sending, exchange, executed, doubtful>>
      BY <1>3 DEF ServeRegister, Handled, tableVars
    <2>5. QED
      BY <2>1, <2>2, <2>3, <2>4, ServedQuietly
  <1>4. CASE ServeUnregister
    <2>1. PICK s \in {"unregistered", "rejected"} : Publish(AccountReport("unregister", s))
      BY <1>4 DEF ServeUnregister
    <2>2. AccountReport("unregister", s) \in Messages /\ AccountReport("unregister", s).kind # "order"
      BY DEF Messages, AccountReport
    <2>3. Take(Ask("unregister")) /\ Names(Ask("unregister")) = {}
      BY <1>4, NamesFacts DEF ServeUnregister
    <2>4. UNCHANGED <<table, sending, exchange, executed, doubtful>>
      BY <1>4 DEF ServeUnregister, Handled, tableVars
    <2>5. QED
      BY <2>1, <2>2, <2>3, <2>4, ServedQuietly
  <1>5. ASSUME NEW outcome \in {"error", "garbled", "fresh", "cached"}, NEW v \in Positions \ {0},
               ServePositions(outcome, v)
        PROVE  OrdersInv'
    <2>1. inbox' = inbox \/ \E f \in {"error", "garbled", "fine"}, p \in Positions, c \in BOOLEAN :
                             Publish(PositionReport(f, p, c))
      <3>1. 0 \in Positions /\ held \in Positions /\ v \in Positions
        BY MaxPositionAssumption DEF TypeOK, Positions
      <3>2. QED
        BY <1>5, <3>1 DEF ServePositions
    <2>2. \A f \in {"error", "garbled", "fine"}, p \in Positions, c \in BOOLEAN :
              PositionReport(f, p, c) \in Messages /\ PositionReport(f, p, c).kind # "order"
      BY DEF Messages, PositionReport
    <2>3. Take(Ask("query_positions")) /\ Names(Ask("query_positions")) = {}
      BY <1>5, NamesFacts DEF ServePositions
    <2>4. UNCHANGED <<table, sending, exchange, executed, doubtful>>
      BY <1>5 DEF ServePositions, serverVars, tableVars
    <2>5. QED
      BY <2>1, <2>2, <2>3, <2>4, ServedQuietly
  <1>6. QED
    BY <1>2, <1>3, <1>4, <1>5

LEMMA AtExchangeInv ==
  ASSUME TypeOK, OrdersInv, NEW o \in Orders, NEW all \in BOOLEAN, Trade(o, all) \/ EndAtExchange(o)
  PROVE  OrdersInv'
  <1>1. UNCHANGED <<table, sending, requests, inbox, doubtful>>
    BY DEF Trade, EndAtExchange, tableVars, channelVars
  <1>2. /\ \A k \in Orders : (exchange'[k] = "none") = (exchange[k] = "none")
        /\ executed \subseteq executed' /\ executed' \subseteq executed \cup {o}
        /\ exchange[o] = "open"
    BY DEF Trade, EndAtExchange, Arrive, TypeOK
  <1>3. \A k \in executed' : exchange'[k] # "none" /\ k \in Orders
    BY <1>2 DEF OrdersInv, AtExchange, TypeOK
  <1>4. Once(requests') /\ OnceTold(inbox') /\ {} \in SUBSET Orders
    BY <1>1 DEF OrdersInv
  <1>5. QED
    BY <1>1, <1>2, <1>3, <1>4, ServedInv

(* The n oldest requests are gone. *)
Drop(q, n) == SubSeq(q, n + 1, Len(q))

LEMMA DropFacts ==
  ASSUME NEW S, NEW q \in Seq(S), Once(q), NEW n \in 0 .. Len(q)
  PROVE  /\ Drop(q, n) \in Seq(S) /\ Len(Drop(q, n)) = Len(q) - n /\ Once(Drop(q, n))
         /\ Named(Drop(q, n)) \subseteq Named(q)
         /\ n > 0 => Names(q[1]) \cap Named(Drop(q, n)) = {} /\ Names(q[1]) \subseteq Named(q)
         /\ \A r \in Queued(q) : r \in Queued(Drop(q, n)) \/ \E i \in 1 .. n : r = q[i]
  <1> DEFINE d == Drop(q, n)
  <1>0. Len(q) \in Nat /\ n + 1 \in Int /\ Len(q) \in Int /\ \A i \in n + 1 .. Len(q) : q[i] \in S
    BY LenProperties, ElementOfSeq
  <1>1. /\ d \in Seq(S) /\ Len(d) = IF n + 1 =< Len(q) THEN Len(q) - (n + 1) + 1 ELSE 0
        /\ \A i \in 1 .. Len(q) - (n + 1) + 1 : d[i] = q[n + 1 + i - 1]
    BY <1>0, SubSeqProperties DEF Drop
  <1>2. Len(d) = Len(q) - n /\ \A i \in 1 .. Len(d) : d[i] = q[n + i] /\ n + i \in 1 .. Len(q)
    <2>1. Len(d) = Len(q) - n /\ Len(q) - (n + 1) + 1 = Len(d)
      BY <1>0, <1>1
    <2>2. \A i \in 1 .. Len(d) : n + 1 + i - 1 = n + i /\ n + i \in 1 .. Len(q)
      BY <1>0, <2>1
    <2>3. QED
      BY <1>1, <2>1, <2>2
  <1>3. Once(d)
    <2>1. ASSUME NEW i \in 1 .. Len(d), NEW j \in 1 .. Len(d), i # j PROVE Names(d[i]) \cap Names(d[j]) = {}
      <3>1. n + i # n + j /\ n + i \in 1 .. Len(q) /\ n + j \in 1 .. Len(q)
        BY <1>0, <1>2, <2>1
      <3>2. d[i] = q[n + i] /\ d[j] = q[n + j]
        BY <1>2
      <3>3. QED
        BY <3>1, <3>2 DEF Once
    <2>2. QED
      BY <2>1 DEF Once
  <1>4. Named(d) \subseteq Named(q)
    BY <1>2 DEF Named, Queued
  <1>5. ASSUME n > 0 PROVE Names(q[1]) \cap Named(d) = {} /\ Names(q[1]) \subseteq Named(q)
    <2>1. 1 \in 1 .. Len(q) /\ \A i \in 1 .. Len(d) : n + i # 1
      BY <1>0, <1>2, <1>5
    <2>2. \A i \in 1 .. Len(d) : Names(q[1]) \cap Names(d[i]) = {}
      BY <1>2, <2>1 DEF Once
    <2>3. QED
      BY <2>1, <2>2 DEF Named, Queued
  <1>6. ASSUME NEW j \in 1 .. Len(q) PROVE q[j] \in Queued(d) \/ \E i \in 1 .. n : q[j] = q[i]
    <2>1. CASE j =< n
      BY <1>0, <2>1
    <2>2. CASE ~ j =< n
      <3>1. j - n \in 1 .. Len(d) /\ n + (j - n) = j
        BY <1>0, <1>2, <2>2
      <3>2. q[j] = d[j - n]
        BY <1>2, <3>1
      <3>3. QED
        BY <3>1, <3>2 DEF Queued
    <2>3. QED
      BY <2>1, <2>2
  <1>7. QED
    BY <1>1, <1>2, <1>3, <1>4, <1>5, <1>6 DEF Queued

LEMMA CrashFacts ==
  ASSUME TypeOK, OrdersInv, NEW n \in 0 .. RequestBound, NEW A \in SUBSET Orders, Crash(n, A)
  PROVE  /\ requests' \in Seq(Requests) /\ Len(requests') =< Len(requests) /\ Once(requests')
         /\ A \subseteq Named(requests) /\ Named(requests') \subseteq Named(requests) \ A
         /\ n \in 0 .. Len(requests)
  <1>1. requests \in Seq(Requests) /\ Once(requests) /\ requests' = SubSeq(requests, n + 1, Len(requests))
          /\ n =< Len(requests) /\ Len(requests) \in Nat
    BY LenProperties DEF TypeOK, OrdersInv, Crash
  <1>2. n \in 0 .. Len(requests) /\ n \in Nat
    BY <1>1, ChannelAssumption
  <1>3. /\ requests' \in Seq(Requests) /\ Len(requests') = Len(requests) - n /\ Once(requests')
        /\ Named(requests') \subseteq Named(requests)
        /\ n > 0 => Names(requests[1]) \cap Named(requests') = {} /\ Names(requests[1]) \subseteq Named(requests)
    <2>1. requests' = Drop(requests, n)
      BY <1>1 DEF Drop
    <2>2. requests \in Seq(Requests) /\ Once(requests) /\ n \in 0 .. Len(requests)
      BY <1>1, <1>2
    <2>3. Drop(requests, n) \in Seq(Requests)
      BY <2>2, DropFacts
    <2>4. Len(Drop(requests, n)) = Len(requests) - n
      BY <2>2, DropFacts
    <2>5. Once(Drop(requests, n))
      BY <2>2, DropFacts
    <2>6. Named(Drop(requests, n)) \subseteq Named(requests)
      BY <2>2, DropFacts
    <2>7. n > 0 => Names(requests[1]) \cap Named(Drop(requests, n)) = {} /\ Names(requests[1]) \subseteq Named(requests)
      BY <2>2, DropFacts
    <2>8. QED
      BY <2>1, <2>3, <2>4, <2>5, <2>6, <2>7
  <1>4. A # {} => n > 0 /\ A \subseteq Names(requests[1])
    <2>1. A # {} => n > 0 /\ Head(requests).kind \in {"place", "batch"} /\ A \subseteq Head(requests).orders
      BY DEF Crash
    <2>2. n > 0 => Head(requests) = requests[1]
      BY <1>1, <1>2, TailFacts, EmptySeq
    <2>3. QED
      BY <2>1, <2>2 DEF Names
  <1>5. QED
    BY <1>1, <1>2, <1>3, <1>4

LEMMA CrashInv ==
  ASSUME TypeOK, OrdersInv, NEW n \in 0 .. RequestBound, NEW A \in SUBSET Orders, Crash(n, A)
  PROVE  OrdersInv'
  <1>1. UNCHANGED <<table, sending, inbox, executed, doubtful>> /\ Arrive(A, "open")
    BY DEF Crash, tableVars
  <1>2. Once(requests') /\ A \subseteq Named(requests) /\ Named(requests') \subseteq Named(requests) \ A
    BY CrashFacts
  <1>3. \A k \in Orders \ A : (exchange'[k] = "none") = (exchange[k] = "none")
    BY <1>1 DEF Arrive
  <1>4. \A k \in executed' : exchange'[k] # "none" /\ k \in Orders
    BY <1>1 DEF OrdersInv, AtExchange, Arrive, TypeOK
  <1>5. OnceTold(inbox')
    BY <1>1 DEF OrdersInv
  <1>6. QED
    BY <1>1, <1>2, <1>3, <1>4, <1>5, ServedInv

-----------------------------------------------------------------------------
(* The strategy's own steps *)

LEMMA DrainInv ==
  ASSUME TypeOK, OrdersInv, DrainAccountReport \/ DrainOrderReport
  PROVE  OrdersInv'
  <1>1. sending = NoOrder /\ UNCHANGED <<requests, sending, exchange, executed, doubtful>>
    BY DEF DrainAccountReport, DrainOrderReport, Free, serverVars
  <1>2. PICK m : Receive(m) /\ IF m.kind = "order" THEN UpdateOrderFromReport(m.order, m.word) ELSE UNCHANGED table
    BY DEF DrainAccountReport, DrainOrderReport, Dispatch
  <1>3. QED
    BY <1>1, <1>2, ReadInv

LEMMA CallsInv ==
  ASSUME TypeOK, OrdersInv, OrderCalls
  PROVE  OrdersInv'
  <1>1. UNCHANGED <<exchange, executed, doubtful>>
    BY DEF OrderCalls, serverVars
  <1>2. ASSUME NEW o \in Orders, SendOrder(o) PROVE OrdersInv'
    BY <1>1, <1>2, SendInv
  <1>3. ASSUME NEW o \in Orders, CancelOrder(o) PROVE OrdersInv'
    <2>1. Push(Cancel(o)) /\ UNCHANGED <<table, sending, inbox>>
      BY <1>3 DEF CancelOrder, tableVars
    <2>2. Cancel(o) \in Requests /\ Names(Cancel(o)) = {}
      BY NamesFacts DEF Requests
    <2>3. QED
      BY <1>1, <2>1, <2>2, QuietPush
  <1>4. ASSUME NEW B \in SUBSET Orders, SendBatchOrders(B) PROVE OrdersInv'
    BY <1>1, <1>4, BatchInv
  <1>5. ASSUME NEW r \in {CancelAll, ChangeLeverage}, Push(r), UNCHANGED <<tableVars, inbox>> PROVE OrdersInv'
    <2>1. r \in Requests /\ Names(r) = {} /\ UNCHANGED <<table, sending>>
      BY <1>5, NamesFacts DEF Requests, tableVars
    <2>2. QED
      BY <1>1, <1>5, <2>1, QuietPush
  <1>6. QED
    <2>1. CASE CancelAllOrders
      BY <1>5, <2>1 DEF CancelAllOrders
    <2>2. CASE LeverageRequest
      BY <1>5, <2>2 DEF LeverageRequest
    <2>3. QED
      BY <1>2, <1>3, <1>4, <2>1, <2>2
      DEF OrderCalls, SendSwapMarketOrder, SendSwapTpSlOrder, SendSwapAdvancedOrder,
          SendBinanceMarketWithPrice, SendBinanceFuturesOrder

LEMMA AccountCallsInv ==
  ASSUME TypeOK, OrdersInv, AccountCalls
  PROVE  OrdersInv'
  <1>1. UNCHANGED <<table, sending, exchange, executed, doubtful>>
    BY DEF AccountCalls, serverVars, tableVars
  <1>2. inbox' = inbox
    BY DEF AccountCalls, RegisterAccount, UnregisterAccount, RefreshAccount, RefreshPositions, ClearPositions,
           channelVars
  <1>3. requests' = requests \/ \E k \in {"register", "unregister", "query_account", "query_positions"} : Push(Ask(k))
    BY DEF AccountCalls, RegisterAccount, UnregisterAccount, RefreshAccount, RefreshPositions, ClearPositions,
           channelVars
  <1>4. ASSUME NEW k \in {"register", "unregister", "query_account", "query_positions"}, Push(Ask(k))
        PROVE  OrdersInv'
    <2>1. Ask(k) \in Requests /\ Names(Ask(k)) = {}
      BY NamesFacts DEF Requests
    <2>2. QED
      BY <1>1, <1>2, <1>4, <2>1, QuietPush
  <1>5. CASE requests' = requests
    <2>1. Once(requests') /\ OnceTold(inbox') /\ Words(inbox') = Words(inbox) /\ Named(requests') = Named(requests)
      BY <1>2, <1>5 DEF OrdersInv
    <2>2. QED
      BY <1>1, <2>1, QuietInv
  <1>6. QED
    BY <1>3, <1>4, <1>5

LEMMA StillInv ==
  ASSUME TypeOK, OrdersInv, UNCHANGED <<requests, inbox, table, sending, exchange, executed, doubtful>>
  PROVE  OrdersInv'
  <1>1. Once(requests') /\ OnceTold(inbox') /\ Words(inbox') = Words(inbox) /\ Named(requests') = Named(requests)
    BY DEF OrdersInv
  <1>2. QED
    BY <1>1, QuietInv

LEMMA ServeInv ==
  ASSUME TypeOK, OrdersInv, Serve
  PROVE  OrdersInv'
  <1>1. ASSUME NEW o \in Orders, NEW st \in {"open", "filled"}, NEW part \in BOOLEAN, PlaceTaken(o, st, part)
        PROVE  OrdersInv'
    BY <1>1, PlaceTakenInv
  <1>2. ASSUME NEW o \in Orders, PlaceRefused(o) PROVE OrdersInv'
    BY <1>2, PlaceRefusedInv
  <1>3. ASSUME NEW o \in Orders, NEW arrived \in BOOLEAN, PlaceLost(o, arrived) PROVE OrdersInv'
    BY <1>3, PlaceLostInv
  <1>4. ASSUME NEW o \in Orders, NEW works \in BOOLEAN, ServeCancel(o, works) PROVE OrdersInv'
    BY <1>4, ServeCancelInv
  <1>5. ASSUME NEW B \in SUBSET Orders, NEW A \in SUBSET B, ServeBatch(B, A) PROVE OrdersInv'
    BY <1>5, ServeBatchInv
  <1>6. CASE \/ \E r \in Queued(requests) : ServeOther(r)
             \/ \E valid \in BOOLEAN : ServeRegister(valid)
             \/ ServeUnregister
             \/ \E outcome \in {"error", "garbled", "fresh", "cached"}, v \in Positions \ {0} :
                   ServePositions(outcome, v)
    BY <1>6, QuietServes
  <1>7. QED
    BY <1>1, <1>2, <1>3, <1>4, <1>5, <1>6 DEF Serve

LEMMA NextOrders ==
  ASSUME TypeOK, OrdersInv, [Next]_vars
  PROVE  OrdersInv'
  <1>1. CASE LoopTurn
    <2>1. CASE NextStage
      BY <2>1, StillInv DEF NextStage, channelVars, tableVars, serverVars
    <2>2. QED
      BY <1>1, <2>1, DrainInv DEF LoopTurn
  <1>2. CASE Stop
    BY <1>2, StopInv
  <1>3. CASE OrderCalls
    BY <1>3, CallsInv
  <1>4. CASE Record
    BY <1>4, RecordInv DEF Record, serverVars
  <1>5. CASE AccountCalls
    BY <1>5, AccountCallsInv
  <1>6. CASE Serve
    BY <1>6, ServeInv
  <1>7. CASE Environment
    <2>1. ASSUME NEW v \in Positions, PositionMoves(v), UNCHANGED <<tableVars, serverVars>> PROVE OrdersInv'
      BY <2>1, StillInv DEF PositionMoves, channelVars, tableVars, serverVars
    <2>2. QED
      BY <1>7, <2>1, AtExchangeInv, CrashInv DEF Environment
  <1>8. CASE Joins
    BY <1>8, StillInv DEF Joins, Join, tableVars, serverVars
  <1>9. CASE UNCHANGED vars
    BY <1>9, StillInv DEF vars, channelVars, tableVars, serverVars
  <1>10. QED
    BY <1>1, <1>2, <1>3, <1>4, <1>5, <1>6, <1>7, <1>8, <1>9 DEF Next

-----------------------------------------------------------------------------
(* Types *)

RequestTypes == requests \in Seq(Requests) /\ Len(requests) =< RequestBound
InboxTypes == inbox \in Seq(Messages) /\ Len(inbox) =< ReportHwm
OrderTypes ==
    /\ table \in [Orders -> {"absent", "submitted", "accepted", "filled", "rejected"}]
    /\ sending \in Orders \cup {NoOrder}
    /\ unsent \subseteq Orders /\ batched \subseteq Orders
    /\ exchange \in [Orders -> {"none", "open", "filled", "gone"}]
    /\ executed \subseteq Orders /\ doubtful \subseteq Orders /\ unheard \subseteq Orders
ViewTypes ==
    /\ joined \in BOOLEAN
    /\ registered \in BOOLEAN /\ queryDone \in BOOLEAN /\ queryError \in BOOLEAN
    /\ view \in Positions /\ held \in Positions /\ heldSince \subseteq Positions
    /\ clean \in BOOLEAN /\ viewCached \in BOOLEAN
    /\ account \in BOOLEAN /\ crashes \in 0 .. MaxCrashes
    /\ at \in {"account", "orders", "tasks", "stopped"}

LEMMA TypeParts == TypeOK <=> RequestTypes /\ InboxTypes /\ OrderTypes /\ ViewTypes
  BY DEF TypeOK, RequestTypes, InboxTypes, OrderTypes, ViewTypes

LEMMA TypePartsNext == RequestTypes' /\ InboxTypes' /\ OrderTypes' /\ ViewTypes' => TypeOK'
  BY DEF TypeOK, RequestTypes, InboxTypes, OrderTypes, ViewTypes

LEMMA PushTypes ==
  ASSUME RequestTypes, NEW r \in Requests, Push(r)
  PROVE  RequestTypes'
  <1>1. requests \in Seq(Requests) /\ Len(requests) < RequestBound /\ requests' = Append(requests, r)
    BY DEF RequestTypes, Push
  <1>2. requests' \in Seq(Requests) /\ Len(requests') = Len(requests) + 1 /\ Len(requests) \in Nat
    BY <1>1, AppendFacts
  <1>3. QED
    BY <1>1, <1>2, ChannelAssumption DEF RequestTypes

LEMMA TakeTypes ==
  ASSUME RequestTypes, NEW r, Take(r)
  PROVE  RequestTypes' /\ r \in Requests
  <1>1. requests \in Seq(Requests) /\ requests # <<>> /\ r = Head(requests) /\ requests' = Tail(requests)
          /\ Len(requests) =< RequestBound
    BY DEF RequestTypes, Take
  <1>2. requests' \in Seq(Requests) /\ Len(requests') = Len(requests) - 1 /\ Len(requests) \in Nat
          /\ r \in Requests
    BY <1>1, TailFacts
  <1>3. QED
    BY <1>1, <1>2, ChannelAssumption DEF RequestTypes

LEMMA PublishTypes ==
  ASSUME InboxTypes, NEW m \in Messages, Publish(m)
  PROVE  InboxTypes'
  <1>1. CASE Delivers
    <2>1. inbox \in Seq(Messages) /\ Len(inbox) < ReportHwm /\ inbox' = Append(inbox, m)
      BY <1>1 DEF InboxTypes, Publish, Delivers
    <2>2. inbox' \in Seq(Messages) /\ Len(inbox') = Len(inbox) + 1 /\ Len(inbox) \in Nat
      BY <2>1, AppendFacts
    <2>3. QED
      BY <2>1, <2>2, ChannelAssumption DEF InboxTypes
  <1>2. CASE ~ Delivers
    BY <1>2 DEF Publish, InboxTypes
  <1>3. QED
    BY <1>1, <1>2

LEMMA ReceiveTypes ==
  ASSUME InboxTypes, NEW m, Receive(m)
  PROVE  InboxTypes' /\ m \in Messages
  <1>1. inbox \in Seq(Messages) /\ inbox # <<>> /\ m = Head(inbox) /\ inbox' = Tail(inbox)
          /\ Len(inbox) =< ReportHwm
    BY DEF InboxTypes, Receive
  <1>2. inbox' \in Seq(Messages) /\ Len(inbox') = Len(inbox) - 1 /\ Len(inbox) \in Nat /\ m \in Messages
    BY <1>1, TailFacts
  <1>3. QED
    BY <1>1, <1>2, ChannelAssumption DEF InboxTypes

LEMMA StillTypes ==
  /\ RequestTypes /\ requests' = requests => RequestTypes'
  /\ InboxTypes /\ inbox' = inbox => InboxTypes'
  BY DEF RequestTypes, InboxTypes

LEMMA MessagesFacts ==
  /\ OtherReport \in Messages
  /\ \A o \in Orders, w \in {"accepted", "submitted", "filled", "rejected"} : Report(o, w) \in Messages
  /\ \A s \in {"registered", "rejected"} : AccountReport("register", s) \in Messages
  /\ \A s \in {"unregistered", "rejected"} : AccountReport("unregister", s) \in Messages
  /\ \A f \in {"error", "garbled", "fine"}, v \in Positions, c \in BOOLEAN : PositionReport(f, v, c) \in Messages
  BY DEF Messages

LEMMA PositionMessages ==
  ASSUME NEW m \in Messages, m.kind = "position_update"
  PROVE  m.form \in {"error", "garbled", "fine"} /\ m.value \in Positions /\ m.cached \in BOOLEAN
  BY DEF Messages, Report, AccountReport, PositionReport, OtherReport

LEMMA DrainTypes ==
  ASSUME TypeOK, OrdersInv, DrainAccountReport \/ DrainOrderReport
  PROVE  TypeOK'
  <1>1. /\ sending = NoOrder /\ UNCHANGED <<requests, joined, sending, unsent, batched, serverVars, at>>
        /\ \E m \in Queued(inbox) : Receive(m)
    BY DEF DrainAccountReport, DrainOrderReport, Free
  <1>2. PICK m : /\ Receive(m)
                 /\ IF m.kind = "order" THEN UpdateOrderFromReport(m.order, m.word) ELSE UNCHANGED table
                 /\ \/ UNCHANGED accountVars
                    \/ m.kind \in {"register", "unregister"} /\ HandleRegisterReport(m)
                    \/ m.kind = "position_update" /\ HandlePositionUpdate(m)
    BY DEF DrainAccountReport, DrainOrderReport, Dispatch
  <1>3. RequestTypes' /\ InboxTypes' /\ m \in Messages
    BY <1>1, <1>2, TypeParts, StillTypes, ReceiveTypes
  <1>4. OrderTypes'
    <2>1. table' \in [Orders -> {"absent", "submitted", "accepted", "filled", "rejected"}]
      <3>1. CASE m.kind = "order"
        <4>1. /\ m.order \in Orders /\ m.word \in {"accepted", "submitted", "filled", "rejected"}
              /\ table' = [table EXCEPT ![m.order] = m.word]
          BY <1>1, <1>2, <3>1, ReadFacts
        <4>2. QED
          BY <4>1 DEF TypeOK
      <3>2. QED
        BY <1>2, <3>1 DEF TypeOK
    <2>2. QED
      BY <1>1, <2>1 DEF OrderTypes, TypeOK, serverVars
  <1>5. ViewTypes'
    <2>1. joined' = joined /\ account' = account /\ crashes' = crashes /\ at' = at
      BY <1>1 DEF serverVars
    <2>2. CASE UNCHANGED accountVars
      BY <2>1, <2>2 DEF ViewTypes, TypeOK, accountVars
    <2>3. CASE HandleRegisterReport(m)
      BY <2>1, <2>3 DEF ViewTypes, TypeOK, HandleRegisterReport
    <2>4. CASE m.kind = "position_update" /\ HandlePositionUpdate(m)
      <3>1. m.value \in Positions /\ m.cached \in BOOLEAN
        BY <1>3, <2>4, PositionMessages
      <3>2. /\ queryDone' \in BOOLEAN /\ queryError' \in BOOLEAN
            /\ view' \in Positions /\ viewCached' \in BOOLEAN
        BY <2>4, <3>1 DEF HandlePositionUpdate, TypeOK
      <3>3. QED
        BY <2>1, <2>4, <3>2 DEF ViewTypes, TypeOK, HandlePositionUpdate
    <2>5. QED
      BY <1>2, <2>2, <2>3, <2>4
  <1>6. QED
    BY <1>3, <1>4, <1>5, TypePartsNext

LEMMA OwnTypes ==
  ASSUME TypeOK, NextStage \/ Stop \/ OrderCalls \/ Record \/ AccountCalls \/ Joins
  PROVE  TypeOK'
  <1>0. RequestTypes /\ InboxTypes /\ OrderTypes /\ ViewTypes
    BY TypeParts
  <1>1. CASE NextStage
    <2>1. RequestTypes' /\ InboxTypes' /\ OrderTypes'
      BY <1>0, <1>1, StillTypes DEF NextStage, channelVars, tableVars, serverVars, OrderTypes
    <2>2. at' \in {"account", "orders", "tasks", "stopped"}
      BY <1>1 DEF NextStage, Free, TypeOK
    <2>3. ViewTypes'
      BY <1>0, <1>1, <2>2 DEF NextStage, channelVars, accountVars, serverVars, ViewTypes
    <2>4. QED
      BY <2>1, <2>3, TypePartsNext
  <1>2. CASE Stop
    <2>1. RequestTypes'
      BY <1>0, <1>2, StillTypes DEF Stop
    <2>2. InboxTypes'
      BY <1>2, ChannelAssumption, EmptySeq DEF Stop, InboxTypes
    <2>3. OrderTypes'
      BY <1>0, <1>2 DEF Stop, OrderTypes, tableVars
    <2>4. ViewTypes'
      BY <1>0, <1>2 DEF Stop, ViewTypes, accountVars
    <2>5. QED
      BY <2>1, <2>2, <2>3, <2>4, TypePartsNext
  <1>3. CASE OrderCalls
    <2>1. ViewTypes' /\ InboxTypes'
      <3>1. inbox' = inbox /\ joined' = joined /\ UNCHANGED <<accountVars, serverVars, at>>
        BY <1>3 DEF OrderCalls, SendSwapMarketOrder, SendSwapTpSlOrder, SendSwapAdvancedOrder,
           SendBinanceMarketWithPrice, SendBinanceFuturesOrder, SendOrder, CancelOrder, SendBatchOrders,
           CancelAllOrders, LeverageRequest
      <3>2. QED
        BY <1>0, <3>1, StillTypes DEF ViewTypes, accountVars, serverVars
    <2>2. ASSUME NEW o \in Orders, SendOrder(o) PROVE RequestTypes' /\ OrderTypes'
      <3>1. Push(Place(o)) /\ Place(o) \in Requests
        BY <2>2 DEF SendOrder, Requests
      <3>2. OrderTypes'
        BY <1>0, <1>3, <2>2 DEF SendOrder, OrderTypes, OrderCalls, serverVars
      <3>3. QED
        BY <1>0, <3>1, <3>2, PushTypes
    <2>3. ASSUME NEW r \in Requests, Push(r), UNCHANGED tableVars PROVE RequestTypes' /\ OrderTypes'
      <3>1. OrderTypes'
        BY <1>0, <1>3, <2>3 DEF OrderTypes, OrderCalls, serverVars, tableVars
      <3>2. QED
        BY <1>0, <2>3, <3>1, PushTypes
    <2>4. ASSUME NEW B \in SUBSET Orders, SendBatchOrders(B) PROVE RequestTypes' /\ OrderTypes'
      <3>1. Batch(B) \in Requests /\ (Push(Batch(B)) \/ requests' = requests)
        BY <2>4 DEF SendBatchOrders, Requests
      <3>2. table' \in [Orders -> {"absent", "submitted", "accepted", "filled", "rejected"}]
        BY <1>0, <2>4 DEF SendBatchOrders, Submitted, OrderTypes
      <3>3. unsent' \subseteq Orders /\ batched' \subseteq Orders /\ sending' = sending
        BY <1>0, <2>4 DEF SendBatchOrders, OrderTypes
      <3>4. OrderTypes'
        BY <1>0, <1>3, <3>2, <3>3 DEF OrderTypes, OrderCalls, serverVars
      <3>5. QED
        BY <1>0, <3>1, <3>4, PushTypes, StillTypes
    <2>5. ASSUME NEW o \in Orders, CancelOrder(o) PROVE RequestTypes' /\ OrderTypes'
      <3>1. Cancel(o) \in Requests
        BY DEF Requests
      <3>2. QED
        BY <2>3, <2>5, <3>1 DEF CancelOrder
    <2>6. CancelAllOrders \/ LeverageRequest => RequestTypes' /\ OrderTypes'
      <3>1. CancelAll \in Requests /\ ChangeLeverage \in Requests
        BY DEF Requests
      <3>2. QED
        BY <2>3, <3>1 DEF CancelAllOrders, LeverageRequest
    <2>7. RequestTypes' /\ OrderTypes'
      BY <1>3, <2>2, <2>4, <2>5, <2>6
      DEF OrderCalls, SendSwapMarketOrder, SendSwapTpSlOrder, SendSwapAdvancedOrder,
          SendBinanceMarketWithPrice, SendBinanceFuturesOrder
    <2>8. QED
      BY <2>1, <2>7, TypePartsNext
  <1>4. CASE Record
    <2>1. RequestTypes' /\ InboxTypes'
      BY <1>0, <1>4, StillTypes DEF Record, RecordOrder, channelVars
    <2>2. OrderTypes'
      BY <1>0, <1>4 DEF Record, RecordOrder, Submitted, OrderTypes, serverVars
    <2>3. ViewTypes'
      BY <1>0, <1>4 DEF Record, RecordOrder, ViewTypes, channelVars, accountVars, serverVars
    <2>4. QED
      BY <2>1, <2>2, <2>3, TypePartsNext
  <1>5. CASE AccountCalls
    <2>1. OrderTypes'
      BY <1>0, <1>5 DEF AccountCalls, OrderTypes, tableVars, serverVars
    <2>2. inbox' = inbox /\ joined' = joined
      BY <1>5 DEF AccountCalls, RegisterAccount, UnregisterAccount, RefreshAccount, RefreshPositions, ClearPositions,
         channelVars
    <2>3. requests' = requests \/ \E k \in {"register", "unregister", "query_account", "query_positions"} : Push(Ask(k))
      BY <1>5 DEF AccountCalls, RegisterAccount, UnregisterAccount, RefreshAccount, RefreshPositions, ClearPositions,
             channelVars
    <2>4. \A k \in {"register", "unregister", "query_account", "query_positions"} : Ask(k) \in Requests
      BY DEF Requests
    <2>5. RequestTypes' /\ InboxTypes'
      BY <1>0, <2>2, <2>3, <2>4, PushTypes, StillTypes
    <2>6. ViewTypes'
      <3>1. CASE RegisterAccount \/ RefreshAccount \/ RefreshPositions
        BY <1>0, <1>5, <2>2, <3>1 DEF AccountCalls, RegisterAccount, RefreshAccount, RefreshPositions, accountVars,
           serverVars, ViewTypes
      <3>2. CASE UnregisterAccount
        BY <1>0, <1>5, <2>2, <3>2 DEF AccountCalls, UnregisterAccount, serverVars, ViewTypes
      <3>3. CASE ClearPositions
        <4>1. clean' \in BOOLEAN
          BY <3>3 DEF ClearPositions, QueryUnderWay
        <4>2. 0 \in Positions
          BY MaxPositionAssumption DEF Positions
        <4>3. QED
          BY <1>0, <1>5, <2>2, <3>3, <4>1, <4>2 DEF AccountCalls, ClearPositions, serverVars, ViewTypes
      <3>4. QED
        BY <1>5, <3>1, <3>2, <3>3 DEF AccountCalls
    <2>7. QED
      BY <2>1, <2>5, <2>6, TypePartsNext
  <1>6. CASE Joins
    <2>1. RequestTypes' /\ InboxTypes' /\ OrderTypes'
      BY <1>0, <1>6, StillTypes DEF Joins, Join, tableVars, serverVars, OrderTypes
    <2>2. ViewTypes'
      BY <1>0, <1>6 DEF Joins, Join, accountVars, serverVars, ViewTypes
    <2>3. QED
      BY <2>1, <2>2, TypePartsNext
  <1>7. QED
    BY <1>1, <1>2, <1>3, <1>4, <1>5, <1>6

(* What serving a request does to the types. *)
LEMMA ServeTypes ==
  ASSUME TypeOK, Serve
  PROVE  TypeOK'
  <1>0. RequestTypes /\ InboxTypes /\ OrderTypes /\ ViewTypes /\ at' = at
    BY TypeParts DEF Serve
  <1>1. RequestTypes'
    <2>1. \E r : Take(r)
      BY DEF Serve, PlaceTaken, PlaceRefused, PlaceLost, ServeCancel, ServeBatch, ServeOther, ServeRegister,
             ServeUnregister, ServePositions
    <2>2. QED
      BY <1>0, <2>1, TakeTypes
  <1>2. ASSUME NEW o \in Orders, NEW w \in {"accepted", "submitted", "filled", "rejected"}, Answer(o, w)
        PROVE  InboxTypes' /\ unheard' \subseteq Orders
    <2>1. Publish(Report(o, w)) /\ Report(o, w) \in Messages
      BY <1>2, MessagesFacts DEF Answer
    <2>2. InboxTypes'
      BY <1>0, <2>1, PublishTypes
    <2>3. QED
      BY <1>0, <1>2, <2>2 DEF Answer, OrderTypes
  <1>3. ASSUME NEW A \in SUBSET Orders, NEW st \in {"open", "filled", "gone"}, Arrive(A, st)
        PROVE  exchange' \in [Orders -> {"none", "open", "filled", "gone"}]
    BY <1>0, <1>3 DEF OrderTypes, Arrive
  <1>4. ASSUME Handled, account' \in BOOLEAN PROVE ViewTypes'
    BY <1>0, <1>4 DEF ViewTypes, Handled, accountVars
  <1>5. ASSUME NEW o \in Orders, NEW st \in {"open", "filled"}, NEW part \in BOOLEAN, PlaceTaken(o, st, part)
        PROVE  InboxTypes' /\ OrderTypes' /\ ViewTypes'
    <2>1. PICK w \in {"accepted", "submitted", "filled", "rejected"} : Answer(o, w)
      BY <1>5 DEF PlaceTaken
    <2>2. exchange' \in [Orders -> {"none", "open", "filled", "gone"}]
      BY <1>3, <1>5 DEF PlaceTaken
    <2>3. executed' \subseteq Orders /\ doubtful' = doubtful /\ account' = account /\ Handled
      BY <1>0, <1>5 DEF PlaceTaken, OrderTypes
    <2>4. InboxTypes' /\ unheard' \subseteq Orders
      BY <1>2, <2>1
    <2>5. OrderTypes'
      BY <1>0, <2>2, <2>3, <2>4 DEF OrderTypes, Handled, tableVars
    <2>6. ViewTypes'
      BY <1>0, <1>4, <2>3 DEF ViewTypes
    <2>7. QED
      BY <2>4, <2>5, <2>6
  <1>6. ASSUME NEW o \in Orders, PlaceRefused(o) PROVE InboxTypes' /\ OrderTypes' /\ ViewTypes'
    <2>1. InboxTypes' /\ unheard' \subseteq Orders
      BY <1>2, <1>6 DEF PlaceRefused
    <2>2. OrderTypes'
      BY <1>0, <1>6, <2>1 DEF PlaceRefused, OrderTypes, Handled, tableVars
    <2>3. ViewTypes'
      BY <1>0, <1>4, <1>6 DEF PlaceRefused, ViewTypes
    <2>4. QED
      BY <2>1, <2>2, <2>3
  <1>7. ASSUME NEW o \in Orders, NEW arrived \in BOOLEAN, PlaceLost(o, arrived)
        PROVE  InboxTypes' /\ OrderTypes' /\ ViewTypes'
    <2>1. InboxTypes' /\ unheard' \subseteq Orders
      BY <1>2, <1>7 DEF PlaceLost
    <2>2. exchange' \in [Orders -> {"none", "open", "filled", "gone"}]
      BY <1>3, <1>7 DEF PlaceLost
    <2>3. OrderTypes'
      BY <1>0, <1>7, <2>1, <2>2 DEF PlaceLost, OrderTypes, Handled, tableVars
    <2>4. ViewTypes'
      BY <1>0, <1>4, <1>7 DEF PlaceLost, ViewTypes
    <2>5. QED
      BY <2>1, <2>3, <2>4
  <1>8. ASSUME NEW o \in Orders, NEW works \in BOOLEAN, ServeCancel(o, works)
        PROVE  InboxTypes' /\ OrderTypes' /\ ViewTypes'
    <2>1. InboxTypes'
      BY <1>0, <1>8, PublishTypes, MessagesFacts DEF ServeCancel
    <2>2. exchange' \in [Orders -> {"none", "open", "filled", "gone"}]
      BY <1>3, <1>8 DEF ServeCancel
    <2>3. OrderTypes'
      BY <1>0, <1>8, <2>2 DEF ServeCancel, OrderTypes, Handled, tableVars
    <2>4. ViewTypes'
      BY <1>0, <1>4, <1>8 DEF ServeCancel, ViewTypes
    <2>5. QED
      BY <2>1, <2>3, <2>4
  <1>9. ASSUME NEW B \in SUBSET Orders, NEW A \in SUBSET B, ServeBatch(B, A)
        PROVE  InboxTypes' /\ OrderTypes' /\ ViewTypes'
    <2>1. InboxTypes'
      BY <1>0, <1>9, PublishTypes, MessagesFacts DEF ServeBatch
    <2>2. exchange' \in [Orders -> {"none", "open", "filled", "gone"}]
      BY <1>3, <1>9 DEF ServeBatch
    <2>3. OrderTypes'
      BY <1>0, <1>9, <2>2 DEF ServeBatch, OrderTypes, Handled, tableVars
    <2>4. ViewTypes'
      BY <1>0, <1>4, <1>9 DEF ServeBatch, ViewTypes
    <2>5. QED
      BY <2>1, <2>3, <2>4
  <1>10. ASSUME NEW r, ServeOther(r) PROVE InboxTypes' /\ OrderTypes' /\ ViewTypes'
    <2>1. InboxTypes'
      BY <1>0, <1>10, PublishTypes, StillTypes, MessagesFacts DEF ServeOther
    <2>2. OrderTypes'
      BY <1>0, <1>10 DEF ServeOther, OrderTypes, serverVars, tableVars
    <2>3. ViewTypes'
      BY <1>0, <1>10 DEF ServeOther, ViewTypes, serverVars, accountVars
    <2>4. QED
      BY <2>1, <2>2, <2>3
  <1>11. ASSUME NEW valid \in BOOLEAN, ServeRegister(valid) PROVE InboxTypes' /\ OrderTypes' /\ ViewTypes'
    <2>1. PICK s \in {"registered", "rejected"} : Publish(AccountReport("register", s))
      BY <1>11 DEF ServeRegister
    <2>2. InboxTypes'
      BY <1>0, <2>1, PublishTypes, MessagesFacts
    <2>3. account' \in BOOLEAN /\ Handled /\ UNCHANGED <<exchange, executed, doubtful, unheard>>
      BY <1>0, <1>11 DEF ServeRegister, ViewTypes
    <2>4. OrderTypes'
      BY <1>0, <2>3 DEF OrderTypes, Handled, tableVars
    <2>5. QED
      BY <1>4, <2>2, <2>3, <2>4
  <1>12. ASSUME ServeUnregister PROVE InboxTypes' /\ OrderTypes' /\ ViewTypes'
    <2>1. PICK s \in {"unregistered", "rejected"} : Publish(AccountReport("unregister", s))
      BY <1>12 DEF ServeUnregister
    <2>2. InboxTypes'
      BY <1>0, <2>1, PublishTypes, MessagesFacts
    <2>3. account' \in BOOLEAN /\ Handled /\ UNCHANGED <<exchange, executed, doubtful, unheard>>
      BY <1>12 DEF ServeUnregister
    <2>4. OrderTypes'
      BY <1>0, <2>3 DEF OrderTypes, Handled, tableVars
    <2>5. QED
      BY <1>4, <2>2, <2>3, <2>4
  <1>13. ASSUME NEW outcome, NEW v \in Positions \ {0}, ServePositions(outcome, v)
         PROVE  InboxTypes' /\ OrderTypes' /\ ViewTypes'
    <2>1. 0 \in Positions /\ held \in Positions /\ v \in Positions
      BY <1>0, MaxPositionAssumption DEF ViewTypes, Positions
    <2>2. inbox' = inbox \/ \E f \in {"error", "garbled", "fine"}, x \in Positions, c \in BOOLEAN :
                             Publish(PositionReport(f, x, c))
      BY <1>13, <2>1 DEF ServePositions
    <2>3. InboxTypes'
      BY <1>0, <2>2, PublishTypes, StillTypes, MessagesFacts
    <2>4. OrderTypes'
      BY <1>0, <1>13 DEF ServePositions, OrderTypes, serverVars, tableVars
    <2>5. ViewTypes'
      BY <1>0, <1>13 DEF ServePositions, ViewTypes, serverVars, accountVars
    <2>6. QED
      BY <2>3, <2>4, <2>5
  <1>14. InboxTypes' /\ OrderTypes' /\ ViewTypes'
    BY <1>5, <1>6, <1>7, <1>8, <1>9, <1>10, <1>11, <1>12, <1>13 DEF Serve
  <1>15. QED
    BY <1>1, <1>14, TypePartsNext

LEMMA EnvironmentTypes ==
  ASSUME TypeOK, OrdersInv, Environment
  PROVE  TypeOK'
  <1>0. RequestTypes /\ InboxTypes /\ OrderTypes /\ ViewTypes /\ at' = at
    BY TypeParts DEF Environment
  <1>1. ASSUME NEW o \in Orders, NEW all \in BOOLEAN, Trade(o, all) PROVE TypeOK'
    <2>1. RequestTypes' /\ InboxTypes'
      BY <1>0, <1>1, StillTypes DEF Trade, channelVars
    <2>2. OrderTypes'
      BY <1>0, <1>1 DEF Trade, OrderTypes, tableVars
    <2>3. ViewTypes'
      BY <1>0, <1>1 DEF Trade, ViewTypes, accountVars, channelVars
    <2>4. QED
      BY <2>1, <2>2, <2>3, TypePartsNext
  <1>2. ASSUME NEW o \in Orders, EndAtExchange(o) PROVE TypeOK'
    <2>1. RequestTypes' /\ InboxTypes'
      BY <1>0, <1>2, StillTypes DEF EndAtExchange, channelVars
    <2>2. OrderTypes'
      BY <1>0, <1>2 DEF EndAtExchange, OrderTypes, tableVars, Arrive
    <2>3. ViewTypes'
      BY <1>0, <1>2 DEF EndAtExchange, ViewTypes, accountVars, channelVars
    <2>4. QED
      BY <2>1, <2>2, <2>3, TypePartsNext
  <1>3. ASSUME NEW n \in 0 .. RequestBound, NEW A \in SUBSET Orders, Crash(n, A) PROVE TypeOK'
    <2>1. /\ requests' \in Seq(Requests) /\ Len(requests') =< Len(requests) /\ n \in 0 .. Len(requests)
          /\ Len(requests) \in Nat
      BY <1>3, CrashFacts, LenProperties DEF TypeOK
    <2>2. RequestTypes' /\ InboxTypes'
      <3>1. Len(requests') \in Nat
        BY <2>1, LenProperties
      <3>2. QED
        BY <1>0, <1>3, <2>1, <3>1, StillTypes, ChannelAssumption DEF Crash, RequestTypes
    <2>3. UNION {requests[i].orders : i \in 1 .. n} \subseteq Orders
      <3>1. ASSUME NEW i \in 1 .. n PROVE requests[i].orders \subseteq Orders
        <4>1. i \in 1 .. Len(requests)
          BY <2>1
        <4>2. requests[i] \in Requests
          BY <1>0, <4>1, ElementOfSeq DEF RequestTypes
        <4>3. QED
          BY <4>2, RequestsFacts
      <3>2. QED
        BY <3>1
    <2>4. OrderTypes'
      BY <1>0, <1>3, <2>3 DEF Crash, OrderTypes, tableVars, Arrive
    <2>5. ViewTypes'
      <3>1. crashes' \in 0 .. MaxCrashes
        BY <1>0, <1>3, MaxCrashesAssumption DEF Crash, ViewTypes
      <3>2. account' \in BOOLEAN /\ joined' \in BOOLEAN
        BY <1>3 DEF Crash
      <3>3. UNCHANGED accountVars
        BY <1>3 DEF Crash
      <3>4. QED
        BY <1>0, <3>1, <3>2, <3>3 DEF ViewTypes, accountVars
    <2>6. QED
      BY <2>2, <2>4, <2>5, TypePartsNext
  <1>4. ASSUME NEW v \in Positions, PositionMoves(v), UNCHANGED <<tableVars, serverVars>> PROVE TypeOK'
    <2>1. RequestTypes' /\ InboxTypes'
      BY <1>0, <1>4, StillTypes DEF PositionMoves, channelVars
    <2>2. OrderTypes'
      BY <1>0, <1>4 DEF OrderTypes, tableVars, serverVars
    <2>3. ViewTypes'
      BY <1>0, <1>4 DEF PositionMoves, ViewTypes, serverVars, channelVars
    <2>4. QED
      BY <2>1, <2>2, <2>3, TypePartsNext
  <1>5. QED
    BY <1>1, <1>2, <1>3, <1>4 DEF Environment

LEMMA NextTypes ==
  ASSUME TypeOK, OrdersInv, [Next]_vars
  PROVE  TypeOK'
  <1>1. CASE UNCHANGED vars
    <2>1. RequestTypes' /\ InboxTypes'
      BY <1>1, TypeParts, StillTypes DEF vars, channelVars
    <2>2. OrderTypes'
      BY <1>1, TypeParts DEF vars, OrderTypes, tableVars, serverVars
    <2>3. ViewTypes'
      BY <1>1, TypeParts DEF vars, ViewTypes, accountVars, channelVars, serverVars
    <2>4. QED
      BY <2>1, <2>2, <2>3, TypePartsNext
  <1>2. CASE LoopTurn
    BY <1>2, DrainTypes, OwnTypes DEF LoopTurn
  <1>3. CASE Stop \/ OrderCalls \/ Record \/ AccountCalls \/ Joins
    BY <1>3, OwnTypes
  <1>4. CASE Serve
    BY <1>4, ServeTypes
  <1>5. CASE Environment
    BY <1>5, EnvironmentTypes
  <1>6. QED
    BY <1>1, <1>2, <1>3, <1>4, <1>5 DEF Next

LEMMA InitFacts == Init => TypeOK /\ OrdersInv
  <1> SUFFICES ASSUME Init PROVE TypeOK /\ OrdersInv
    OBVIOUS
  <1>1. requests = <<>> /\ inbox = <<>> /\ Queued(requests) = {} /\ Queued(inbox) = {}
    BY EmptySeq DEF Init, ChannelInit, Queued
  <1>2. RequestTypes /\ InboxTypes
    BY <1>1, EmptySeq, ChannelAssumption DEF RequestTypes, InboxTypes
  <1>3. OrderTypes
    BY DEF Init, TableInit, ServerInit, OrderTypes
  <1>4. ViewTypes
    <2>1. 0 \in Positions /\ 0 \in 0 .. MaxCrashes
      BY MaxPositionAssumption, MaxCrashesAssumption DEF Positions
    <2>2. crashes = 0 /\ view = 0 /\ held = 0 /\ heldSince = {0}
      BY DEF Init, AccountInit, ServerInit
    <2>3. joined = FALSE /\ registered = FALSE /\ queryDone = FALSE /\ queryError = FALSE
            /\ clean = TRUE /\ viewCached = FALSE /\ account \in BOOLEAN /\ at = "account"
      BY DEF Init, ChannelInit, AccountInit, ServerInit
    <2>4. QED
      BY <2>1, <2>2, <2>3 DEF ViewTypes
  <1>5. Once(requests) /\ OnceTold(inbox) /\ Named(requests) = {} /\ Words(inbox) = {}
    BY <1>1, EmptySeq DEF Once, OnceTold, Named, Words
  <1>6. OrdersInv
    BY <1>5, NoOrderAssumption
    DEF OrdersInv, WordsInv, Init, TableInit, ServerInit, AtExchange, Shown, ShownIsTrue
  <1>7. QED
    BY <1>2, <1>3, <1>4, <1>6, TypeParts

LEMMA SpecInv == Spec => [](TypeOK /\ OrdersInv)
  <1>1. TypeOK /\ OrdersInv /\ [Next]_vars => (TypeOK /\ OrdersInv)'
    BY NextTypes, NextOrders
  <1>2. QED
    BY <1>1, InitFacts, PTL DEF Spec

(* Every variable of a strategy process and its server keeps its type.     *)
THEOREM TypeCorrect == Spec => []TypeOK
  BY SpecInv, PTL

(* What active_orders_ (trading_module.h) says of an order is so at the    *)
(* exchange.                                                               *)
THEOREM TableTrue == Spec => []ShownIsTrue
  <1>1. OrdersInv => ShownIsTrue
    BY DEF OrdersInv
  <1>2. QED
    BY <1>1, SpecInv, PTL

(* An order that works at the exchange is pending in active_orders_, with  *)
(* the two exceptions LiveIsPending names.                                 *)
THEOREM LiveKnown == Spec => []LiveIsPending
  <1>1. TypeOK /\ OrdersInv => LiveIsPending
    <2> SUFFICES ASSUME TypeOK, OrdersInv, NEW o \in Orders, exchange[o] = "open",
                        table[o] \notin Pending, sending # o, o \notin doubtful, o \notin executed
                 PROVE  FALSE
      BY DEF LiveIsPending
    <2>1. table[o] \in {"absent", "filled", "rejected"}
      BY DEF TypeOK, Pending
    <2>2. table[o] # "absent"
      BY DEF OrdersInv, AtExchange, Shown
    <2>3. QED
      BY <2>1, <2>2 DEF OrdersInv, ShownIsTrue, AtExchange
  <1>2. QED
    BY <1>1, SpecInv, PTL

-----------------------------------------------------------------------------
(* The refinement.  SentLife, ArrivedLife and ReadLife are the steps of an *)
(* order's life, the rest of Next stutters or is a trade or an end.        *)

ShownAll == [o \in Orders |-> Shown(o)]
LifeStep == [Life!Next]_<<ShownAll, exchange, executed, doubtful>>

LEMMA StillLife ==
  ASSUME UNCHANGED <<table, sending, exchange, executed, doubtful>>
  PROVE  LifeStep
  BY DEF LifeStep, ShownAll, Shown

LEMMA SameShown ==
  ASSUME UNCHANGED <<table, sending>>
  PROVE  ShownAll' = ShownAll
  BY DEF ShownAll, Shown

LEMMA SentLife ==
  ASSUME NEW B \in SUBSET Orders, \A o \in B : Shown(o) = "absent",
         \A o \in Orders : Shown(o)' = IF o \in B THEN "submitted" ELSE Shown(o),
         UNCHANGED <<exchange, executed, doubtful>>
  PROVE  LifeStep
  <1>1. Life!Send(B)
    BY DEF Life!Send, Shown
  <1>2. QED
    BY <1>1 DEF LifeStep, Life!Next

LEMMA ArrivedLife ==
  ASSUME TypeOK, OrdersInv, UNCHANGED <<table, sending>>, NEW A \in SUBSET Orders, A \subseteq Named(requests),
         NEW st \in {"open", "filled"}, Arrive(A, st),
         executed \subseteq executed', executed' \subseteq executed \cup A, st = "filled" => A \subseteq executed',
         doubtful \subseteq doubtful', doubtful' \subseteq doubtful \cup A
  PROVE  LifeStep
  <1>1. \A o \in A : Shown(o) = "submitted" /\ exchange[o] = "none"
    BY DEF OrdersInv, AtExchange
  <1>2. Life!Arrive(A, st)
    BY <1>1, SameShown DEF Life!Arrive, Arrive, Shown, ShownAll
  <1>3. QED
    BY <1>2 DEF LifeStep, Life!Next

LEMMA NoAnswerLife ==
  ASSUME TypeOK, OrdersInv, UNCHANGED <<table, sending, exchange, executed>>, NEW o \in Named(requests),
         doubtful' = doubtful \cup {o}
  PROVE  LifeStep
  <1>1. o \in Orders /\ Shown(o) = "submitted"
    BY NamedOrders DEF OrdersInv
  <1>2. Life!NoAnswer(o)
    BY <1>1, SameShown DEF Life!NoAnswer, Shown, ShownAll
  <1>3. QED
    BY <1>1, <1>2 DEF LifeStep, Life!Next

LEMMA ReadLife ==
  ASSUME TypeOK, OrdersInv, sending = NoOrder, NEW m, Receive(m),
         IF m.kind = "order" THEN UpdateOrderFromReport(m.order, m.word) ELSE UNCHANGED table,
         UNCHANGED <<sending, exchange, executed, doubtful>>
  PROVE  LifeStep
  <1>1. CASE m.kind # "order"
    BY <1>1, StillLife
  <1>2. CASE m.kind = "order"
    <2>1. /\ m.order \in Orders /\ table[m.order] = "submitted" /\ TrueWord(m.order, m.word)
          /\ m.word \in {"accepted", "submitted", "filled", "rejected"}
          /\ table' = [table EXCEPT ![m.order] = m.word]
      BY <1>2, ReadFacts
    <2>2. DOMAIN table = Orders
      BY DEF TypeOK
    <2>3. \A o \in Orders : Shown(o) = table[o] /\ Shown(o)' = table'[o]
      BY NoOrderAssumption DEF Shown
    <2>4. CASE m.word = "submitted"
      <3>1. \A o \in Orders : table'[o] = table[o]
        BY <2>1, <2>2, <2>4
      <3>2. ShownAll' = ShownAll
        BY <2>3, <3>1 DEF ShownAll
      <3>3. QED
        BY <3>2 DEF LifeStep
    <2>5. CASE m.word # "submitted"
      <3>1. ShownAll' = [ShownAll EXCEPT ![m.order] = m.word] /\ ShownAll[m.order] = "submitted"
        BY <2>1, <2>2, <2>3 DEF ShownAll
      <3>2. Life!Show(m.order, m.word)
        BY <2>1, <2>5, <3>1 DEF Life!Show, TrueWord, AtExchange, ShownAll, Shown
      <3>3. QED
        BY <2>1, <2>5, <3>2 DEF LifeStep, Life!Next
    <2>6. QED
      BY <2>4, <2>5
  <1>3. QED
    BY <1>1, <1>2

LEMMA CallsLife ==
  ASSUME TypeOK, OrdersInv, OrderCalls
  PROVE  LifeStep
  <1>1. UNCHANGED <<exchange, executed, doubtful>>
    BY DEF OrderCalls, serverVars
  <1>2. ASSUME NEW o \in Orders, SendOrder(o) PROVE LifeStep
    <2>1. sending = NoOrder /\ sending' = o /\ table[o] = "absent" /\ table' = table
      BY <1>2 DEF SendOrder, NewId
    <2>2. Shown(o) = "absent"
            /\ \A k \in Orders : Shown(k)' = IF k \in {o} THEN "submitted" ELSE Shown(k)
      BY <2>1, NoOrderAssumption DEF Shown
    <2>3. {o} \in SUBSET Orders /\ \A k \in {o} : Shown(k) = "absent"
      BY <2>2
    <2>4. QED
      BY <1>1, <2>2, <2>3, SentLife
  <1>3. ASSUME NEW B \in SUBSET Orders, SendBatchOrders(B) PROVE LifeStep
    <2>1. /\ sending = NoOrder /\ sending' = NoOrder /\ \A k \in B : table[k] = "absent"
          /\ table' = [k \in Orders |-> IF k \in B THEN "submitted" ELSE table[k]]
      BY <1>3 DEF SendBatchOrders, Submitted, NewId
    <2>2. /\ \A k \in B : Shown(k) = "absent"
          /\ \A k \in Orders : Shown(k)' = IF k \in B THEN "submitted" ELSE Shown(k)
      BY <2>1, NoOrderAssumption DEF Shown
    <2>3. QED
      BY <1>1, <2>2, SentLife
  <1>4. ASSUME UNCHANGED tableVars PROVE LifeStep
    BY <1>1, <1>4, StillLife DEF tableVars
  <1>5. QED
    BY <1>2, <1>3, <1>4
    DEF OrderCalls, SendSwapMarketOrder, SendSwapTpSlOrder, SendSwapAdvancedOrder,
        SendBinanceMarketWithPrice, SendBinanceFuturesOrder, CancelOrder, CancelAllOrders, LeverageRequest

LEMMA RecordLife ==
  ASSUME TypeOK, Record
  PROVE  LifeStep
  <1>1. /\ sending \in Orders /\ sending' = NoOrder
        /\ table' = [k \in Orders |-> IF k = sending THEN "submitted" ELSE table[k]]
        /\ UNCHANGED <<exchange, executed, doubtful>>
    BY DEF Record, RecordOrder, Submitted, TypeOK, serverVars
  <1>2. \A k \in Orders : Shown(k)' = Shown(k)
    BY <1>1, NoOrderAssumption DEF Shown
  <1>3. ShownAll' = ShownAll
    BY <1>2 DEF ShownAll
  <1>4. QED
    BY <1>1, <1>3 DEF LifeStep

(* A working order at the exchange trades or ends. *)
LEMMA EndLife ==
  ASSUME TypeOK, UNCHANGED <<table, sending, executed, doubtful>>, NEW o \in Orders,
         exchange[o] = "open", Arrive({o}, "gone")
  PROVE  LifeStep
  <1>1. Life!End(o)
    BY SameShown DEF Life!End, Arrive, ShownAll, Shown, TypeOK
  <1>2. QED
    BY <1>1 DEF LifeStep, Life!Next

LEMMA TradeLife ==
  ASSUME TypeOK, NEW o \in Orders, NEW all \in BOOLEAN, Trade(o, all)
  PROVE  LifeStep
  <1>1. /\ exchange[o] = "open" /\ executed' = executed \cup {o} /\ doubtful' = doubtful
        /\ exchange' = [exchange EXCEPT ![o] = IF all THEN "filled" ELSE "open"]
        /\ UNCHANGED <<table, sending>>
    BY DEF Trade, tableVars
  <1>2. exchange' = exchange \/ exchange' = [exchange EXCEPT ![o] = "filled"]
    BY <1>1 DEF TypeOK
  <1>3. Life!Trade(o)
    BY <1>1, <1>2, SameShown DEF Life!Trade, ShownAll, Shown
  <1>4. QED
    BY <1>3 DEF LifeStep, Life!Next

LEMMA NamedOne ==
  ASSUME TypeOK, OrdersInv, NEW o \in Orders, Take(Place(o))
  PROVE  {o} \subseteq Named(requests) /\ {o} \in SUBSET Orders
  BY TakeFacts, NamesFacts

LEMMA ServeLife ==
  ASSUME TypeOK, OrdersInv, Serve
  PROVE  LifeStep
  <1>1. ASSUME NEW o \in Orders, NEW st \in {"open", "filled"}, NEW part \in BOOLEAN, PlaceTaken(o, st, part)
        PROVE  LifeStep
    <2>1. /\ Arrive({o}, st) /\ UNCHANGED <<table, sending, doubtful>> /\ Take(Place(o))
          /\ executed' = IF part \/ st = "filled" THEN executed \cup {o} ELSE executed
      BY <1>1 DEF PlaceTaken, Handled, tableVars
    <2>2. /\ executed \subseteq executed' /\ executed' \subseteq executed \cup {o}
          /\ st = "filled" => {o} \subseteq executed'
          /\ doubtful \subseteq doubtful' /\ doubtful' \subseteq doubtful \cup {o}
      BY <2>1
    <2>3. QED
      BY <2>1, <2>2, NamedOne, ArrivedLife
  <1>2. ASSUME NEW o \in Orders, PlaceRefused(o) PROVE LifeStep
    BY <1>2, StillLife DEF PlaceRefused, Handled, tableVars
  <1>3. ASSUME NEW o \in Orders, NEW arrived \in BOOLEAN, PlaceLost(o, arrived) PROVE LifeStep
    <2>1. /\ Arrive(IF arrived THEN {o} ELSE {}, "open") /\ UNCHANGED <<table, sending, executed>>
          /\ Take(Place(o)) /\ doubtful' = doubtful \cup {o}
      BY <1>3 DEF PlaceLost, Handled, tableVars
    <2>2. {o} \subseteq Named(requests) /\ {o} \in SUBSET Orders
      BY <2>1, NamedOne
    <2>3. CASE arrived
      <3>1. Arrive({o}, "open")
        BY <2>1, <2>3
      <3>2. QED
        BY <2>1, <2>2, <3>1, ArrivedLife
    <2>4. CASE ~ arrived
      <3>1. exchange' = exchange
        BY <2>1, <2>4 DEF Arrive, TypeOK
      <3>2. QED
        BY <2>1, <2>2, <3>1, NoAnswerLife
    <2>5. QED
      BY <2>3, <2>4
  <1>4. ASSUME NEW o \in Orders, NEW works \in BOOLEAN, ServeCancel(o, works) PROVE LifeStep
    <2>1. /\ Arrive(IF works THEN {o} ELSE {}, "gone") /\ works => exchange[o] = "open"
          /\ UNCHANGED <<table, sending, executed, doubtful>>
      BY <1>4 DEF ServeCancel, Handled, tableVars
    <2>2. CASE works
      <3>1. Arrive({o}, "gone") /\ exchange[o] = "open"
        BY <1>4, <2>2 DEF ServeCancel
      <3>2. QED
        BY <2>1, <3>1, EndLife
    <2>3. CASE ~ works
      <3>1. exchange' = exchange
        <4>1. Arrive({}, "gone")
          BY <1>4, <2>3 DEF ServeCancel
        <4>2. QED
          BY <4>1 DEF Arrive, TypeOK
      <3>2. QED
        BY <2>1, <3>1, StillLife
    <2>4. QED
      BY <2>2, <2>3
  <1>5. ASSUME NEW B \in SUBSET Orders, NEW A \in SUBSET B, ServeBatch(B, A) PROVE LifeStep
    <2>1. Take(Batch(B)) /\ Arrive(A, "open") /\ UNCHANGED <<table, sending, executed, doubtful>>
      BY <1>5 DEF ServeBatch, Handled, tableVars
    <2>2. A \subseteq Named(requests) /\ A \in SUBSET Orders
      BY <2>1, TakeFacts, NamesFacts
    <2>3. QED
      BY <2>1, <2>2, ArrivedLife
  <1>6. ASSUME NEW r, ServeOther(r) PROVE LifeStep
    BY <1>6, StillLife DEF ServeOther, serverVars, tableVars
  <1>7. ASSUME NEW valid \in BOOLEAN, ServeRegister(valid) PROVE LifeStep
    BY <1>7, StillLife DEF ServeRegister, Handled, tableVars
  <1>8. ASSUME ServeUnregister PROVE LifeStep
    BY <1>8, StillLife DEF ServeUnregister, Handled, tableVars
  <1>9. ASSUME NEW outcome, NEW v, ServePositions(outcome, v) PROVE LifeStep
    BY <1>9, StillLife DEF ServePositions, serverVars, tableVars
  <1>10. QED
    BY <1>1, <1>2, <1>3, <1>4, <1>5, <1>6, <1>7, <1>8, <1>9 DEF Serve

LEMMA NextLife ==
  ASSUME TypeOK, OrdersInv, [Next]_vars
  PROVE  LifeStep
  <1>1. CASE DrainAccountReport \/ DrainOrderReport
    <2>1. sending = NoOrder /\ UNCHANGED <<sending, exchange, executed, doubtful>>
      BY <1>1 DEF DrainAccountReport, DrainOrderReport, Free, serverVars
    <2>2. PICK m : Receive(m) /\ IF m.kind = "order" THEN UpdateOrderFromReport(m.order, m.word) ELSE UNCHANGED table
      BY <1>1 DEF DrainAccountReport, DrainOrderReport, Dispatch
    <2>3. QED
      BY <2>1, <2>2, ReadLife
  <1>2. CASE NextStage
    BY <1>2, StillLife DEF NextStage, tableVars, serverVars
  <1>3. CASE Stop
    BY <1>3, StillLife DEF Stop, tableVars
  <1>4. CASE OrderCalls
    BY <1>4, CallsLife
  <1>5. CASE Record
    BY <1>5, RecordLife
  <1>6. CASE AccountCalls
    BY <1>6, StillLife DEF AccountCalls, tableVars, serverVars
  <1>7. CASE Serve
    BY <1>7, ServeLife
  <1>8. CASE Environment
    <2>1. ASSUME NEW o \in Orders, EndAtExchange(o) PROVE LifeStep
      <3>1. exchange[o] = "open" /\ Arrive({o}, "gone") /\ UNCHANGED <<table, sending, executed, doubtful>>
        BY <2>1 DEF EndAtExchange, tableVars
      <3>2. QED
        BY <3>1, EndLife
    <2>2. ASSUME NEW n \in 0 .. RequestBound, NEW A \in SUBSET Orders, Crash(n, A) PROVE LifeStep
      <3>1. A \subseteq Named(requests)
        BY <2>2, CrashFacts
      <3>2. Arrive(A, "open") /\ UNCHANGED <<table, sending, executed, doubtful>>
        BY <2>2 DEF Crash, tableVars
      <3>3. QED
        BY <3>1, <3>2, ArrivedLife
    <2>3. ASSUME NEW v \in Positions, PositionMoves(v), UNCHANGED <<tableVars, serverVars>> PROVE LifeStep
      BY <2>3, StillLife DEF tableVars, serverVars
    <2>4. QED
      BY <1>8, <2>1, <2>2, <2>3, TradeLife DEF Environment
  <1>9. CASE Joins
    BY <1>9, StillLife DEF Joins, tableVars, serverVars
  <1>10. CASE UNCHANGED vars
    BY <1>10, StillLife DEF vars, tableVars, serverVars
  <1>11. QED
    BY <1>1, <1>2, <1>3, <1>4, <1>5, <1>6, <1>7, <1>8, <1>9, <1>10 DEF Next, LoopTurn

(* The strategy's table, the channels and the server implement OrderLife:  *)
(* an order is sent once, arrives at most once and only while it is shown  *)
(* as submitted, and what is shown of it after that is not taken back.     *)
THEOREM LifeImplemented == Spec => LifeSpec
  <1>1. Init => Life!Init
    BY NoOrderAssumption DEF Init, TableInit, ServerInit, Life!Init
  <1>2. TypeOK /\ OrdersInv /\ [Next]_vars => [Life!Next]_Life!lifeVars
    BY NextLife DEF LifeStep, Life!lifeVars, ShownAll, Shown
  <1>3. QED
    BY <1>1, <1>2, SpecInv, PTL DEF Spec, LifeSpec, Life!Spec

-----------------------------------------------------------------------------
(* Orders that stay "submitted" *)

Explained(o) ==
    \/ o \in batched \cup unheard
    \/ PlaceUnderWay(o)
    \/ o \in OnBinance /\ AtExchange(o)
ExplainedInv == \A o \in Orders : Shown(o) = "submitted" => Explained(o)

(* Nothing is taken from what explains an order, the queues apart. *)
LEMMA KeepsExplained ==
  ASSUME ExplainedInv,
         \A o \in Orders : Shown(o)' = "submitted" => Shown(o) = "submitted" \/ Explained(o)',
         batched \subseteq batched', unheard \subseteq unheard',
         \A o \in Orders : exchange[o] # "none" => exchange'[o] # "none",
         \A o \in Orders : Shown(o)' = "submitted" /\ PlaceUnderWay(o) => Explained(o)'
  PROVE  ExplainedInv'
  BY DEF ExplainedInv, Explained, AtExchange

LEMMA StillExplained ==
  ASSUME ExplainedInv, UNCHANGED <<table, sending>>, batched \subseteq batched', unheard \subseteq unheard',
         \A o \in Orders : exchange[o] # "none" => exchange'[o] # "none",
         \A o \in Orders : Place(o) \in Queued(requests) => Place(o) \in Queued(requests') \/ Explained(o)',
         Queued(inbox) \subseteq Queued(inbox')
  PROVE  ExplainedInv'
  <1>1. \A o \in Orders : Shown(o)' = Shown(o)
    BY DEF Shown
  <1>2. \A o \in Orders : PlaceUnderWay(o) => Explained(o)'
    BY DEF PlaceUnderWay, Explained
  <1>3. QED
    BY <1>1, <1>2, KeepsExplained

LEMMA QueuedPush ==
  ASSUME TypeOK, NEW r \in Requests, Push(r)
  PROVE  Queued(requests') = Queued(requests) \cup {r}
  BY AppendFacts DEF TypeOK, Push

LEMMA QueuedTake ==
  ASSUME TypeOK, NEW r, Take(r)
  PROVE  Queued(requests) \subseteq Queued(requests') \cup {r}
  BY TailFacts DEF TypeOK, Take

LEMMA QueuedPublish ==
  ASSUME TypeOK, NEW m \in Messages, Publish(m)
  PROVE  /\ Queued(inbox) \subseteq Queued(inbox') /\ Queued(inbox') \subseteq Queued(inbox) \cup {m}
         /\ Delivers => m \in Queued(inbox')
  BY AppendFacts DEF TypeOK, Publish

LEMMA QueuedReceive ==
  ASSUME TypeOK, NEW m, Receive(m)
  PROVE  /\ Queued(inbox) \subseteq Queued(inbox') \cup {m} /\ Queued(inbox') \subseteq Queued(inbox)
         /\ m \in Queued(inbox) /\ m \in Messages
  BY TailFacts DEF TypeOK, Receive

LEMMA PlaceApart ==
  ASSUME NEW o, NEW r, r = Place(o)
  PROVE  r.kind = "place" /\ \A k : Place(k) = r => k = o
  BY DEF Place

(* A request that is no order of its own. *)
LEMMA OtherExplained ==
  ASSUME TypeOK, ExplainedInv, UNCHANGED <<table, sending, batched, unheard>>,
         NEW r, Take(r), r.kind # "place",
         \A o \in Orders : exchange[o] # "none" => exchange'[o] # "none",
         inbox' = inbox \/ \E m \in Messages : Publish(m)
  PROVE  ExplainedInv'
  <1>1. \A o \in Orders : Place(o) \in Queued(requests) => Place(o) \in Queued(requests')
    BY QueuedTake, PlaceApart
  <1>2. Queued(inbox) \subseteq Queued(inbox')
    BY QueuedPublish
  <1>3. batched \subseteq batched' /\ unheard \subseteq unheard'
    OBVIOUS
  <1>4. QED
    BY <1>1, <1>2, <1>3, StillExplained

LEMMA AnswerExplains ==
  ASSUME TypeOK, ExplainedInv, UNCHANGED <<table, sending, batched>>,
         NEW o \in Orders, Take(Place(o)),
         NEW w \in {"accepted", "submitted", "filled", "rejected"}, Answer(o, w),
         \A k \in Orders : exchange[k] # "none" => exchange'[k] # "none"
  PROVE  ExplainedInv'
  <1>1. Publish(Report(o, w)) /\ Report(o, w) \in Messages
          /\ unheard' = IF Delivers THEN unheard ELSE unheard \cup {o}
    BY ReportFacts DEF Answer
  <1>2. Queued(inbox) \subseteq Queued(inbox') /\ (Delivers => Report(o, w) \in Queued(inbox'))
    BY <1>1, QueuedPublish
  <1>3. Explained(o)'
    <2>1. CASE Delivers
      <3>1. Report(o, w) \in Queued(inbox') /\ Report(o, w).kind = "order" /\ Report(o, w).order = o
        BY <1>2, <2>1, ReportFacts
      <3>2. QED
        BY <3>1 DEF Explained, PlaceUnderWay
    <2>2. CASE ~ Delivers
      BY <1>1, <2>2 DEF Explained
    <2>3. QED
      BY <2>1, <2>2
  <1>4. \A k \in Orders : Place(k) \in Queued(requests) => Place(k) \in Queued(requests') \/ k = o
    BY QueuedTake, PlaceApart
  <1>5. batched \subseteq batched' /\ unheard \subseteq unheard'
    BY <1>1
  <1>6. QED
    BY <1>2, <1>3, <1>4, <1>5, StillExplained

LEMMA ServeExplained ==
  ASSUME TypeOK, OrdersInv, ExplainedInv, Serve
  PROVE  ExplainedInv'
  <1>0. ASSUME NEW A \in SUBSET Orders, NEW st \in {"open", "filled", "gone"}, Arrive(A, st)
        PROVE  \A o \in Orders : exchange[o] # "none" => exchange'[o] # "none"
    BY <1>0 DEF Arrive
  <1>1. ASSUME NEW o \in Orders, NEW st \in {"open", "filled"}, NEW part \in BOOLEAN, PlaceTaken(o, st, part)
        PROVE  ExplainedInv'
    <2>1. PICK w \in {"accepted", "submitted", "filled", "rejected"} : Answer(o, w)
      BY <1>1 DEF PlaceTaken
    <2>2. Take(Place(o)) /\ Arrive({o}, st) /\ UNCHANGED <<table, sending, batched>>
      BY <1>1 DEF PlaceTaken, Handled, tableVars
    <2>3. \A k \in Orders : exchange[k] # "none" => exchange'[k] # "none"
      BY <1>0, <2>2
    <2>4. QED
      BY <2>1, <2>2, <2>3, AnswerExplains
  <1>2. ASSUME NEW o \in Orders, PlaceRefused(o) PROVE ExplainedInv'
    BY <1>2, AnswerExplains DEF PlaceRefused, Handled, tableVars
  <1>3. ASSUME NEW o \in Orders, NEW arrived \in BOOLEAN, PlaceLost(o, arrived) PROVE ExplainedInv'
    <2>1. Take(Place(o)) /\ Answer(o, "rejected") /\ UNCHANGED <<table, sending, batched>>
      BY <1>3 DEF PlaceLost, Handled, tableVars
    <2>2. \A k \in Orders : exchange[k] # "none" => exchange'[k] # "none"
      BY <1>3 DEF PlaceLost, Arrive
    <2>3. QED
      BY <2>1, <2>2, AnswerExplains
  <1>4. ASSUME NEW o \in Orders, NEW works \in BOOLEAN, ServeCancel(o, works) PROVE ExplainedInv'
    <2>1. Take(Cancel(o)) /\ Publish(OtherReport) /\ UNCHANGED <<table, sending, batched, unheard>>
      BY <1>4 DEF ServeCancel, Handled, tableVars
    <2>2. \A k \in Orders : exchange[k] # "none" => exchange'[k] # "none"
      BY <1>4 DEF ServeCancel, Arrive
    <2>3. Cancel(o).kind # "place" /\ OtherReport \in Messages
      BY MessagesFacts DEF Cancel
    <2>4. QED
      BY <2>1, <2>2, <2>3, OtherExplained
  <1>5. ASSUME NEW B \in SUBSET Orders, NEW A \in SUBSET B, ServeBatch(B, A) PROVE ExplainedInv'
    <2>1. Take(Batch(B)) /\ Publish(OtherReport) /\ UNCHANGED <<table, sending, batched, unheard>>
      BY <1>5 DEF ServeBatch, Handled, tableVars
    <2>2. \A k \in Orders : exchange[k] # "none" => exchange'[k] # "none"
      BY <1>5 DEF ServeBatch, Arrive
    <2>3. Batch(B).kind # "place" /\ OtherReport \in Messages
      BY MessagesFacts DEF Batch
    <2>4. QED
      BY <2>1, <2>2, <2>3, OtherExplained
  <1>6. ASSUME NEW r, ServeOther(r) PROVE ExplainedInv'
    <2>1. Take(r) /\ UNCHANGED <<table, sending, batched, unheard, exchange>>
            /\ (inbox' = inbox \/ Publish(OtherReport))
      BY <1>6 DEF ServeOther, serverVars, tableVars
    <2>2. r.kind # "place" /\ OtherReport \in Messages
      BY <1>6, MessagesFacts DEF ServeOther, ChangeLeverage, CancelAll, Ask
    <2>3. QED
      BY <2>1, <2>2, OtherExplained
  <1>7. ASSUME NEW valid \in BOOLEAN, ServeRegister(valid) PROVE ExplainedInv'
    <2>1. Take(Ask("register")) /\ UNCHANGED <<table, sending, batched, unheard, exchange>>
      BY <1>7 DEF ServeRegister, Handled, tableVars
    <2>2. \E s \in {"registered", "rejected"} : Publish(AccountReport("register", s))
      BY <1>7 DEF ServeRegister
    <2>3. Ask("register").kind # "place"
      BY DEF Ask
    <2>4. QED
      BY <2>1, <2>2, <2>3, OtherExplained, MessagesFacts
  <1>8. ASSUME ServeUnregister PROVE ExplainedInv'
    <2>1. Take(Ask("unregister")) /\ UNCHANGED <<table, sending, batched, unheard, exchange>>
      BY <1>8 DEF ServeUnregister, Handled, tableVars
    <2>2. \E s \in {"unregistered", "rejected"} : Publish(AccountReport("unregister", s))
      BY <1>8 DEF ServeUnregister
    <2>3. Ask("unregister").kind # "place"
      BY DEF Ask
    <2>4. QED
      BY <2>1, <2>2, <2>3, OtherExplained, MessagesFacts
  <1>9. ASSUME NEW outcome, NEW v \in Positions \ {0}, ServePositions(outcome, v) PROVE ExplainedInv'
    <2>1. Take(Ask("query_positions")) /\ UNCHANGED <<table, sending, batched, unheard, exchange>>
      BY <1>9 DEF ServePositions, serverVars, tableVars
    <2>2. inbox' = inbox \/ \E m \in Messages : Publish(m)
      <3>1. 0 \in Positions /\ held \in Positions /\ v \in Positions
        BY MaxPositionAssumption DEF TypeOK, Positions
      <3>2. QED
        BY <1>9, <3>1, MessagesFacts DEF ServePositions
    <2>3. Ask("query_positions").kind # "place"
      BY DEF Ask
    <2>4. QED
      BY <2>1, <2>2, <2>3, OtherExplained
  <1>10. QED
    BY <1>1, <1>2, <1>3, <1>4, <1>5, <1>6, <1>7, <1>8, <1>9 DEF Serve

LEMMA ReadExplained ==
  ASSUME TypeOK, OrdersInv, ExplainedInv, sending = NoOrder, NEW m, Receive(m),
         IF m.kind = "order" THEN UpdateOrderFromReport(m.order, m.word) ELSE UNCHANGED table,
         UNCHANGED <<requests, sending, batched, unheard, exchange>>
  PROVE  ExplainedInv'
  <1>1. Queued(inbox) \subseteq Queued(inbox') \cup {m}
    BY QueuedReceive
  <1>2. CASE m.kind # "order"
    <2>1. \A o \in Orders : PlaceUnderWay(o) => PlaceUnderWay(o)'
      BY <1>1, <1>2 DEF PlaceUnderWay
    <2>2. \A o \in Orders : Shown(o)' = Shown(o)
      BY <1>2 DEF Shown
    <2>3. QED
      BY <2>1, <2>2 DEF ExplainedInv, Explained, AtExchange
  <1>3. CASE m.kind = "order"
    <2>1. /\ m.order \in Orders /\ table[m.order] = "submitted" /\ TrueWord(m.order, m.word)
          /\ table' = [table EXCEPT ![m.order] = m.word]
      BY <1>3, ReadFacts
    <2>2. DOMAIN table = Orders
      BY DEF TypeOK
    <2>3. \A o \in Orders : Shown(o) = table[o] /\ Shown(o)' = table'[o]
      BY NoOrderAssumption DEF Shown
    <2>4. ASSUME NEW o \in Orders, o # m.order, Shown(o)' = "submitted" PROVE Explained(o)'
      <3>1. Shown(o) = "submitted"
        BY <2>1, <2>2, <2>3, <2>4
      <3>2. PlaceUnderWay(o) => PlaceUnderWay(o)'
        BY <1>1, <2>4 DEF PlaceUnderWay
      <3>3. QED
        BY <3>1, <3>2 DEF ExplainedInv, Explained, AtExchange
    <2>5. ASSUME Shown(m.order)' = "submitted" PROVE Explained(m.order)'
      <3>1. m.word = "submitted"
        BY <2>1, <2>2, <2>3, <2>5
      <3>2. QED
        BY <2>1, <3>1 DEF TrueWord, Explained, AtExchange
    <2>6. QED
      BY <2>4, <2>5 DEF ExplainedInv
  <1>4. QED
    BY <1>2, <1>3

LEMMA CallsExplained ==
  ASSUME TypeOK, ExplainedInv, OrderCalls
  PROVE  ExplainedInv'
  <1>1. UNCHANGED <<exchange, unheard, inbox>>
    BY DEF OrderCalls, serverVars, SendSwapMarketOrder, SendSwapTpSlOrder, SendSwapAdvancedOrder,
       SendBinanceMarketWithPrice, SendBinanceFuturesOrder, SendOrder, CancelOrder, SendBatchOrders,
       CancelAllOrders, LeverageRequest
  <1>2. \A r \in Requests : Push(r) => Queued(requests) \subseteq Queued(requests')
    BY QueuedPush
  <1>3. ASSUME NEW o \in Orders, SendOrder(o) PROVE ExplainedInv'
    <2>1. Push(Place(o)) /\ Place(o) \in Requests /\ sending = NoOrder /\ sending' = o /\ UNCHANGED <<table, batched>>
      BY <1>3 DEF SendOrder, Requests
    <2>2. Place(o) \in Queued(requests') /\ Queued(requests) \subseteq Queued(requests')
      BY <2>1, QueuedPush
    <2>3. \A k \in Orders : k # o => Shown(k)' = Shown(k)
      BY <2>1, NoOrderAssumption DEF Shown
    <2>4. \A k \in Orders : PlaceUnderWay(k) => PlaceUnderWay(k)'
      BY <1>1, <2>2 DEF PlaceUnderWay
    <2>5. PlaceUnderWay(o)'
      BY <2>2 DEF PlaceUnderWay
    <2>6. QED
      BY <1>1, <2>1, <2>3, <2>4, <2>5 DEF ExplainedInv, Explained, AtExchange
  <1>4. ASSUME NEW B \in SUBSET Orders, SendBatchOrders(B) PROVE ExplainedInv'
    <2>1. /\ Push(Batch(B)) \/ requests' = requests
          /\ sending = NoOrder /\ sending' = NoOrder /\ batched' = batched \cup B
          /\ table' = [k \in Orders |-> IF k \in B THEN "submitted" ELSE table[k]]
      BY <1>4 DEF SendBatchOrders, Submitted
    <2>2. Queued(requests) \subseteq Queued(requests')
      <3>1. Batch(B) \in Requests
        BY DEF Requests
      <3>2. QED
        BY <1>2, <2>1, <3>1
    <2>3. \A k \in Orders \ B : Shown(k)' = Shown(k)
      BY <2>1, NoOrderAssumption DEF Shown
    <2>4. \A k \in Orders : PlaceUnderWay(k) => PlaceUnderWay(k)'
      BY <1>1, <2>2 DEF PlaceUnderWay
    <2>5. QED
      BY <1>1, <2>1, <2>3, <2>4 DEF ExplainedInv, Explained, AtExchange
  <1>5. ASSUME NEW r \in Requests, Push(r), UNCHANGED tableVars PROVE ExplainedInv'
    <2>1. Queued(requests) \subseteq Queued(requests') /\ UNCHANGED <<table, sending, batched>>
      BY <1>2, <1>5 DEF tableVars
    <2>2. QED
      BY <1>1, <2>1, StillExplained
  <1>6. \A o \in Orders : Cancel(o) \in Requests
    BY DEF Requests
  <1>7. CancelAll \in Requests /\ ChangeLeverage \in Requests
    BY DEF Requests
  <1>8. QED
    BY <1>3, <1>4, <1>5, <1>6, <1>7
    DEF OrderCalls, SendSwapMarketOrder, SendSwapTpSlOrder, SendSwapAdvancedOrder,
        SendBinanceMarketWithPrice, SendBinanceFuturesOrder, CancelOrder, CancelAllOrders, LeverageRequest

LEMMA NextExplained ==
  ASSUME TypeOK, OrdersInv, ExplainedInv, [Next]_vars
  PROVE  ExplainedInv'
  <1>1. CASE DrainAccountReport \/ DrainOrderReport
    <2>1. sending = NoOrder /\ UNCHANGED <<requests, sending, batched, unheard, exchange>>
      BY <1>1 DEF DrainAccountReport, DrainOrderReport, Free, serverVars
    <2>2. PICK m : Receive(m) /\ IF m.kind = "order" THEN UpdateOrderFromReport(m.order, m.word) ELSE UNCHANGED table
      BY <1>1 DEF DrainAccountReport, DrainOrderReport, Dispatch
    <2>3. QED
      BY <2>1, <2>2, ReadExplained
  <1>2. CASE NextStage \/ Joins \/ UNCHANGED vars
    <2>1. UNCHANGED <<requests, inbox, table, sending, batched, unheard, exchange>>
      BY <1>2 DEF NextStage, Joins, Join, vars, channelVars, tableVars, serverVars
    <2>2. QED
      BY <2>1, StillExplained
  <1>3. CASE Stop
    <2>1. /\ sending = NoOrder /\ UNCHANGED <<table, sending>>
          /\ unheard' = unheard \cup {o \in Orders : table[o] = "submitted"}
      BY <1>3 DEF Stop, Free, tableVars
    <2>2. \A o \in Orders : Shown(o)' = "submitted" => o \in unheard'
      BY <2>1, NoOrderAssumption DEF Shown
    <2>3. QED
      BY <2>2 DEF ExplainedInv, Explained
  <1>4. CASE OrderCalls
    BY <1>4, CallsExplained
  <1>5. CASE Record
    <2>1. /\ sending \in Orders /\ sending' = NoOrder
          /\ table' = [k \in Orders |-> IF k = sending THEN "submitted" ELSE table[k]]
          /\ UNCHANGED <<requests, inbox, batched, unheard, exchange>>
      BY <1>5 DEF Record, RecordOrder, Submitted, TypeOK, serverVars, channelVars
    <2>2. \A o \in Orders : Shown(o)' = Shown(o)
      BY <2>1, NoOrderAssumption DEF Shown
    <2>3. \A o \in Orders : PlaceUnderWay(o)' = PlaceUnderWay(o)
      BY <2>1 DEF PlaceUnderWay
    <2>4. QED
      BY <2>1, <2>2, <2>3 DEF ExplainedInv, Explained, AtExchange
  <1>6. CASE AccountCalls
    <2>1. UNCHANGED <<table, sending, batched, unheard, exchange>>
      BY <1>6 DEF AccountCalls, tableVars, serverVars
    <2>2. inbox' = inbox
      BY <1>6 DEF AccountCalls, RegisterAccount, UnregisterAccount, RefreshAccount, RefreshPositions, ClearPositions,
         channelVars
    <2>3. requests' = requests \/ \E k \in {"register", "unregister", "query_account", "query_positions"} : Push(Ask(k))
      BY <1>6 DEF AccountCalls, RegisterAccount, UnregisterAccount, RefreshAccount, RefreshPositions, ClearPositions,
             channelVars
    <2>4. \A k \in {"register", "unregister", "query_account", "query_positions"} : Ask(k) \in Requests
      BY DEF Requests
    <2>5. Queued(requests) \subseteq Queued(requests')
      BY <2>3, <2>4, QueuedPush
    <2>6. QED
      BY <2>1, <2>2, <2>5, StillExplained
  <1>7. CASE Serve
    BY <1>7, ServeExplained
  <1>8. CASE Environment
    <2>1. ASSUME NEW o \in Orders, NEW all \in BOOLEAN, Trade(o, all) \/ EndAtExchange(o) PROVE ExplainedInv'
      <3>1. UNCHANGED <<requests, inbox, table, sending, batched, unheard>>
        BY <2>1 DEF Trade, EndAtExchange, tableVars, channelVars
      <3>2. \A k \in Orders : exchange[k] # "none" => exchange'[k] # "none"
        BY <2>1 DEF Trade, EndAtExchange, Arrive, TypeOK
      <3>3. QED
        BY <3>1, <3>2, StillExplained
    <2>2. ASSUME NEW n \in 0 .. RequestBound, NEW A \in SUBSET Orders, Crash(n, A) PROVE ExplainedInv'
      <3>1. /\ UNCHANGED <<table, sending, batched, inbox>>
            /\ unheard' = unheard \cup UNION {requests[i].orders : i \in 1 .. n}
            /\ requests' = Drop(requests, n)
        BY <2>2 DEF Crash, tableVars, Drop
      <3>2. requests \in Seq(Requests) /\ Once(requests) /\ n \in 0 .. Len(requests)
        BY <2>2, CrashFacts DEF TypeOK, OrdersInv
      <3>3. \A r \in Queued(requests) : r \in Queued(Drop(requests, n)) \/ \E i \in 1 .. n : r = requests[i]
        BY <3>2, DropFacts
      <3>4. ASSUME NEW o \in Orders, Place(o) \in Queued(requests)
            PROVE  Place(o) \in Queued(requests') \/ Explained(o)'
        <4>1. CASE \E i \in 1 .. n : Place(o) = requests[i]
          <5>1. o \in Place(o).orders
            BY DEF Place
          <5>2. o \in unheard'
            BY <3>1, <4>1, <5>1
          <5>3. QED
            BY <5>2 DEF Explained
        <4>2. QED
          BY <3>1, <3>3, <3>4, <4>1
      <3>5. \A k \in Orders : exchange[k] # "none" => exchange'[k] # "none"
        BY <2>2 DEF Crash, Arrive
      <3>6. unheard \subseteq unheard' /\ batched \subseteq batched' /\ Queued(inbox) \subseteq Queued(inbox')
        BY <3>1
      <3>7. QED
        BY <3>1, <3>4, <3>5, <3>6, StillExplained
    <2>3. ASSUME NEW v \in Positions, PositionMoves(v), UNCHANGED <<tableVars, serverVars>> PROVE ExplainedInv'
      <3>1. UNCHANGED <<requests, inbox, table, sending, batched, unheard, exchange>>
        BY <2>3 DEF PositionMoves, channelVars, tableVars, serverVars
      <3>2. QED
        BY <3>1, StillExplained
    <2>4. QED
      BY <1>8, <2>1, <2>2, <2>3 DEF Environment
  <1>9. QED
    BY <1>1, <1>2, <1>3, <1>4, <1>5, <1>6, <1>7, <1>8 DEF Next, LoopTurn

(* An entry that stands at "submitted" in active_orders_ has one of the    *)
(* reasons SubmittedExplained lists.                                       *)
THEOREM SubmittedReasons == Spec => []SubmittedExplained
  <1>1. Init => ExplainedInv
    BY NoOrderAssumption DEF Init, TableInit, ExplainedInv, Shown
  <1>2. TypeOK /\ OrdersInv /\ ExplainedInv /\ [Next]_vars => ExplainedInv'
    BY NextExplained
  <1>3. OrdersInv /\ ExplainedInv => SubmittedExplained
    <2> SUFFICES ASSUME OrdersInv, ExplainedInv, NEW o \in Orders, table[o] = "submitted" PROVE Explained(o)
      BY DEF SubmittedExplained, Explained
    <2>1. Shown(o) = "submitted"
      BY DEF OrdersInv, Shown
    <2>2. QED
      BY <2>1 DEF ExplainedInv
  <1>4. QED
    BY <1>1, <1>2, <1>3, SpecInv, PTL DEF Spec

-----------------------------------------------------------------------------
(* The strategy's view of its position *)

(* Answers that wait tell a position held since the table was cleared, and *)
(* so does the table once an answer came.                                  *)
ViewInv ==
    /\ held \in heldSince
    /\ \A m \in Queued(inbox) : m.kind = "position_update" /\ m.cached => m.value # 0
    /\ clean =>
         /\ \A m \in Queued(inbox) :
               m.kind = "position_update" /\ m.form = "fine" /\ ~ m.cached => m.value \in heldSince
         /\ ~ viewCached /\ view # 0 => view \in heldSince
         /\ ~ viewCached /\ queryDone /\ ~ queryError => view \in heldSince

SameView == UNCHANGED <<view, queryDone, queryError, held, heldSince, clean, viewCached>>

LEMMA StillView ==
  ASSUME ViewInv, SameView,
         \A m \in Queued(inbox') : m \in Queued(inbox) \/ m.kind # "position_update"
  PROVE  ViewInv'
  BY DEF ViewInv, SameView

LEMMA ServeView ==
  ASSUME TypeOK, ViewInv, Serve
  PROVE  ViewInv'
  <1>1. ASSUME NEW o \in Orders, NEW w \in {"accepted", "submitted", "filled", "rejected"}, Answer(o, w), SameView
        PROVE  ViewInv'
    <2>1. Publish(Report(o, w)) /\ Report(o, w) \in Messages /\ Report(o, w).kind # "position_update"
      BY <1>1, ReportFacts DEF Answer
    <2>2. QED
      BY <1>1, <2>1, QueuedPublish, StillView
  <1>2. ASSUME NEW m \in Messages, m.kind # "position_update", Publish(m), SameView PROVE ViewInv'
    BY <1>2, QueuedPublish, StillView
  <1>3. OtherReport \in Messages /\ OtherReport.kind # "position_update"
    BY MessagesFacts DEF OtherReport
  <1>4. ASSUME NEW o \in Orders, NEW st \in {"open", "filled"}, NEW part \in BOOLEAN, PlaceTaken(o, st, part)
        PROVE  ViewInv'
    <2>1. PICK w \in {"accepted", "submitted", "filled", "rejected"} : Answer(o, w)
      BY <1>4 DEF PlaceTaken
    <2>2. SameView
      BY <1>4 DEF PlaceTaken, Handled, accountVars, SameView
    <2>3. QED
      BY <1>1, <2>1, <2>2
  <1>5. ASSUME NEW o \in Orders, PlaceRefused(o) PROVE ViewInv'
    BY <1>1, <1>5 DEF PlaceRefused, Handled, accountVars, SameView
  <1>6. ASSUME NEW o \in Orders, NEW arrived \in BOOLEAN, PlaceLost(o, arrived) PROVE ViewInv'
    BY <1>1, <1>6 DEF PlaceLost, Handled, accountVars, SameView
  <1>7. ASSUME NEW o \in Orders, NEW works \in BOOLEAN, ServeCancel(o, works) PROVE ViewInv'
    BY <1>2, <1>3, <1>7 DEF ServeCancel, Handled, accountVars, SameView
  <1>8. ASSUME NEW B \in SUBSET Orders, NEW A \in SUBSET B, ServeBatch(B, A) PROVE ViewInv'
    BY <1>2, <1>3, <1>8 DEF ServeBatch, Handled, accountVars, SameView
  <1>9. ASSUME NEW r, ServeOther(r) PROVE ViewInv'
    <2>1. SameView /\ (inbox' = inbox \/ Publish(OtherReport))
      BY <1>9 DEF ServeOther, accountVars, SameView
    <2>2. QED
      BY <1>2, <1>3, <2>1, StillView
  <1>10. ASSUME NEW valid \in BOOLEAN, ServeRegister(valid) PROVE ViewInv'
    <2>1. PICK s \in {"registered", "rejected"} : Publish(AccountReport("register", s))
      BY <1>10 DEF ServeRegister
    <2>2. AccountReport("register", s) \in Messages /\ AccountReport("register", s).kind # "position_update"
      BY MessagesFacts DEF AccountReport
    <2>3. QED
      BY <1>2, <1>10, <2>1, <2>2 DEF ServeRegister, Handled, accountVars, SameView
  <1>11. ASSUME ServeUnregister PROVE ViewInv'
    <2>1. PICK s \in {"unregistered", "rejected"} : Publish(AccountReport("unregister", s))
      BY <1>11 DEF ServeUnregister
    <2>2. AccountReport("unregister", s) \in Messages /\ AccountReport("unregister", s).kind # "position_update"
      BY MessagesFacts DEF AccountReport
    <2>3. QED
      BY <1>2, <1>11, <2>1, <2>2 DEF ServeUnregister, Handled, accountVars, SameView
  <1>12. ASSUME NEW outcome, NEW v \in Positions \ {0}, ServePositions(outcome, v) PROVE ViewInv'
    <2>1. 0 \in Positions /\ held \in Positions /\ v \in Positions /\ v # 0 /\ SameView
      BY <1>12, MaxPositionAssumption DEF TypeOK, Positions, ServePositions, accountVars, SameView
    <2>2. CASE inbox' = inbox
      BY <2>1, <2>2, StillView
    <2>3. ASSUME NEW f \in {"error", "garbled", "fine"}, NEW x \in Positions, NEW c \in BOOLEAN,
                 Publish(PositionReport(f, x, c)), c => x # 0, f = "fine" /\ ~ c => x = held
          PROVE  ViewInv'
      <3>1. Queued(inbox') \subseteq Queued(inbox) \cup {PositionReport(f, x, c)}
        BY <2>3, QueuedPublish, MessagesFacts
      <3>2. PositionReport(f, x, c).form = f /\ PositionReport(f, x, c).value = x /\ PositionReport(f, x, c).cached = c
        BY DEF PositionReport
      <3>3. QED
        BY <2>1, <2>3, <3>1, <3>2 DEF ViewInv, SameView
    <2>4. \/ inbox' = inbox
          \/ Publish(PositionReport("error", 0, FALSE))
          \/ Publish(PositionReport("garbled", held, FALSE))
          \/ Publish(PositionReport("fine", held, FALSE))
          \/ Publish(PositionReport("fine", v, TRUE))
      BY <1>12 DEF ServePositions
    <2>5. QED
      BY <2>1, <2>2, <2>3, <2>4
  <1>13. QED
    BY <1>4, <1>5, <1>6, <1>7, <1>8, <1>9, <1>10, <1>11, <1>12 DEF Serve

LEMMA DrainView ==
  ASSUME TypeOK, ViewInv, DrainAccountReport \/ DrainOrderReport
  PROVE  ViewInv'
  <1>1. PICK m : /\ Receive(m)
                 /\ \/ UNCHANGED accountVars
                    \/ m.kind \in {"register", "unregister"} /\ HandleRegisterReport(m)
                    \/ m.kind = "position_update" /\ HandlePositionUpdate(m)
    BY DEF DrainAccountReport, DrainOrderReport, Dispatch
  <1>2. Queued(inbox') \subseteq Queued(inbox) /\ m \in Queued(inbox) /\ m \in Messages
    BY <1>1, QueuedReceive
  <1>3. CASE UNCHANGED accountVars \/ HandleRegisterReport(m)
    BY <1>2, <1>3, StillView DEF accountVars, HandleRegisterReport, SameView
  <1>4. CASE m.kind = "position_update" /\ HandlePositionUpdate(m)
    <2>1. /\ queryDone' = (queryDone \/ m.form # "garbled") /\ queryError' = (queryError \/ m.form = "error")
          /\ UNCHANGED <<held, heldSince, clean>>
      BY <1>4 DEF HandlePositionUpdate
    <2>2. m.cached \in BOOLEAN /\ m.form \in {"error", "garbled", "fine"}
      BY <1>2, <1>4, PositionMessages
    <2>3. CASE m.form = "fine" /\ m.value # 0
      <3>1. view' = m.value /\ viewCached' = m.cached
        BY <1>4, <2>3 DEF HandlePositionUpdate
      <3>2. clean /\ ~ m.cached => m.value \in heldSince
        BY <1>2, <1>4, <2>3 DEF ViewInv
      <3>3. QED
        BY <1>2, <2>1, <2>2, <3>1, <3>2 DEF ViewInv
    <2>4. CASE ~ (m.form = "fine" /\ m.value # 0)
      <3>1. UNCHANGED <<view, viewCached>>
        BY <1>4, <2>4 DEF HandlePositionUpdate
      <3>2. clean /\ m.form = "fine" /\ view = 0 => view \in heldSince
        BY <1>2, <1>4, <2>2, <2>4 DEF ViewInv
      <3>3. QED
        BY <1>2, <2>1, <2>2, <3>1, <3>2 DEF ViewInv
    <2>5. QED
      BY <2>3, <2>4
  <1>5. QED
    BY <1>1, <1>3, <1>4

LEMMA NextView ==
  ASSUME TypeOK, ViewInv, [Next]_vars
  PROVE  ViewInv'
  <1>1. CASE DrainAccountReport \/ DrainOrderReport
    BY <1>1, DrainView
  <1>2. CASE Serve
    BY <1>2, ServeView
  <1>3. CASE Stop
    <2>1. Queued(inbox') = {}
      BY <1>3, EmptySeq DEF Stop, Queued
    <2>2. QED
      BY <1>3, <2>1, StillView DEF Stop, accountVars, SameView
  <1>4. CASE OrderCalls
    <2>1. inbox' = inbox
      BY <1>4 DEF OrderCalls, SendSwapMarketOrder, SendSwapTpSlOrder, SendSwapAdvancedOrder,
         SendBinanceMarketWithPrice, SendBinanceFuturesOrder, SendOrder, CancelOrder, SendBatchOrders,
         CancelAllOrders, LeverageRequest
    <2>2. QED
      BY <1>4, <2>1, StillView DEF OrderCalls, accountVars, SameView
  <1>5. CASE NextStage \/ Record \/ Joins \/ UNCHANGED vars
    <2>1. inbox' = inbox /\ UNCHANGED accountVars
      BY <1>5 DEF NextStage, Record, RecordOrder, Joins, Join, vars, channelVars
    <2>2. QED
      BY <2>1, StillView DEF accountVars, SameView
  <1>6. CASE AccountCalls
    <2>1. inbox' = inbox
      BY <1>6 DEF AccountCalls, RegisterAccount, UnregisterAccount, RefreshAccount, RefreshPositions, ClearPositions,
         channelVars
    <2>2. CASE ClearPositions
      <3>1. /\ view' = 0 /\ queryDone' = FALSE /\ heldSince' = {held} /\ held' = held
            /\ clean' = ~ QueryUnderWay
        BY <2>2 DEF ClearPositions
      <3>2. clean' => \A m \in Queued(inbox) : m.kind # "position_update"
        BY <3>1 DEF QueryUnderWay
      <3>3. held' \in heldSince'
        BY <3>1
      <3>4. QED
        BY <2>1, <3>1, <3>2, <3>3 DEF ViewInv
    <2>3. CASE RegisterAccount \/ RefreshAccount \/ RefreshPositions \/ UnregisterAccount
      <3>1. SameView
        BY <2>3 DEF RegisterAccount, RefreshAccount, RefreshPositions, UnregisterAccount, accountVars, SameView
      <3>2. QED
        BY <2>1, <3>1, StillView
    <2>4. QED
      BY <1>6, <2>2, <2>3 DEF AccountCalls
  <1>7. CASE Environment
    <2>1. ASSUME NEW v, PositionMoves(v) PROVE ViewInv'
      <3>1. /\ held' = v /\ heldSince' = heldSince \cup {v} /\ inbox' = inbox
            /\ UNCHANGED <<view, queryDone, queryError, clean, viewCached>>
        BY <2>1 DEF PositionMoves, channelVars
      <3>2. QED
        BY <3>1 DEF ViewInv
    <2>2. ASSUME NEW o, NEW all, Trade(o, all) PROVE ViewInv'
      BY <2>2, StillView DEF Trade, channelVars, accountVars, SameView
    <2>3. ASSUME NEW o, EndAtExchange(o) PROVE ViewInv'
      BY <2>3, StillView DEF EndAtExchange, channelVars, accountVars, SameView
    <2>4. ASSUME NEW n, NEW A, Crash(n, A) PROVE ViewInv'
      BY <2>4, StillView DEF Crash, accountVars, SameView
    <2>5. QED
      BY <1>7, <2>1, <2>2, <2>3, <2>4 DEF Environment
  <1>8. QED
    BY <1>1, <1>2, <1>3, <1>4, <1>5, <1>6, <1>7 DEF Next, LoopTurn

(* A refresh of the positions (account_module.h) that is done without      *)
(* error shows a position held since the table was cleared, with the       *)
(* exceptions RefreshedViewFresh names.                                    *)
THEOREM ViewFresh == Spec => []RefreshedViewFresh
  <1>1. Init => ViewInv
    <2> SUFFICES ASSUME Init PROVE ViewInv
      OBVIOUS
    <2>1. held = 0 /\ heldSince = {0} /\ view = 0 /\ queryDone = FALSE
      BY DEF Init, AccountInit
    <2>2. Queued(inbox) = {}
      BY EmptySeq DEF Init, ChannelInit, Queued
    <2>3. QED
      BY <2>1, <2>2 DEF ViewInv
  <1>2. TypeOK /\ ViewInv /\ [Next]_vars => ViewInv'
    BY NextView
  <1>3. ViewInv => RefreshedViewFresh
    BY DEF ViewInv, RefreshedViewFresh
  <1>4. QED
    BY <1>1, <1>2, <1>3, SpecInv, PTL DEF Spec

-----------------------------------------------------------------------------
(* Tasks *)

Entries == [next : Nat, on : BOOLEAN, kind : {"none", "task", "ghost"}]
Rounds == [waiting : SUBSET Tasks, running : Tasks \cup {NoTask}]

Types ==
    /\ now \in Nat
    /\ tasks \in [Tasks -> Entries]
    /\ rounds \in Seq(Rounds)
    /\ scheduled \in [Tasks -> [first : Nat, owed : Nat]]
    /\ started \in [Tasks -> Nat]

WaitingIn(t) == {i \in 1 .. Len(rounds) : t \in rounds[i].waiting}

(* The calls of a task that were made or are waiting, without those that   *)
(* were waiting when it was scheduled.                                     *)
Calls(t) == started[t] + Waiting(t) - scheduled[t].owed

(* Each call was collected at its time, and the next run time is beyond    *)
(* all that were collected.                                                *)
OnTime(t) ==
    /\ Calls(t) >= 0
    /\ tasks[t].kind = "task" => scheduled[t].first + Calls(t) * Interval =< tasks[t].next
    /\ Calls(t) >= 1 => scheduled[t].first + (Calls(t) - 1) * Interval =< now

TaskInv == Types /\ \A t \in Tasks : OnTime(t)

-----------------------------------------------------------------------------
USE TaskAssumption DEF NoTask

LEMMA WaitingCounts ==
  ASSUME Types, NEW t \in Tasks
  PROVE  IsFiniteSet(WaitingIn(t)) /\ Waiting(t) = Cardinality(WaitingIn(t)) /\ Waiting(t) \in Nat
<1>1. Len(rounds) \in Nat /\ WaitingIn(t) \in SUBSET (1 .. Len(rounds))
  BY DEF Types, WaitingIn
<1>2. IsFiniteSet(WaitingIn(t))
  <2>1. IsFiniteSet(1 .. Len(rounds))
    BY <1>1, FS_Interval
  <2> QED
    BY <1>1, <2>1, FS_Subset
<1> QED
  BY <1>2, FS_CardinalityType DEF Waiting, WaitingIn

(* What a step of a round does to the stack of rounds. *)

LEMMA RoundBegins ==
  ASSUME Types, NewRound
  PROVE  /\ rounds' \in Seq(Rounds) /\ Len(rounds') = Len(rounds) + 1
         /\ \A i \in 1 .. Len(rounds) : rounds'[i] = rounds[i]
         /\ rounds'[Len(rounds) + 1].waiting = DueTasks
<1> DEFINE r == [waiting |-> DueTasks, running |-> NoTask]
<1>1. r \in Rounds /\ r.waiting = DueTasks
  BY DEF Rounds, DueTasks
<1>2. rounds' = Append(rounds, r) /\ rounds \in Seq(Rounds)
  BY DEF NewRound, Types
<1> HIDE DEF r
<1> QED
  BY <1>1, <1>2, AppendProperties

LEMMA TopChanges ==
  ASSUME Types, rounds # <<>>, NEW r \in Rounds, rounds' = [rounds EXCEPT ![Len(rounds)] = r]
  PROVE  /\ Len(rounds) \in Nat \ {0} /\ rounds' \in Seq(Rounds) /\ Len(rounds') = Len(rounds)
         /\ \A i \in 1 .. Len(rounds) : rounds'[i] = IF i = Len(rounds) THEN r ELSE rounds[i]
<1>1. rounds \in Seq(Rounds) /\ Len(rounds) \in 1 .. Len(rounds) /\ Len(rounds) \in Nat \ {0}
  BY DEF Types
<1> QED
  BY <1>1, ExceptSeq

LEMMA TopIsRound ==
  ASSUME Types, rounds # <<>>
  PROVE  Innermost \in Rounds
  BY ElementOfSeq DEF Types, Innermost

LEMMA TaskStarts ==
  ASSUME Types, NEW t \in Tasks, StartTask(t)
  PROVE  \E r \in Rounds : /\ rounds' = [rounds EXCEPT ![Len(rounds)] = r]
                           /\ r.waiting = rounds[Len(rounds)].waiting \ {t}
<1> DEFINE r == [waiting |-> Innermost.waiting \ {t}, running |-> t]
<1>1. r \in Rounds
  BY TopIsRound DEF StartTask, Rounds
<1>2. rounds' = [rounds EXCEPT ![Len(rounds)] = r] /\ r.waiting = rounds[Len(rounds)].waiting \ {t}
  BY DEF StartTask, Innermost
<1> QED
  BY <1>1, <1>2

LEMMA TaskEnds ==
  ASSUME Types, EndTask
  PROVE  \E r \in Rounds : /\ rounds' = [rounds EXCEPT ![Len(rounds)] = r]
                           /\ r.waiting = rounds[Len(rounds)].waiting
<1> DEFINE r == [Innermost EXCEPT !.running = NoTask]
<1>1. r \in Rounds /\ r.waiting = Innermost.waiting
  BY TopIsRound DEF EndTask, Rounds
<1>2. rounds' = [rounds EXCEPT ![Len(rounds)] = r]
  BY DEF EndTask, Innermost
<1> QED
  BY <1>1, <1>2 DEF Innermost

LEMMA RoundEnds ==
  ASSUME Types, EndRound
  PROVE  /\ Len(rounds) \in Nat \ {0} /\ rounds' \in Seq(Rounds) /\ Len(rounds') = Len(rounds) - 1
         /\ \A i \in 1 .. Len(rounds) - 1 : rounds'[i] = rounds[i]
         /\ rounds[Len(rounds)].waiting = {}
<1>0. Len(rounds) \in Nat \ {0}
  BY DEF EndRound, Types
<1>1. Len(rounds) \in Nat \ {0} /\ \A i \in 1 .. Len(rounds) - 1 : rounds[i] \in Rounds
  BY DEF EndRound, Types
<1>2. rounds' = SubSeq(rounds, 1, Len(rounds) - 1) /\ rounds[Len(rounds)].waiting = {}
  BY DEF EndRound, Innermost
<1>3. /\ rounds' \in Seq(Rounds)
      /\ Len(rounds') = IF 1 =< Len(rounds) - 1 THEN Len(rounds) - 1 - 1 + 1 ELSE 0
      /\ \A i \in 1 .. Len(rounds) - 1 - 1 + 1 : rounds'[i] = rounds[1 + i - 1]
  BY <1>1, <1>2, SubSeqProperties
<1>4. Len(rounds') = Len(rounds) - 1
  <2> DEFINE n == Len(rounds)
  <2> DEFINE m == Len(rounds')
  <2>1. n \in Nat \ {0} /\ m = IF 1 =< n - 1 THEN n - 1 - 1 + 1 ELSE 0
    BY <1>0, <1>3
  <2> HIDE DEF n, m
  <2>2. m = n - 1
    BY <2>1
  <2> QED
    BY <2>2 DEF n, m
<1>5. \A i \in 1 .. Len(rounds) - 1 : rounds'[i] = rounds[i]
  <2> SUFFICES ASSUME NEW i \in 1 .. Len(rounds) - 1 PROVE rounds'[i] = rounds[i]
    OBVIOUS
  <2>1. i \in 1 .. Len(rounds) - 1 - 1 + 1 /\ 1 + i - 1 = i
    BY <1>1
  <2>2. rounds'[i] = rounds[1 + i - 1]
    BY <1>3, <2>1
  <2> QED
    BY <2>1, <2>2
<1> QED
  BY <1>1, <1>2, <1>3, <1>4, <1>5

LEMMA TypesStep == Types /\ [TaskNext]_taskVars => Types'
<1> SUFFICES ASSUME Types, [TaskNext]_taskVars PROVE Types'
  OBVIOUS
<1>1. CASE Tick
  BY <1>1 DEF Tick, Types
<1>2. ASSUME NEW t \in Tasks, NEW first \in now .. MaxNow, ScheduleTask(t, first) PROVE Types'
  <2>1. first \in Nat /\ Waiting(t) \in Nat
    BY WaitingCounts DEF Types
  <2> QED
    BY <1>2, <2>1 DEF ScheduleTask, Types, Entries
<1>3. ASSUME NEW t \in Tasks, UnscheduleTask(t) PROVE Types'
  BY <1>3 DEF UnscheduleTask, Unknown, Types, Entries
<1>4. ASSUME NEW t \in Tasks, NEW on \in BOOLEAN, tasks' = [tasks EXCEPT ![t].on = on],
             UNCHANGED <<now, rounds, scheduled, started>>
      PROVE  Types'
  <2>1. tasks' \in [Tasks -> Entries]
    BY <1>4 DEF Types, Entries
  <2> QED
    BY <1>4, <2>1 DEF Types
<1>5. CASE CollectDue
  <2>1. ASSUME NEW t \in Tasks PROVE [tasks[t] EXCEPT !.next = now + Interval] \in Entries
    <3>1. now + Interval \in Nat /\ tasks[t] \in Entries
      BY DEF Types
    <3> QED
      BY <3>1 DEF Entries
  <2>2. tasks' \in [Tasks -> Entries]
    BY <1>5, <2>1 DEF CollectDue, Due, Types
  <2> QED
    BY <1>5, <2>2, RoundBegins DEF CollectDue, NewRound, Types
<1>6. ASSUME NEW t \in Tasks, StartTask(t) PROVE Types'
  <2>1. rounds' \in Seq(Rounds)
    BY <1>6, TaskStarts, TopChanges DEF StartTask
  <2>2. tasks' \in [Tasks -> Entries]
    BY <1>6 DEF StartTask, Ghost, Types, Entries
  <2>3. started' \in [Tasks -> Nat]
    <3>1. started \in [Tasks -> Nat] /\ started[t] + 1 \in Nat
      BY DEF Types
    <3> QED
      BY <1>6, <3>1 DEF StartTask
  <2>4. now' = now /\ scheduled' = scheduled
    BY <1>6 DEF StartTask
  <2> QED
    BY <2>1, <2>2, <2>3, <2>4 DEF Types
<1>7. CASE EndTask
  <2>1. rounds' \in Seq(Rounds)
    BY <1>7, TaskEnds, TopChanges DEF EndTask
  <2> QED
    BY <1>7, <2>1 DEF EndTask, Types
<1>8. CASE EndRound
  BY <1>8, RoundEnds DEF EndRound, Types
<1>9. CASE UNCHANGED taskVars
  BY <1>9 DEF taskVars, Types
<1>10. ASSUME NEW t \in Tasks, PauseTask(t) \/ ResumeTask(t) PROVE Types'
  BY <1>4, <1>10 DEF PauseTask, ResumeTask
<1> QED
  BY <1>1, <1>2, <1>3, <1>5, <1>6, <1>7, <1>8, <1>9, <1>10 DEF TaskNext, StrategyCalls, Round

-----------------------------------------------------------------------------
(* How many calls are waiting after each step of a round. *)

LEMMA WaitingPrimed ==
  ASSUME NEW t
  PROVE  Waiting(t)' = Cardinality({i \in 1 .. Len(rounds') : t \in rounds'[i].waiting})
  BY DEF Waiting

LEMMA OneMore ==
  ASSUME NEW S, NEW x, IsFiniteSet(S), x \notin S
  PROVE  Cardinality(S \cup {x}) = Cardinality(S) + 1
  BY FS_AddElement

LEMMA OneLess ==
  ASSUME NEW S, NEW x, IsFiniteSet(S), x \in S
  PROVE  Cardinality(S \ {x}) = Cardinality(S) - 1
  BY FS_RemoveElement

LEMMA CollectWaiting ==
  ASSUME Types, NewRound, NEW t \in Tasks
  PROVE  Waiting(t)' = IF Due(t) THEN Waiting(t) + 1 ELSE Waiting(t)
<1> DEFINE after == {i \in 1 .. Len(rounds') : t \in rounds'[i].waiting}
<1>1. Len(rounds) \in Nat /\ (t \in DueTasks <=> Due(t))
  BY DEF Types, DueTasks
<1>2. after = IF Due(t) THEN WaitingIn(t) \cup {Len(rounds) + 1} ELSE WaitingIn(t)
  BY <1>1, RoundBegins DEF WaitingIn
<1>3. Len(rounds) + 1 \notin WaitingIn(t)
  BY <1>1 DEF WaitingIn
<1>4. Cardinality(WaitingIn(t) \cup {Len(rounds) + 1}) = Waiting(t) + 1
  <2>1. IsFiniteSet(WaitingIn(t)) /\ Cardinality(WaitingIn(t)) = Waiting(t)
    BY WaitingCounts
  <2> QED
    BY <1>3, <2>1, OneMore
<1> QED
  BY <1>2, <1>4, WaitingPrimed, WaitingCounts

LEMMA StartWaiting ==
  ASSUME Types, NEW s \in Tasks, StartTask(s), NEW t \in Tasks
  PROVE  Waiting(t)' = IF t = s THEN Waiting(t) - 1 ELSE Waiting(t)
<1> DEFINE after == {i \in 1 .. Len(rounds') : t \in rounds'[i].waiting}
<1>1. PICK r \in Rounds : rounds' = [rounds EXCEPT ![Len(rounds)] = r]
                          /\ r.waiting = rounds[Len(rounds)].waiting \ {s}
  BY TaskStarts
<1>2. /\ Len(rounds) \in Nat \ {0} /\ Len(rounds') = Len(rounds)
      /\ \A i \in 1 .. Len(rounds) : rounds'[i] = IF i = Len(rounds) THEN r ELSE rounds[i]
  BY <1>1, TopChanges DEF StartTask
<1>3. Len(rounds) \in WaitingIn(s)
  <2>1. s \in Innermost.waiting
    BY DEF StartTask
  <2>2. s \in rounds[Len(rounds)].waiting
    BY <2>1 DEF Innermost
  <2>3. Len(rounds) \in 1 .. Len(rounds)
    BY <1>2
  <2> QED
    BY <2>2, <2>3 DEF WaitingIn
<1>4. after = IF t = s THEN WaitingIn(t) \ {Len(rounds)} ELSE WaitingIn(t)
  BY <1>1, <1>2 DEF WaitingIn
<1>5. Cardinality(WaitingIn(s) \ {Len(rounds)}) = Waiting(s) - 1
  <2>1. IsFiniteSet(WaitingIn(s)) /\ Cardinality(WaitingIn(s)) = Waiting(s)
    BY WaitingCounts
  <2> QED
    BY <1>3, <2>1, OneLess
<1> QED
  BY <1>4, <1>5, WaitingPrimed, WaitingCounts

LEMMA EndWaiting ==
  ASSUME Types, EndTask \/ EndRound, NEW t \in Tasks
  PROVE  Waiting(t)' = Waiting(t)
<1> DEFINE after == {i \in 1 .. Len(rounds') : t \in rounds'[i].waiting}
<1>1. CASE EndTask
  <2>1. PICK r \in Rounds : rounds' = [rounds EXCEPT ![Len(rounds)] = r]
                            /\ r.waiting = rounds[Len(rounds)].waiting
    BY <1>1, TaskEnds
  <2>2. /\ Len(rounds') = Len(rounds)
        /\ \A i \in 1 .. Len(rounds) : rounds'[i] = IF i = Len(rounds) THEN r ELSE rounds[i]
    BY <1>1, <2>1, TopChanges DEF EndTask
  <2>3. after = WaitingIn(t)
    BY <2>1, <2>2 DEF WaitingIn
  <2> QED
    BY <2>3, WaitingPrimed, WaitingCounts
<1>2. CASE EndRound
  <2>1. after = WaitingIn(t)
    BY <1>2, RoundEnds DEF WaitingIn
  <2> QED
    BY <2>1, WaitingPrimed, WaitingCounts
<1> QED
  BY <1>1, <1>2

-----------------------------------------------------------------------------
LEMMA OnTimeStep ==
  ASSUME Types, Types', NEW t \in Tasks, OnTime(t), [TaskNext]_taskVars
  PROVE  OnTime(t)'
<1> DEFINE Kept == Calls(t)' = Calls(t) /\ scheduled'[t] = scheduled[t] /\ now' >= now
<1>0. Calls(t) \in Int /\ now \in Nat /\ now' \in Nat
  BY WaitingCounts DEF Types, Calls
<1>a. ASSUME Kept, tasks'[t].kind = "task" => tasks[t].kind = "task" /\ tasks'[t].next = tasks[t].next
      PROVE  OnTime(t)'
  <2> DEFINE c == Calls(t)
  <2>1. c \in Int /\ c * Interval \in Int /\ (c - 1) * Interval \in Int
        /\ scheduled[t].first \in Nat
    BY <1>0 DEF Types
  <2>2. Calls(t)' = c /\ scheduled'[t].first = scheduled[t].first /\ c >= 0
        /\ (tasks[t].kind = "task" => scheduled[t].first + c * Interval =< tasks[t].next)
        /\ (c >= 1 => scheduled[t].first + (c - 1) * Interval =< now)
    BY <1>a DEF OnTime
  <2> HIDE DEF c
  <2> QED
    BY <1>0, <1>a, <2>1, <2>2 DEF OnTime
<1>1. CASE Tick
  BY <1>1, <1>a, <1>0 DEF Tick, Calls, Waiting
<1>2. ASSUME NEW s \in Tasks, NEW first \in now .. MaxNow, ScheduleTask(s, first) PROVE OnTime(t)'
  <2>1. CASE s = t
    <3>1. Waiting(t)' = Waiting(t) /\ Waiting(t) \in Nat
      BY <1>2, WaitingCounts DEF ScheduleTask, Waiting
    <3>2. Calls(t)' = 0 /\ scheduled'[t].first = first /\ tasks'[t].next = first /\ first \in Nat
      BY <1>2, <2>1, <3>1 DEF ScheduleTask, Calls, Types
    <3> QED
      BY <3>2 DEF OnTime
  <2>2. CASE s # t
    BY <1>2, <2>2, <1>a, <1>0 DEF ScheduleTask, Calls, Waiting, Types
  <2> QED
    BY <2>1, <2>2
<1>3. ASSUME NEW s \in Tasks, UnscheduleTask(s) PROVE OnTime(t)'
  BY <1>3, <1>a, <1>0 DEF UnscheduleTask, Unknown, Calls, Waiting, Types
<1>4. ASSUME NEW s \in Tasks, PauseTask(s) \/ ResumeTask(s) PROVE OnTime(t)'
  <2>1. UNCHANGED <<now, rounds, scheduled, started>>
    BY <1>4 DEF PauseTask, ResumeTask
  <2>2. tasks'[t].kind = tasks[t].kind /\ tasks'[t].next = tasks[t].next
    <3>1. CASE PauseTask(s)
      BY <3>1 DEF PauseTask, Types, Entries
    <3>2. CASE ResumeTask(s)
      BY <3>2 DEF ResumeTask, Types, Entries
    <3> QED
      BY <1>4, <3>1, <3>2
  <2>3. Calls(t)' = Calls(t)
    BY <2>1 DEF Calls, Waiting
  <2> QED
    BY <1>0, <1>a, <2>1, <2>2, <2>3
<1>5. CASE CollectDue
  <2>1. NewRound /\ UNCHANGED <<now, scheduled, started>>
    BY <1>5 DEF CollectDue, NewRound
  <2>2. CASE Due(t)
    <3> DEFINE c == Calls(t)
    <3>1. c \in Nat /\ Calls(t)' = c + 1
      <4>1. Waiting(t)' = Waiting(t) + 1 /\ Waiting(t) \in Nat
        BY <2>1, <2>2, CollectWaiting, WaitingCounts
      <4>2. started[t] \in Nat /\ scheduled[t].owed \in Nat /\ c >= 0
        BY DEF OnTime, Types
      <4> QED
        BY <2>1, <4>1, <4>2 DEF Calls
    <3>2. tasks[t].kind = "task" /\ now >= tasks[t].next /\ tasks'[t].next = now + Interval
      BY <1>5, <2>2 DEF CollectDue, Due, Types
    <3>3. scheduled[t].first + c * Interval =< tasks[t].next /\ scheduled'[t].first = scheduled[t].first
      BY <2>1, <3>2 DEF OnTime
    <3>4. scheduled[t].first \in Nat /\ tasks[t].next \in Nat
      BY DEF Types, Entries
    <3> HIDE DEF c
    <3>5. c * Interval \in Int /\ (c + 1) * Interval = c * Interval + Interval /\ (c + 1) - 1 = c
      BY <3>1
    <3>6. scheduled[t].first + (c + 1) * Interval =< now + Interval /\ scheduled[t].first + c * Interval =< now
      BY <1>0, <3>2, <3>3, <3>4, <3>5
    <3> QED
      BY <2>1, <3>1, <3>2, <3>3, <3>5, <3>6 DEF OnTime
  <2>3. CASE ~ Due(t)
    <3>1. Calls(t)' = Calls(t)
      BY <2>1, <2>3, CollectWaiting DEF Calls
    <3>2. tasks'[t] = tasks[t]
      BY <1>5, <2>3 DEF CollectDue
    <3> QED
      BY <1>0, <2>1, <3>1, <3>2, <1>a
  <2> QED
    BY <2>2, <2>3
<1>6. ASSUME NEW s \in Tasks, StartTask(s) PROVE OnTime(t)'
  <2>1. Calls(t)' = Calls(t)
    <3>1. Waiting(t)' = (IF t = s THEN Waiting(t) - 1 ELSE Waiting(t)) /\ Waiting(t) \in Nat
      BY <1>6, StartWaiting, WaitingCounts
    <3>2. started'[t] = (IF t = s THEN started[t] + 1 ELSE started[t]) /\ scheduled' = scheduled
      BY <1>6 DEF StartTask, Types
    <3>3. started[t] \in Nat /\ scheduled[t].owed \in Nat
      BY DEF Types
    <3> QED
      BY <3>1, <3>2, <3>3 DEF Calls
  <2>2. tasks'[t].kind = "task" => tasks'[t] = tasks[t]
    BY <1>6 DEF StartTask, Ghost, Types
  <2> QED
    BY <1>6, <2>1, <2>2, <1>a, <1>0 DEF StartTask
<1>7. CASE EndTask \/ EndRound
  <2>1. UNCHANGED <<now, tasks, scheduled, started>>
    BY <1>7 DEF EndTask, EndRound
  <2>2. Calls(t)' = Calls(t)
    BY <1>7, <2>1, EndWaiting DEF Calls
  <2> QED
    BY <2>1, <2>2, <1>a, <1>0
<1>8. CASE UNCHANGED taskVars
  BY <1>8, <1>a, <1>0 DEF taskVars, Calls, Waiting
<1> QED
  BY <1>1, <1>2, <1>3, <1>4, <1>5, <1>6, <1>7, <1>8 DEF TaskNext, StrategyCalls, Round

LEMMA InitOnTime == TaskInit => TaskInv
<1> SUFFICES ASSUME TaskInit PROVE TaskInv
  OBVIOUS
<1>1. Types
  BY DEF TaskInit, Types, Unknown, Entries
<1>2. ASSUME NEW t \in Tasks PROVE OnTime(t)
  <2>1. WaitingIn(t) = {}
    BY DEF TaskInit, WaitingIn
  <2>2. Waiting(t) = 0
    BY <2>1, FS_EmptySet DEF Waiting, WaitingIn
  <2> QED
    BY <2>2 DEF TaskInit, OnTime, Calls, Unknown
<1> QED
  BY <1>1, <1>2 DEF TaskInv

(* A task is called at most once per interval since its first run time,    *)
(* however deep poll_messages nests and whatever is paused, unscheduled or *)
(* scheduled again between the collection and the call.                    *)
THEOREM NeverTooOften == TaskSpec => []NotTooOften
<1>1. TaskInv /\ [TaskNext]_taskVars => TaskInv'
  BY TypesStep, OnTimeStep DEF TaskInv
<1>2. TaskInv => NotTooOften
  <2> SUFFICES ASSUME TaskInv, NEW t \in Tasks, started[t] > scheduled[t].owed
               PROVE  scheduled[t].first + (started[t] - scheduled[t].owed - 1) * Interval =< now
    BY DEF NotTooOften
  <2> DEFINE n == started[t] - scheduled[t].owed - 1
  <2> DEFINE w == Waiting(t)
  <2>1. n \in Nat /\ w \in Nat /\ scheduled[t].first \in Nat /\ now \in Nat /\ Interval \in Nat
    BY WaitingCounts DEF TaskInv, Types
  <2>2. Calls(t) - 1 = n + w /\ Calls(t) >= 1
    BY <2>1 DEF Calls, TaskInv, Types
  <2>3. scheduled[t].first + (n + w) * Interval =< now
    BY <2>2 DEF TaskInv, OnTime
  <2> HIDE DEF n, w
  <2>4. w * Interval \in Nat /\ n * Interval \in Nat /\ (n + w) * Interval = n * Interval + w * Interval
    BY <2>1
  <2>5. scheduled[t].first + n * Interval =< now
    BY <2>1, <2>3, <2>4
  <2> QED
    BY <2>5 DEF n
<1> QED
  BY <1>1, <1>2, InitOnTime, PTL DEF TaskSpec

=============================================================================
