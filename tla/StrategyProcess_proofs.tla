------------------------ MODULE StrategyProcess_proofs ------------------------
(***************************************************************************)
(* Proofs about StrategyProcess, for every value of its constants.         *)
(*                                                                         *)
(* NoTwins follows from Tracked, which is inductive together with the      *)
(* types.  CrashKillsTable is not: a process could be launched later under *)
(* a pid that the table already names, unless every pid in the table and   *)
(* every message comes from a process that was born (Born).                *)
(***************************************************************************)
EXTENDS StrategyProcess, TLAPS

(* What the table names and what has sent something was born. *)
Born ==
    \A p \in Procs : life[p] = "unborn" =>
        mail[p] = <<>> /\ \A s \in Strategies : table[s].pid # p

-----------------------------------------------------------------------------
(* Types *)

LEMMA NoEntryFacts ==
  /\ NoEntry = [status |-> "none", pid |-> NoProc, shell |-> FALSE]
  /\ NoEntry \notin Entry
  BY DEF NoEntry, Entry

(* An entry of the table, field by field. *)
LEMMA EntryFacts ==
  ASSUME TypeOK, NEW s \in Strategies
  PROVE  /\ table[s] \in Entry \cup {NoEntry}
         /\ table[s].pid \in Procs \cup {NoProc}
         /\ table[s].shell \in BOOLEAN
         /\ table[s].status \in {"none", "pending", "running", "stopped", "error"}
         /\ table[s] # NoEntry => table[s] \in Entry
         /\ table[s].status # "none" => table[s] \in Entry
  <1>1. table[s] \in Entry \cup {NoEntry}
    BY DEF TypeOK
  <1>2. CASE table[s] \in Entry
    BY <1>2 DEF Entry
  <1>3. CASE table[s] = NoEntry
    BY <1>3 DEF NoEntry
  <1>4. QED
    BY <1>1, <1>2, <1>3

(* A new status leaves an entry an entry. *)
LEMMA StatusType ==
  ASSUME NEW e \in Entry, NEW st \in {"pending", "running", "stopped", "error"}
  PROVE  /\ [e EXCEPT !.status = st] \in Entry
         /\ [e EXCEPT !.status = st].status = st
         /\ [e EXCEPT !.status = st].pid = e.pid
         /\ [e EXCEPT !.status = st].shell = e.shell
  BY DEF Entry

LEMMA LoadedType ==
  ASSUME NEW s \in Strategies
  PROVE  Loaded(s) \in Entry \cup {NoEntry} /\ Loaded(s).pid = NoProc
  BY DEF Loaded, Entry, NoEntry

Lives == {"unborn", "booting", "up", "left", "dead"}

(* Signals: what they leave of the processes, told or dead. *)
LEMMA SigtermType ==
  ASSUME TypeOK, NEW K \in SUBSET Procs, Sigterm(K)
  PROVE  /\ life' \in [Procs -> Lives] /\ told' \in SUBSET Procs
         /\ told \subseteq told'
         /\ \A p \in Procs : life'[p] = life[p] \/ (life'[p] = "dead" /\ life[p] = "booting")
         /\ \A p \in K : life'[p] # "dead" /\ Alive(p) => p \in told'
  <1>1. PICK D \in SUBSET {p \in K : life[p] = "booting"} :
            /\ life' = [p \in Procs |-> IF p \in D THEN "dead" ELSE life[p]]
            /\ told' = told \cup {p \in K : Alive(p)}
    BY DEF Sigterm
  <1>2. QED
    BY <1>1 DEF TypeOK, Lives

LEMMA SigkillType ==
  ASSUME TypeOK, NEW K \in SUBSET Procs, Sigkill(K)
  PROVE  /\ life' \in [Procs -> Lives] /\ told' = told
         /\ \A p \in Procs : life'[p] = life[p] \/ (life'[p] = "dead" /\ Alive(p))
         /\ \A p \in K : ~ (life'[p] \in {"booting", "up", "left"})
  BY DEF Sigkill, TypeOK, Alive, Looping, Lives

LEMMA StopStrategyType ==
  ASSUME TypeOK, NEW s \in Strategies, StopStrategy(s)
  PROVE  /\ table' \in [Strategies -> Entry \cup {NoEntry}]
         /\ life' \in [Procs -> Lives] /\ told' \in SUBSET Procs
         /\ astray' \in SUBSET Procs /\ acked' \in SUBSET Strategies
  <1> DEFINE S == IF Running(s) THEN {s} ELSE {}
  <1>1. Reached(S) \in SUBSET Procs /\ Missed(S) \in SUBSET Procs
    BY DEF Reached, Missed
  <1>2. Sigterm(Reached(S))
    BY DEF StopStrategy
  <1>3. life' \in [Procs -> Lives] /\ told' \in SUBSET Procs
    BY <1>1, <1>2, SigtermType
  <1>4. table' \in [Strategies -> Entry \cup {NoEntry}]
    <2>1. CASE Known(s)
      <3>1. [table[s] EXCEPT !.status = "stopped"] \in Entry
        BY <2>1, EntryFacts, StatusType DEF Known
      <3>2. QED
        BY <2>1, <3>1 DEF StopStrategy, TypeOK
    <2>2. CASE ~ Known(s)
      BY <2>2 DEF StopStrategy, TypeOK
    <2>3. QED
      BY <2>1, <2>2
  <1>5. astray' \in SUBSET Procs /\ acked' \in SUBSET Strategies
    BY <1>1 DEF StopStrategy, TypeOK
  <1>6. QED
    BY <1>3, <1>4, <1>5

LEMMA StartStrategyType ==
  ASSUME TypeOK, NEW s \in Strategies,
         (\E p \in Procs : StartStrategy(s, p)) \/ StartFails(s) \/ StartRefused(s)
  PROVE  /\ table' \in [Strategies -> Entry \cup {NoEntry}]
         /\ life' \in [Procs -> Lives] /\ told' \in SUBSET Procs
         /\ mail' \in [Procs -> Seq(Messages)]
         /\ astray' \in SUBSET Procs /\ acked' \in SUBSET Strategies
  <1> USE DEF Lives
  <1>1. CASE \E p \in Procs : StartStrategy(s, p)
    BY <1>1, ProcsAssumption DEF StartStrategy, TypeOK, Entry
  <1>2. CASE StartFails(s)
    <2>1. [table[s] EXCEPT !.status = "error"] \in Entry
      BY <1>2, EntryFacts, StatusType DEF StartFails, Known
    <2>2. QED
      BY <1>2, <2>1 DEF StartFails, TypeOK, procVars
  <1>3. CASE StartRefused(s)
    BY <1>3 DEF StartRefused, TypeOK, procVars
  <1>4. QED
    BY <1>1, <1>2, <1>3

LEMMA StopAndRemoveType ==
  ASSUME TypeOK, NEW S \in SUBSET Strategies, StopAndRemove(S)
  PROVE  /\ table' \in [Strategies -> Entry \cup {NoEntry}]
         /\ life' \in [Procs -> Lives] /\ told' \in SUBSET Procs
         /\ astray' \in SUBSET Procs
  <1> DEFINE R == {s \in S : Running(s)}
  <1>1. Reached(R) \in SUBSET Procs /\ Missed(R) \in SUBSET Procs
    BY DEF Reached, Missed
  <1>2. life' \in [Procs -> Lives] /\ told' \in SUBSET Procs
    BY <1>1, SigtermType DEF StopAndRemove
  <1>3. QED
    BY <1>1, <1>2 DEF StopAndRemove, TypeOK

-----------------------------------------------------------------------------
(* The initial state. *)
LEMMA InitTypeOK == Init => TypeOK /\ Tracked /\ Born
  <1> SUFFICES ASSUME Init PROVE TypeOK /\ Tracked /\ Born
    OBVIOUS
  <1>1. table \in [Strategies -> Entry \cup {NoEntry}]
    BY LoadedType DEF Init
  <1>2. TypeOK
    BY <1>1 DEF Init, TypeOK, Commands
  <1>3. Tracked
    BY DEF Init, Tracked, Alive, Looping
  <1>4. Born
    BY LoadedType, ProcsAssumption DEF Init, Born
  <1>5. QED
    BY <1>2, <1>3, <1>4

(* The frontend's commands keep the types. *)
LEMMA FrontendTypeOK ==
  ASSUME TypeOK, Frontend PROVE TypeOK'
  <1> USE DEF Lives
  <1> DEFINE Rest == mail \in [Procs -> Seq(Messages)]
  <1>1. ASSUME NEW s \in Strategies, CreateStrategy(s) PROVE TypeOK'
    BY <1>1 DEF CreateStrategy, RegisterStrategy, TypeOK, Entry, Commands, procVars
  <1>2. ASSUME NEW s \in Strategies, StartCommand(s) PROVE TypeOK'
    BY <1>2, StartStrategyType DEF StartCommand, TypeOK
  <1>3. ASSUME NEW s \in Strategies, StopCommand(s) PROVE TypeOK'
    BY <1>3, StopStrategyType DEF StopCommand, TypeOK
  <1>4. ASSUME NEW s \in Strategies, DeleteStop(s) PROVE TypeOK'
    BY <1>4, StopStrategyType DEF DeleteStop, TypeOK, Commands
  <1>5. CASE CreateStop
    <2>1. fe.s \in Strategies
      BY DEF TypeOK, Commands
    <2>2. QED
      BY <1>5, <2>1, StopStrategyType DEF CreateStop, TypeOK, Commands
  <1>6. CASE CreateStart
    <2>1. fe.s \in Strategies
      BY DEF TypeOK, Commands
    <2>2. QED
      BY <1>6, <2>1, StartStrategyType DEF CreateStart, TypeOK, Commands
  <1>7. CASE DeleteRemove
    BY <1>7 DEF DeleteRemove, TypeOK, Commands, procVars
  <1>8. ASSUME NEW a, UnregisterAccount(a) PROVE TypeOK'
    <2>1. OfAccount(a) \in SUBSET Strategies
      BY DEF OfAccount
    <2>2. QED
      BY <1>8, <2>1, StopAndRemoveType DEF UnregisterAccount, TypeOK
  <1>9. QED
    BY <1>1, <1>2, <1>3, <1>4, <1>5, <1>6, <1>7, <1>8 DEF Frontend

(* So does the order thread. *)
LEMMA OrderThreadTypeOK ==
  ASSUME TypeOK, NEW p \in Procs, OrderThread(p) PROVE TypeOK'
  <1> USE DEF Lives
  <1>0. StrategyOf[p] \in Strategies
    BY ProcsAssumption
  <1>1. ASSUME NEW msg, Take(p, msg)
        PROVE  /\ mail' \in [Procs -> Seq(Messages)] /\ config' \in SUBSET Strategies
               /\ fe' \in Commands /\ server' = server
    <2>1. mail[p] \in Seq(Messages) /\ mail[p] # <<>>
      BY <1>1 DEF Take, TypeOK
    <2>2. Tail(mail[p]) \in Seq(Messages)
      BY <2>1
    <2>3. QED
      BY <1>1, <2>2 DEF Take, TypeOK
  <1>2. CASE TakeRegister(p)
    BY <1>0, <1>1, <1>2 DEF TakeRegister, RegisterStrategy, TypeOK, Entry
  <1>3. CASE TakeHeartbeat(p)
    <2> DEFINE s == StrategyOf[p]
    <2>1. table' \in [Strategies -> Entry \cup {NoEntry}]
      <3>1. CASE table[s].status \in {"stopped", "error"}
        <4>1. [table[s] EXCEPT !.status = "running"] \in Entry
          BY <1>0, <3>1, EntryFacts, StatusType
        <4>2. QED
          BY <1>0, <1>3, <3>1, <4>1 DEF TakeHeartbeat, RecordHeartbeat, TypeOK
      <3>2. CASE table[s].status \notin {"stopped", "error"}
        BY <1>3, <3>2 DEF TakeHeartbeat, RecordHeartbeat, TypeOK
      <3>3. QED
        BY <3>1, <3>2
    <2>2. QED
      BY <1>1, <1>3, <2>1 DEF TakeHeartbeat, TypeOK
  <1>4. CASE TakeUnregister(p)
    <2> DEFINE S == IF Known(StrategyOf[p]) THEN OfAccount(AccountOf[StrategyOf[p]]) ELSE {}
    <2>1. S \in SUBSET Strategies /\ StopAndRemove(S)
      BY <1>4 DEF TakeUnregister, OfAccount
    <2>2. QED
      BY <1>1, <1>4, <2>1, StopAndRemoveType DEF TakeUnregister, TypeOK
  <1>5. CASE TakeRejected(p)
    BY <1>1, <1>5 DEF TakeRejected, TypeOK
  <1>6. QED
    BY <1>2, <1>3, <1>4, <1>5 DEF OrderThread

(* So do the processes themselves. *)
LEMMA ProcessTypeOK ==
  ASSUME TypeOK, NEW p \in Procs, Process(p) PROVE TypeOK'
  <1> USE DEF tableVars
  <1>1. ASSUME NEW msg \in Messages, Send(p, msg) PROVE mail' \in [Procs -> Seq(Messages)]
    <2>1. Append(mail[p], msg) \in Seq(Messages)
      BY <1>1 DEF TypeOK
    <2>2. QED
      BY <1>1, <2>1 DEF Send, TypeOK
  <1>2. CASE LaunchByHand(p)
    BY <1>2 DEF LaunchByHand, TypeOK
  <1>3. CASE Announce(p)
    BY <1>1, <1>3 DEF Announce, TypeOK, Messages
  <1>4. CASE Beat(p)
    BY <1>1, <1>4 DEF Beat, TypeOK, Messages
  <1>5. CASE Unregister(p)
    BY <1>1, <1>5 DEF Unregister, TypeOK, Messages
  <1>6. CASE Exit(p)
    BY <1>6 DEF Exit, TypeOK
  <1>7. QED
    BY <1>2, <1>3, <1>4, <1>5, <1>6 DEF Process

(* So do the main loop and the end of the server. *)
LEMMA ServerTypeOK ==
  ASSUME TypeOK,
         (\E L \in SUBSET Strategies : CheckHeartbeats(L)) \/ StopAll \/ Crash \/ End \/ Restart
  PROVE  TypeOK'
  <1> USE DEF Lives
  <1>0. \A S \in SUBSET Strategies : Reached(S) \in SUBSET Procs /\ Missed(S) \in SUBSET Procs
    BY DEF Reached, Missed
  <1>1. ASSUME NEW L \in SUBSET Strategies, CheckHeartbeats(L) PROVE TypeOK'
    <2>1. \A s \in L : [table[s] EXCEPT !.status = "stopped"] \in Entry
      BY <1>1, EntryFacts, StatusType DEF CheckHeartbeats, Running
    <2>2. table' \in [Strategies -> Entry \cup {NoEntry}]
      BY <1>1, <2>1 DEF CheckHeartbeats, TypeOK
    <2>3. QED
      BY <1>0, <1>1, <2>2 DEF CheckHeartbeats, TypeOK, procVars
  <1>2. CASE StopAll
    <2> DEFINE R == {s \in Strategies : Running(s) /\ table[s].pid # NoProc}
               K == IF R = {} THEN {} ELSE Reached(Strategies)
    <2>1. \A s \in R : [table[s] EXCEPT !.status = "stopped"] \in Entry
      BY EntryFacts, StatusType DEF Running
    <2>2. table' \in [Strategies -> Entry \cup {NoEntry}]
      BY <1>2, <2>1 DEF StopAll, TypeOK
    <2>3. K \in SUBSET Procs /\ Sigkill(K)
      BY <1>0, <1>2 DEF StopAll
    <2>4. life' \in [Procs -> Lives] /\ told' = told
      BY <2>3, SigkillType
    <2>5. astray' \in SUBSET Procs
      BY <1>0, <1>2 DEF StopAll, TypeOK
    <2>6. QED
      BY <1>2, <2>2, <2>4, <2>5 DEF StopAll, TypeOK
  <1>3. CASE Crash
    <2>1. Reached(Strategies) \in SUBSET Procs
      BY <1>0
    <2>2. life' \in [Procs -> Lives] /\ told' = told
      BY <1>3, <2>1, SigkillType DEF Crash
    <2>3. QED
      BY <1>3, <2>2 DEF Crash, TypeOK
  <1>4. CASE End
    BY <1>4 DEF End, TypeOK, procVars
  <1>5. CASE Restart
    <2>1. table' \in [Strategies -> Entry \cup {NoEntry}]
      BY <1>5, LoadedType DEF Restart
    <2>2. QED
      BY <1>5, <2>1 DEF Restart, TypeOK, Commands, procVars
  <1>6. QED
    BY <1>1, <1>2, <1>3, <1>4, <1>5

LEMMA NextTypeOK == TypeOK /\ [Next]_vars => TypeOK'
  <1> SUFFICES ASSUME TypeOK, [Next]_vars PROVE TypeOK'
    OBVIOUS
  <1>1. CASE UNCHANGED vars
    BY <1>1 DEF vars, tableVars, procVars, TypeOK
  <1>2. QED
    BY <1>1, FrontendTypeOK, OrderThreadTypeOK, ProcessTypeOK, ServerTypeOK DEF Next

(* Every variable keeps its type; what is removed from the table leaves no *)
(* pid behind that a later stop, time-out or crash would act upon.         *)
THEOREM TypeCorrect == Spec => []TypeOK
  <1>1. Init => TypeOK
    BY InitTypeOK
  <1>2. QED
    BY <1>1, NextTypeOK, PTL DEF Spec

-----------------------------------------------------------------------------
(* Tracked *)

(* Who is neither told nor astray is named by its entry. *)
OnTrack(p) == Running(StrategyOf[p]) /\ table[StrategyOf[p]].pid = p

(* stop_strategy tells the process that the entry names, or loses it. *)
LEMMA StopStrategyTracked ==
  ASSUME TypeOK, Tracked, Serving, NEW s \in Strategies, StopStrategy(s)
  PROVE  \A p \in Procs : Alive(p)' /\ p \notin told' \cup astray' => OnTrack(p)'
  <1> SUFFICES ASSUME NEW p \in Procs, Alive(p)', p \notin told' \cup astray' PROVE OnTrack(p)'
    OBVIOUS
  <1> DEFINE S == IF Running(s) THEN {s} ELSE {}
  <1>0. StrategyOf[p] \in Strategies
    BY ProcsAssumption
  <1>1. Reached(S) \in SUBSET Procs /\ Sigterm(Reached(S)) /\ astray' = astray \cup Missed(S)
    BY DEF StopStrategy, Reached
  <1>2. life'[p] = life[p] /\ Alive(p) /\ p \notin told \cup astray
    BY <1>1, SigtermType DEF Alive, Looping
  <1>3. OnTrack(p)
    BY <1>2 DEF Tracked, OnTrack
  <1>4. StrategyOf[p] # s
    <2> SUFFICES ASSUME StrategyOf[p] = s PROVE FALSE
      OBVIOUS
    <2>1. Running(s) /\ table[s].pid = p
      BY <1>3 DEF OnTrack
    <2>2. p \in Reached(S) \cup Missed(S)
      BY <2>1 DEF Reached, Missed
    <2>3. p \notin Missed(S)
      BY <1>1
    <2>4. life'[p] # "dead"
      BY DEF Alive, Looping
    <2>5. QED
      BY <1>1, <1>2, <2>2, <2>3, <2>4, SigtermType
  <1>5. table'[StrategyOf[p]] = table[StrategyOf[p]]
    BY <1>0, <1>4 DEF StopStrategy, TypeOK
  <1>6. QED
    BY <1>3, <1>5 DEF OnTrack, Running

(* start_strategy launches a process only where none is on track. *)
LEMMA StartStrategyTracked ==
  ASSUME TypeOK, Tracked, Serving, NEW s \in Strategies,
         (\E q \in Procs : StartStrategy(s, q)) \/ StartFails(s) \/ StartRefused(s)
  PROVE  \A p \in Procs : Alive(p)' /\ p \notin told' \cup astray' => OnTrack(p)'
  <1> SUFFICES ASSUME NEW p \in Procs, Alive(p)', p \notin told' \cup astray' PROVE OnTrack(p)'
    OBVIOUS
  <1> USE DEF OnTrack, Running
  <1>0. StrategyOf[p] \in Strategies
    BY ProcsAssumption
  <1>1. ASSUME NEW q \in Procs, StartStrategy(s, q) PROVE OnTrack(p)'
    <2>1. CASE p = q
      BY <1>0, <1>1, <2>1 DEF StartStrategy, TypeOK
    <2>2. CASE p # q
      <3>1. Alive(p) /\ p \notin told \cup astray
        BY <1>1, <2>2 DEF StartStrategy, Alive, Looping, TypeOK
      <3>2. Running(StrategyOf[p]) /\ table[StrategyOf[p]].pid = p
        BY <3>1 DEF Tracked
      <3>3. StrategyOf[p] # s
        BY <1>1, <3>2 DEF StartStrategy
      <3>4. QED
        BY <1>0, <1>1, <3>2, <3>3 DEF StartStrategy, TypeOK
    <2>3. QED
      BY <2>1, <2>2
  <1>2. CASE StartFails(s)
    <2>1. Running(StrategyOf[p]) /\ table[StrategyOf[p]].pid = p
      BY <1>2 DEF StartFails, procVars, Tracked, Alive, Looping
    <2>2. StrategyOf[p] # s
      BY <1>2, <2>1 DEF StartFails
    <2>3. QED
      BY <1>0, <1>2, <2>1, <2>2 DEF StartFails, TypeOK
  <1>3. CASE StartRefused(s)
    BY <1>3 DEF StartRefused, procVars, Tracked, Alive, Looping
  <1>4. QED
    BY <1>1, <1>2, <1>3

(* A removal tells the processes of what it removes, or loses them. *)
LEMMA StopAndRemoveTracked ==
  ASSUME TypeOK, Tracked, Serving, NEW S \in SUBSET Strategies, StopAndRemove(S)
  PROVE  \A p \in Procs : Alive(p)' /\ p \notin told' \cup astray' => OnTrack(p)'
  <1> SUFFICES ASSUME NEW p \in Procs, Alive(p)', p \notin told' \cup astray' PROVE OnTrack(p)'
    OBVIOUS
  <1> DEFINE R == {s \in S : Running(s)}
  <1>0. StrategyOf[p] \in Strategies
    BY ProcsAssumption
  <1>1. Reached(R) \in SUBSET Procs /\ Sigterm(Reached(R)) /\ astray' = astray \cup Missed(R)
    BY DEF StopAndRemove, Reached
  <1>2. life'[p] = life[p] /\ Alive(p) /\ p \notin told \cup astray
    BY <1>1, SigtermType DEF Alive, Looping
  <1>3. OnTrack(p)
    BY <1>2 DEF Tracked, OnTrack
  <1>4. StrategyOf[p] \notin S
    <2> SUFFICES ASSUME StrategyOf[p] \in S PROVE FALSE
      OBVIOUS
    <2>1. StrategyOf[p] \in R /\ table[StrategyOf[p]].pid = p
      BY <1>3 DEF OnTrack
    <2>2. p \in Reached(R) \cup Missed(R)
      BY <2>1 DEF Reached, Missed
    <2>3. p \notin Missed(R)
      BY <1>1
    <2>4. life'[p] # "dead"
      BY DEF Alive, Looping
    <2>5. QED
      BY <1>1, <1>2, <2>2, <2>3, <2>4, SigtermType
  <1>5. table'[StrategyOf[p]] = table[StrategyOf[p]]
    BY <1>0, <1>4 DEF StopAndRemove
  <1>6. QED
    BY <1>3, <1>5 DEF OnTrack, Running

(* Tracked says of a server that serves that its processes are on track. *)
LEMMA TrackedPrime ==
  ASSUME \A p \in Procs : Alive(p)' /\ p \notin told' \cup astray' => OnTrack(p)'
  PROVE  Tracked'
  BY DEF Tracked, OnTrack

LEMMA FrontendTracked ==
  ASSUME TypeOK, Tracked, Frontend PROVE Tracked'
  <1>0. Serving
    BY DEF Frontend, CreateStrategy, StartCommand, StopCommand, DeleteStop, CreateStop,
           CreateStart, DeleteRemove, UnregisterAccount, Idle
  <1>1. fe.s \in Strategies
    BY DEF TypeOK, Commands
  <1>2. ASSUME NEW s \in Strategies, CreateStrategy(s) PROVE Tracked'
    <2> SUFFICES ASSUME NEW p \in Procs, Alive(p)', p \notin told' \cup astray' PROVE OnTrack(p)'
      BY TrackedPrime
    <2>1. Running(StrategyOf[p]) /\ table[StrategyOf[p]].pid = p
      BY <1>0, <1>2 DEF CreateStrategy, procVars, Tracked, Alive, Looping
    <2>2. StrategyOf[p] # s
      BY <1>2, <2>1 DEF CreateStrategy
    <2>3. QED
      BY <1>2, <2>1, <2>2, ProcsAssumption
      DEF CreateStrategy, RegisterStrategy, TypeOK, OnTrack, Running
  <1>3. ASSUME NEW s \in Strategies, StartCommand(s) PROVE Tracked'
    BY <1>0, <1>3, StartStrategyTracked, TrackedPrime DEF StartCommand
  <1>4. ASSUME NEW s \in Strategies, StopCommand(s) PROVE Tracked'
    BY <1>0, <1>4, StopStrategyTracked, TrackedPrime DEF StopCommand
  <1>5. ASSUME NEW s \in Strategies, DeleteStop(s) PROVE Tracked'
    BY <1>0, <1>5, StopStrategyTracked, TrackedPrime DEF DeleteStop
  <1>6. CASE CreateStop
    BY <1>0, <1>1, <1>6, StopStrategyTracked, TrackedPrime DEF CreateStop
  <1>7. CASE CreateStart
    BY <1>0, <1>1, <1>7, StartStrategyTracked, TrackedPrime DEF CreateStart
  <1>8. CASE DeleteRemove
    <2> SUFFICES ASSUME NEW p \in Procs, Alive(p)', p \notin told' \cup astray' PROVE OnTrack(p)'
      BY TrackedPrime
    <2>1. Running(StrategyOf[p]) /\ table[StrategyOf[p]].pid = p
      BY <1>0, <1>8 DEF DeleteRemove, procVars, Tracked, Alive, Looping
    <2>2. StrategyOf[p] # fe.s
      BY <1>8, <2>1 DEF DeleteRemove
    <2>3. QED
      BY <1>8, <2>1, <2>2, ProcsAssumption DEF DeleteRemove, TypeOK, OnTrack, Running
  <1>9. ASSUME NEW a, UnregisterAccount(a) PROVE Tracked'
    <2>1. OfAccount(a) \in SUBSET Strategies
      BY DEF OfAccount
    <2>2. QED
      BY <1>0, <1>9, <2>1, StopAndRemoveTracked, TrackedPrime DEF UnregisterAccount
  <1>10. QED
    BY <1>2, <1>3, <1>4, <1>5, <1>6, <1>7, <1>8, <1>9 DEF Frontend

LEMMA OrderThreadTracked ==
  ASSUME TypeOK, Tracked, NEW q \in Procs, OrderThread(q) PROVE Tracked'
  <1> SUFFICES ASSUME NEW p \in Procs, Alive(p)', p \notin told' \cup astray' PROVE OnTrack(p)'
    BY TrackedPrime
  <1> DEFINE s == StrategyOf[q]
  <1>0. Serving /\ StrategyOf[p] \in Strategies /\ s \in Strategies
    BY ProcsAssumption
    DEF OrderThread, TakeRegister, TakeHeartbeat, TakeUnregister, TakeRejected, Take
  <1>1. CASE TakeRegister(q)
    <2>1. CASE p = q
      BY <1>0, <1>1, <2>1 DEF TakeRegister, RegisterStrategy, TypeOK, OnTrack, Running
    <2>2. CASE p # q
      <3>1. Running(StrategyOf[p]) /\ table[StrategyOf[p]].pid = p
        BY <1>0, <1>1, <2>2 DEF TakeRegister, Tracked, Alive, Looping
      <3>2. StrategyOf[p] # s
        BY <1>1, <2>2, <3>1 DEF TakeRegister
      <3>3. QED
        BY <1>0, <1>1, <3>1, <3>2 DEF TakeRegister, RegisterStrategy, TypeOK, OnTrack, Running
    <2>3. QED
      BY <2>1, <2>2
  <1>2. CASE TakeHeartbeat(q)
    <2>1. /\ \A r \in Strategies : table'[r].pid = table[r].pid
          /\ \A r \in Strategies : Running(r) => Running(r)'
      BY <1>0, <1>2, EntryFacts, StatusType
      DEF TakeHeartbeat, RecordHeartbeat, TypeOK, Running
    <2>2. CASE p \in astray
      <3>1. p = q /\ table'[s].status = "running" /\ p \in Reached({s})
        BY <1>2, <2>2 DEF TakeHeartbeat
      <3>2. QED
        BY <1>0, <2>1, <3>1 DEF Reached, OnTrack, Running
    <2>3. CASE p \notin astray
      <3>1. Running(StrategyOf[p]) /\ table[StrategyOf[p]].pid = p
        BY <1>0, <1>2, <2>3 DEF TakeHeartbeat, Tracked, Alive, Looping
      <3>2. QED
        BY <1>0, <2>1, <3>1 DEF OnTrack
    <2>4. QED
      BY <2>2, <2>3
  <1>3. CASE TakeUnregister(q)
    <2> DEFINE S == IF Known(s) THEN OfAccount(AccountOf[s]) ELSE {}
    <2>1. S \in SUBSET Strategies /\ StopAndRemove(S)
      BY <1>3 DEF TakeUnregister, OfAccount
    <2>2. QED
      BY <1>0, <2>1, StopAndRemoveTracked
  <1>4. CASE TakeRejected(q)
    BY <1>0, <1>4 DEF TakeRejected, Tracked, Alive, Looping, OnTrack, Running
  <1>5. QED
    BY <1>1, <1>2, <1>3, <1>4 DEF OrderThread

LEMMA ProcessTracked ==
  ASSUME TypeOK, Tracked, NEW q \in Procs, Process(q) PROVE Tracked'
  <1> USE DEF tableVars
  <1>1. /\ table' = table /\ server' = server /\ told' = told
        /\ astray \subseteq astray'
    BY DEF Process, LaunchByHand, Announce, Beat, Unregister, Exit
  <1>2. \A p \in Procs : Alive(p)' /\ p \notin astray' => Alive(p)
    BY DEF Process, LaunchByHand, Announce, Beat, Unregister, Exit, Alive, Looping, TypeOK
  <1>3. QED
    BY <1>1, <1>2 DEF Tracked, Serving, Running

LEMMA ServerTracked ==
  ASSUME TypeOK, Tracked,
         (\E L \in SUBSET Strategies : CheckHeartbeats(L)) \/ StopAll \/ Crash \/ End \/ Restart
  PROVE  Tracked'
  <1>1. ASSUME NEW L \in SUBSET Strategies, CheckHeartbeats(L) PROVE Tracked'
    <2> SUFFICES ASSUME NEW p \in Procs, Alive(p)', p \notin told' \cup astray' PROVE OnTrack(p)'
      BY TrackedPrime
    <2>1. Running(StrategyOf[p]) /\ table[StrategyOf[p]].pid = p
      BY <1>1 DEF CheckHeartbeats, procVars, Tracked, Serving, Alive, Looping
    <2>2. StrategyOf[p] \notin L
      BY <1>1, <2>1 DEF CheckHeartbeats, Reached, Missed
    <2>3. QED
      BY <1>1, <2>1, <2>2, ProcsAssumption DEF CheckHeartbeats, OnTrack, Running
  <1>2. CASE StopAll
    <2> DEFINE R == {s \in Strategies : Running(s) /\ table[s].pid # NoProc}
               K == IF R = {} THEN {} ELSE Reached(Strategies)
    <2> SUFFICES ASSUME NEW p \in Procs, Alive(p)', p \notin told' \cup astray' PROVE OnTrack(p)'
      BY TrackedPrime
    <2>0. StrategyOf[p] \in Strategies /\ p # NoProc
      BY ProcsAssumption
    <2>1. K \in SUBSET Procs /\ Sigkill(K)
      BY <1>2 DEF StopAll, Reached
    <2>2. Alive(p) /\ told' = told /\ p \notin K
      BY <2>1, SigkillType DEF Alive, Looping
    <2>3. Running(StrategyOf[p]) /\ table[StrategyOf[p]].pid = p
      BY <1>2, <2>2 DEF StopAll, Tracked, Serving
    <2>4. StrategyOf[p] \in R
      BY <2>0, <2>3
    <2>5. p \in Reached(Strategies) \cup Missed(R)
      BY <2>0, <2>3, <2>4 DEF Reached, Missed
    <2>6. QED
      BY <1>2, <2>2, <2>4, <2>5 DEF StopAll
  <1>3. CASE Crash \/ End
    BY <1>3 DEF Crash, End, Tracked, Serving
  <1>4. CASE Restart
    BY <1>4 DEF Restart, procVars, Tracked, Alive, Looping
  <1>5. QED
    BY <1>1, <1>2, <1>3, <1>4

LEMMA NextTracked == TypeOK /\ Tracked /\ [Next]_vars => Tracked'
  <1> SUFFICES ASSUME TypeOK, Tracked, [Next]_vars PROVE Tracked'
    OBVIOUS
  <1>1. CASE UNCHANGED vars
    BY <1>1 DEF vars, tableVars, procVars, Tracked, Serving, Alive, Looping, Running
  <1>2. QED
    BY <1>1, FrontendTracked, OrderThreadTracked, ProcessTracked, ServerTracked DEF Next

(* Whatever the order of commands, messages, time-outs and restarts, a     *)
(* process that the table took in and never gave up, and that was not told *)
(* to end, is the one its entry names as running.                          *)
THEOREM ProcessesTracked == Spec => []Tracked
  <1>1. Init => TypeOK /\ Tracked
    BY InitTypeOK
  <1>2. TypeOK /\ Tracked /\ [Next]_vars => TypeOK' /\ Tracked'
    BY NextTypeOK, NextTracked
  <1>3. QED
    BY <1>1, <1>2, PTL DEF Spec

(* start_strategy never makes a twin: of two live processes of a strategy  *)
(* the table had lost one, or told it to end.                              *)
THEOREM NeverTwins == Spec => []NoTwins
  <1>1. Tracked => NoTwins
    BY DEF Tracked, NoTwins
  <1>2. QED
    BY <1>1, ProcessesTracked, PTL

-----------------------------------------------------------------------------
(* The crash handler *)

(* A step of the server leaves no new pid in the table but one of a        *)
(* process that was launched or that has written.                          *)
LEMMA FrontendBorn ==
  ASSUME TypeOK, Born, Frontend PROVE Born'
  <1> SUFFICES ASSUME NEW p \in Procs, life'[p] = "unborn"
               PROVE  mail'[p] = <<>> /\ \A s \in Strategies : table'[s].pid # p
    BY DEF Born
  <1>0. fe.s \in Strategies /\ NoProc \notin Procs
    BY ProcsAssumption DEF TypeOK, Commands
  <1>1. life[p] = "unborn" => mail[p] = <<>> /\ \A s \in Strategies : table[s].pid # p
    BY DEF Born
  <1>2. ASSUME NEW s \in Strategies, StopStrategy(s), mail' = mail
        PROVE  mail'[p] = <<>> /\ \A r \in Strategies : table'[r].pid # p
    <2>1. Reached(IF Running(s) THEN {s} ELSE {}) \in SUBSET Procs
      BY DEF Reached
    <2>2. life[p] = "unborn"
      BY <1>2, <2>1, SigtermType DEF StopStrategy
    <2>3. \A r \in Strategies : table'[r].pid = table[r].pid
      BY <1>2, EntryFacts, StatusType DEF StopStrategy, Known, TypeOK
    <2>4. QED
      BY <1>1, <1>2, <2>2, <2>3
  <1>3. ASSUME NEW s \in Strategies,
               (\E q \in Procs : StartStrategy(s, q)) \/ StartFails(s) \/ StartRefused(s)
        PROVE  mail'[p] = <<>> /\ \A r \in Strategies : table'[r].pid # p
    <2>1. ASSUME NEW q \in Procs, StartStrategy(s, q)
          PROVE  mail'[p] = <<>> /\ \A r \in Strategies : table'[r].pid # p
      <3>1. p # q /\ life[p] = "unborn"
        BY <2>1 DEF StartStrategy, TypeOK
      <3>2. QED
        BY <1>1, <2>1, <3>1 DEF StartStrategy, TypeOK
    <2>2. CASE StartFails(s)
      BY <1>1, <2>2, EntryFacts, StatusType DEF StartFails, Known, procVars, TypeOK
    <2>3. CASE StartRefused(s)
      BY <1>1, <2>3 DEF StartRefused, procVars
    <2>4. QED
      BY <1>3, <2>1, <2>2, <2>3
  <1>4. ASSUME NEW s \in Strategies, CreateStrategy(s)
        PROVE  mail'[p] = <<>> /\ \A r \in Strategies : table'[r].pid # p
    BY <1>0, <1>1, <1>4 DEF CreateStrategy, RegisterStrategy, procVars, TypeOK
  <1>5. CASE DeleteRemove
    BY <1>0, <1>1, <1>5 DEF DeleteRemove, procVars, TypeOK, NoEntry
  <1>6. ASSUME NEW a, UnregisterAccount(a)
        PROVE  mail'[p] = <<>> /\ \A r \in Strategies : table'[r].pid # p
    <2> DEFINE R == {s \in OfAccount(a) : Running(s)}
    <2>1. Reached(R) \in SUBSET Procs /\ Sigterm(Reached(R))
      BY <1>6 DEF UnregisterAccount, StopAndRemove, Reached
    <2>2. life[p] = "unborn"
      BY <2>1, SigtermType
    <2>3. QED
      BY <1>0, <1>1, <1>6, <2>2 DEF UnregisterAccount, StopAndRemove, NoEntry
  <1>7. ASSUME NEW s \in Strategies, StartCommand(s) \/ StopCommand(s) \/ DeleteStop(s)
        PROVE  mail'[p] = <<>> /\ \A r \in Strategies : table'[r].pid # p
    BY <1>2, <1>3, <1>7 DEF StartCommand, StopCommand, DeleteStop
  <1>8. CASE CreateStop \/ CreateStart
    BY <1>0, <1>2, <1>3, <1>8 DEF CreateStop, CreateStart
  <1>9. QED
    BY <1>4, <1>5, <1>6, <1>7, <1>8 DEF Frontend

LEMMA OrderThreadBorn ==
  ASSUME TypeOK, Born, NEW q \in Procs, OrderThread(q) PROVE Born'
  <1> SUFFICES ASSUME NEW p \in Procs, life'[p] = "unborn"
               PROVE  mail'[p] = <<>> /\ \A s \in Strategies : table'[s].pid # p
    BY DEF Born
  <1>0. StrategyOf[q] \in Strategies /\ NoProc \notin Procs
    BY ProcsAssumption
  <1>1. life[p] = "unborn" => mail[p] = <<>> /\ \A s \in Strategies : table[s].pid # p
    BY DEF Born
  <1>2. mail[q] # <<>> /\ (p # q => mail'[p] = mail[p])
    BY DEF OrderThread, TakeRegister, TakeHeartbeat, TakeUnregister, TakeRejected, Take, TypeOK
  <1>3. CASE TakeRegister(q)
    BY <1>0, <1>1, <1>2, <1>3 DEF TakeRegister, RegisterStrategy, TypeOK
  <1>4. CASE TakeHeartbeat(q)
    <2>1. \A r \in Strategies : table'[r].pid = table[r].pid
      BY <1>0, <1>4, EntryFacts, StatusType DEF TakeHeartbeat, RecordHeartbeat, TypeOK
    <2>2. QED
      BY <1>1, <1>2, <1>4, <2>1 DEF TakeHeartbeat
  <1>5. CASE TakeUnregister(q)
    <2> DEFINE S == IF Known(StrategyOf[q]) THEN OfAccount(AccountOf[StrategyOf[q]]) ELSE {}
               R == {s \in S : Running(s)}
    <2>1. Reached(R) \in SUBSET Procs /\ Sigterm(Reached(R))
      BY <1>5 DEF TakeUnregister, StopAndRemove, Reached
    <2>2. life[p] = "unborn"
      BY <2>1, SigtermType
    <2>3. QED
      BY <1>0, <1>1, <1>2, <1>5, <2>2 DEF TakeUnregister, StopAndRemove, NoEntry
  <1>6. CASE TakeRejected(q)
    BY <1>1, <1>2, <1>6 DEF TakeRejected
  <1>7. QED
    BY <1>3, <1>4, <1>5, <1>6 DEF OrderThread

LEMMA ProcessBorn ==
  ASSUME TypeOK, Born, NEW q \in Procs, Process(q) PROVE Born'
  <1>1. /\ table' = table
        /\ \A p \in Procs : life'[p] = "unborn" => life[p] = "unborn"
        /\ \A p \in Procs : mail'[p] = mail[p] \/ life'[p] # "unborn"
    BY DEF Process, LaunchByHand, Announce, Beat, Unregister, Exit, Send, Looping, tableVars, TypeOK
  <1>2. QED
    BY <1>1 DEF Born

LEMMA ServerBorn ==
  ASSUME TypeOK, Born,
         (\E L \in SUBSET Strategies : CheckHeartbeats(L)) \/ StopAll \/ Crash \/ End \/ Restart
  PROVE  Born'
  <1>0. NoProc \notin Procs
    BY ProcsAssumption
  <1>1. ASSUME NEW L \in SUBSET Strategies, CheckHeartbeats(L) PROVE Born'
    <2>1. \A s \in Strategies : table'[s].pid = table[s].pid
      BY <1>1, EntryFacts, StatusType DEF CheckHeartbeats, Running
    <2>2. QED
      BY <1>1, <2>1 DEF CheckHeartbeats, procVars, Born
  <1>2. CASE StopAll
    <2> DEFINE R == {s \in Strategies : Running(s) /\ table[s].pid # NoProc}
               K == IF R = {} THEN {} ELSE Reached(Strategies)
    <2>1. \A s \in Strategies : table'[s].pid = table[s].pid
      BY <1>2, EntryFacts, StatusType DEF StopAll, Running
    <2>2. K \in SUBSET Procs /\ Sigkill(K)
      BY <1>2 DEF StopAll, Reached
    <2>3. \A p \in Procs : life'[p] = "unborn" => life[p] = "unborn"
      BY <2>2, SigkillType
    <2>4. QED
      BY <1>2, <2>1, <2>3 DEF StopAll, Born
  <1>3. CASE Crash
    <2>1. Reached(Strategies) \in SUBSET Procs
      BY DEF Reached
    <2>2. \A p \in Procs : life'[p] = "unborn" => life[p] = "unborn"
      BY <1>3, <2>1, SigkillType DEF Crash
    <2>3. QED
      BY <1>3, <2>2 DEF Crash, Born
  <1>4. CASE End
    BY <1>4 DEF End, procVars, Born
  <1>5. CASE Restart
    BY <1>0, <1>5, LoadedType DEF Restart, procVars, Born
  <1>6. QED
    BY <1>1, <1>2, <1>3, <1>4, <1>5

LEMMA NextBorn == TypeOK /\ Born /\ [Next]_vars => Born'
  <1> SUFFICES ASSUME TypeOK, Born, [Next]_vars PROVE Born'
    OBVIOUS
  <1>1. CASE UNCHANGED vars
    BY <1>1 DEF vars, tableVars, procVars, Born
  <1>2. QED
    BY <1>1, FrontendBorn, OrderThreadBorn, ProcessBorn, ServerBorn DEF Next

LEMMA NextCrashKills ==
  TypeOK /\ Born /\ CrashKillsTable /\ [Next]_vars => CrashKillsTable'
  <1> SUFFICES ASSUME TypeOK, Born, CrashKillsTable, [Next]_vars, server' = "crashed",
                      NEW p \in Reached(Strategies)'
               PROVE  ~ Alive(p)'
    BY DEF CrashKillsTable
  <1>0. p \in Procs
    BY DEF Reached
  <1>1. CASE UNCHANGED vars
    BY <1>1 DEF vars, tableVars, procVars, CrashKillsTable, Reached, Alive, Looping
  <1>2. CASE Crash
    <2>1. Reached(Strategies) \in SUBSET Procs /\ p \in Reached(Strategies)
      BY <1>2 DEF Crash, Reached
    <2>2. QED
      BY <1>2, <2>1, SigkillType DEF Crash, Alive, Looping
  <1>3. ASSUME NEW q \in Procs, Process(q) PROVE ~ Alive(p)'
    <2>1. table' = table /\ server' = server
      BY <1>3 DEF Process, LaunchByHand, Announce, Beat, Unregister, Exit, tableVars
    <2>2. ~ Alive(p) /\ life[p] # "unborn"
      BY <1>0, <2>1 DEF CrashKillsTable, Reached, Born
    <2>3. QED
      BY <1>0, <1>3, <2>2
      DEF Process, LaunchByHand, Announce, Beat, Unregister, Exit, Alive, Looping, TypeOK
  <1>4. Frontend => server' # "crashed"
    BY DEF Frontend, CreateStrategy, StartCommand, StopCommand, DeleteStop, CreateStop,
           CreateStart, DeleteRemove, UnregisterAccount, Idle, Serving
  <1>5. \A q \in Procs : OrderThread(q) => server' # "crashed"
    BY DEF OrderThread, TakeRegister, TakeHeartbeat, TakeUnregister, TakeRejected, Take, Serving
  <1>6. ~ StopAll /\ ~ End /\ ~ Restart /\ \A L \in SUBSET Strategies : ~ CheckHeartbeats(L)
    BY DEF StopAll, End, Restart, CheckHeartbeats
  <1>7. QED
    BY <1>1, <1>2, <1>3, <1>4, <1>5, <1>6 DEF Next

(* The crash handler leaves no process alive that the table names by its   *)
(* own pid, and none comes to life under such a pid before the next start. *)
THEOREM CrashKills == Spec => []CrashKillsTable
  <1>1. Init => TypeOK /\ Born /\ CrashKillsTable
    BY InitTypeOK DEF Init, CrashKillsTable
  <1>2. TypeOK /\ Born /\ CrashKillsTable /\ [Next]_vars
          => TypeOK' /\ Born' /\ CrashKillsTable'
    BY NextTypeOK, NextBorn, NextCrashKills
  <1>3. QED
    BY <1>1, <1>2, PTL DEF Spec

-----------------------------------------------------------------------------
(* Only entries loaded from disk are pending.                              *)
OnDisk == \A s \in Strategies : table[s].status = "pending" => s \in config

PendingStep ==
    \A s \in Strategies :
        /\ table'[s].status = "pending" => s \in config'
        /\ table[s].status = "pending" /\ table'[s].status = "running" => table'[s].pid # NoProc

LEMMA StopStrategyPending ==
  ASSUME TypeOK, OnDisk, NEW s \in Strategies, StopStrategy(s), UNCHANGED config
  PROVE  PendingStep
  <1>1. ASSUME NEW r \in Strategies PROVE table'[r].status = "stopped" \/ table'[r] = table[r]
    BY EntryFacts, StatusType DEF StopStrategy, Known, TypeOK
  <1>2. QED
    BY <1>1 DEF PendingStep, OnDisk

LEMMA StartPending ==
  ASSUME TypeOK, OnDisk, NEW s \in Strategies, UNCHANGED config,
         (\E p \in Procs : StartStrategy(s, p)) \/ StartFails(s) \/ StartRefused(s)
  PROVE  PendingStep
  <1>1. ASSUME NEW r \in Strategies
        PROVE  \/ table'[r] = table[r] \/ table'[r].status = "error"
               \/ table'[r].status = "running" /\ table'[r].pid # NoProc
    <2>1. ASSUME NEW p \in Procs, StartStrategy(s, p)
          PROVE  table'[r] = table[r] \/ (table'[r].status = "running" /\ table'[r].pid = p)
      BY <2>1 DEF StartStrategy, TypeOK
    <2>2. CASE StartFails(s)
      BY <2>2, EntryFacts, StatusType DEF StartFails, Known, TypeOK
    <2>3. CASE StartRefused(s)
      BY <2>3 DEF StartRefused
    <2>4. QED
      BY <2>1, <2>2, <2>3, ProcsAssumption
  <1>2. QED
    BY <1>1 DEF PendingStep, OnDisk

LEMMA RemovedPending ==
  ASSUME TypeOK, OnDisk, NEW S \in SUBSET Strategies, StopAndRemove(S),
         \A s \in config \ config' : table[s] = NoEntry \/ s \in S
  PROVE  PendingStep
  <1>1. ASSUME NEW r \in Strategies PROVE table'[r] = IF r \in S THEN NoEntry ELSE table[r]
    BY DEF StopAndRemove
  <1>2. NoEntry.status = "none"
    BY DEF NoEntry
  <1>3. QED
    BY <1>1, <1>2 DEF PendingStep, OnDisk

LEMMA FrontendPending == TypeOK /\ OnDisk /\ Frontend => PendingStep
  <1> SUFFICES ASSUME TypeOK, OnDisk, Frontend PROVE PendingStep
    OBVIOUS
  <1>0. fe.s \in Strategies
    BY DEF TypeOK, Commands
  <1>1. ASSUME NEW s \in Strategies, CreateStrategy(s) PROVE PendingStep
    BY <1>1 DEF CreateStrategy, RegisterStrategy, PendingStep, OnDisk, TypeOK
  <1>2. ASSUME NEW s \in Strategies, StartCommand(s) PROVE PendingStep
    BY <1>2, StartPending DEF StartCommand
  <1>3. ASSUME NEW s \in Strategies, StopCommand(s) \/ DeleteStop(s) PROVE PendingStep
    BY <1>3, StopStrategyPending DEF StopCommand, DeleteStop
  <1>4. CASE CreateStop
    BY <1>0, <1>4, StopStrategyPending DEF CreateStop
  <1>5. CASE CreateStart
    BY <1>0, <1>5, StartPending DEF CreateStart
  <1>6. CASE DeleteRemove
    <2>1. NoEntry.status = "none"
      BY DEF NoEntry
    <2>2. QED
      BY <1>0, <1>6, <2>1 DEF DeleteRemove, PendingStep, OnDisk, TypeOK
  <1>7. ASSUME NEW a \in {AccountOf[s] : s \in Strategies}, UnregisterAccount(a) PROVE PendingStep
    <2>1. OfAccount(a) \in SUBSET Strategies /\ StopAndRemove(OfAccount(a))
      BY <1>7 DEF UnregisterAccount, OfAccount
    <2>2. \A s \in config \ config' : table[s] = NoEntry \/ s \in OfAccount(a)
      BY <1>7 DEF UnregisterAccount, OfAccount, Known, TypeOK
    <2>3. QED
      BY <2>1, <2>2, RemovedPending
  <1>8. QED
    BY <1>1, <1>2, <1>3, <1>4, <1>5, <1>6, <1>7 DEF Frontend

LEMMA OrderThreadPending ==
  ASSUME TypeOK, OnDisk, NEW q \in Procs, OrderThread(q) PROVE PendingStep
  <1>0. StrategyOf[q] \in Strategies /\ NoProc \notin Procs
    BY ProcsAssumption
  <1>1. UNCHANGED config
    BY DEF OrderThread, TakeRegister, TakeHeartbeat, TakeUnregister, TakeRejected, Take
  <1>2. CASE TakeRegister(q)
    BY <1>0, <1>1, <1>2 DEF TakeRegister, RegisterStrategy, PendingStep, OnDisk, TypeOK
  <1>3. CASE TakeHeartbeat(q)
    <2>1. ASSUME NEW r \in Strategies
          PROVE  table'[r] = table[r] \/ (table[r].status # "pending" /\ table'[r].status = "running")
      BY <1>0, <1>3, EntryFacts, StatusType DEF TakeHeartbeat, RecordHeartbeat, TypeOK
    <2>2. QED
      BY <1>1, <2>1 DEF PendingStep, OnDisk
  <1>4. CASE TakeUnregister(q)
    <2>1. (IF Known(StrategyOf[q]) THEN OfAccount(AccountOf[StrategyOf[q]]) ELSE {}) \in SUBSET Strategies
      BY DEF OfAccount
    <2>2. QED
      BY <1>1, <1>4, <2>1, RemovedPending DEF TakeUnregister
  <1>5. CASE TakeRejected(q)
    BY <1>1, <1>5 DEF TakeRejected, PendingStep, OnDisk
  <1>6. QED
    BY <1>2, <1>3, <1>4, <1>5 DEF OrderThread

LEMMA ServerPending ==
  ASSUME TypeOK, OnDisk,
         (\E L \in SUBSET Strategies : CheckHeartbeats(L)) \/ StopAll \/ Crash \/ End \/ Restart
  PROVE  PendingStep
  <1>1. ASSUME NEW L \in SUBSET Strategies, CheckHeartbeats(L) PROVE PendingStep
    <2>1. ASSUME NEW r \in Strategies PROVE table'[r].status = "stopped" \/ table'[r] = table[r]
      BY <1>1, EntryFacts, StatusType DEF CheckHeartbeats, Running
    <2>2. QED
      BY <1>1, <2>1 DEF CheckHeartbeats, PendingStep, OnDisk
  <1>2. CASE StopAll
    <2>1. ASSUME NEW r \in Strategies PROVE table'[r].status = "stopped" \/ table'[r] = table[r]
      BY <1>2, EntryFacts, StatusType DEF StopAll, Running
    <2>2. QED
      BY <1>2, <2>1 DEF StopAll, PendingStep, OnDisk
  <1>3. CASE Crash \/ End
    BY <1>3 DEF Crash, End, PendingStep, OnDisk
  <1>4. CASE Restart
    <2>1. ASSUME NEW r \in Strategies
          PROVE  table'[r].status # "running" /\ (table'[r].status = "pending" => r \in config)
      BY <1>4 DEF Restart, Loaded, NoEntry
    <2>2. QED
      BY <1>4, <2>1 DEF Restart, PendingStep
  <1>5. QED
    BY <1>1, <1>2, <1>3, <1>4

(* A pending entry is not started by the heartbeats of a process that      *)
(* outlived the last server, nor by the creation of the same strategy.     *)
THEOREM PendingStaysPending == Spec => PendingStays
  <1> DEFINE Stays == \A s \in Strategies :
                        table[s].status = "pending" /\ table'[s].status = "running" =>
                            table'[s].pid # NoProc
  <1>1. Init => TypeOK /\ OnDisk
    <2>1. ASSUME Init, NEW s \in Strategies, table[s].status = "pending" PROVE s \in config
      BY <2>1 DEF Init, Loaded, NoEntry
    <2>2. QED
      BY <2>1, InitTypeOK DEF OnDisk
  <1>2. TypeOK /\ OnDisk /\ [Next]_vars => PendingStep
    <2> SUFFICES ASSUME TypeOK, OnDisk, [Next]_vars PROVE PendingStep
      OBVIOUS
    <2>1. CASE UNCHANGED vars
      BY <2>1 DEF vars, tableVars, PendingStep, OnDisk
    <2>2. ASSUME NEW q \in Procs, Process(q) PROVE PendingStep
      BY <2>2 DEF Process, LaunchByHand, Announce, Beat, Unregister, Exit, tableVars, PendingStep, OnDisk
    <2>3. QED
      BY <2>1, <2>2, FrontendPending, OrderThreadPending, ServerPending DEF Next
  <1>3. TypeOK /\ OnDisk /\ [Next]_vars => TypeOK' /\ OnDisk' /\ [Stays]_vars
    BY <1>2, NextTypeOK DEF PendingStep, OnDisk
  <1>4. QED
    BY <1>1, <1>3, PTL DEF Spec, PendingStays

=============================================================================
