--------------------------- MODULE StrategyProcess ---------------------------
(***************************************************************************)
(* The strategy process manager (src/cpp/server/managers/                  *)
(* strategy_process_manager.h) against the processes that really run.      *)
(*                                                                         *)
(* Three threads of the server share the table, each operation under its   *)
(* mutex: the frontend (create, start, stop, delete a strategy, unregister *)
(* an account), the order thread, which takes the strategies' messages     *)
(* (registration, heartbeat, unregistration) off ZeroMQ in the order each  *)
(* process sent them, and the main loop, which times entries out.  The     *)
(* server may stop in order, crash or be killed, and is started again.     *)
(*                                                                         *)
(* Left out: pids that the system uses again, clocks (any running entry    *)
(* may be late: the order thread blocks for up to 30 s in a REST call),    *)
(* the text of commands, permissions.                                      *)
(***************************************************************************)
EXTENDS Naturals, Sequences

CONSTANTS
    Strategies,
    Procs,              \* strategy processes that may be launched
    StrategyOf,         \* the strategy each of them runs
    AccountOf,          \* the account of each strategy
    Wrapped,            \* whether sh -c stays between the server and Python
    MailCap,            \* bound: messages of one process under way
    NoProc

ASSUME ProcsAssumption ==
    /\ StrategyOf \in [Procs -> Strategies]
    /\ DOMAIN AccountOf = Strategies
    /\ Wrapped \in BOOLEAN
    /\ MailCap \in Nat
    /\ NoProc \notin Procs

VARIABLES
    table,              \* strategies_: strategy -> its entry, or NoEntry
    config,             \* strategies with a configuration file on disk
    fe,                 \* the frontend command half done: [op, s]
    server,             \* life of the server
    life, told,         \* life of each process; those that have got SIGTERM
    mail,               \* what each process has sent and nobody read
    astray,             \* history: processes the table does not know, or gave up
    acked               \* history: strategies reported to the operator as stopped

tableVars == <<table, config, fe, server>>
procVars == <<life, told, mail>>
vars == <<tableVars, procVars, astray, acked>>

Entry == [status: {"pending", "running", "stopped", "error"},
          pid: Procs \cup {NoProc}, shell: BOOLEAN]
NoEntry == [status |-> "none", pid |-> NoProc, shell |-> FALSE]
Messages == {"register", "heartbeat", "unregister"}
Commands == [op: {"idle", "created", "autostart", "deleting"}, s: Strategies]

Known(s) == table[s] # NoEntry
Running(s) == table[s].status = "running"
Looping(p) == life[p] \in {"up", "left"}
Alive(p) == life[p] = "booting" \/ Looping(p)
Serving == server \in {"up", "stopping"}

Loaded(s) == IF s \in config THEN [NoEntry EXCEPT !.status = "pending"] ELSE NoEntry

Init ==
    /\ config \in SUBSET Strategies
    /\ table = [s \in Strategies |-> Loaded(s)]
    /\ fe \in [op: {"idle"}, s: Strategies]
    /\ server = "up"
    /\ life = [p \in Procs |-> "unborn"]
    /\ told = {}
    /\ mail = [p \in Procs |-> <<>>]
    /\ astray = {}
    /\ acked = {}

-----------------------------------------------------------------------------
(* Operations of StrategyProcessManager                                    *)

(* The processes that a signal to the pids of S reaches.  The pid that     *)
(* start_strategy records is the shell's: if sh stays between, the signal  *)
(* ends sh and not Python.  Registration replaces it by Python's own pid.  *)
Reached(S) == {p \in Procs : \E s \in S : table[s].pid = p /\ ~ table[s].shell}
Missed(S) == {p \in Procs : \E s \in S : table[s].pid = p /\ table[s].shell}

(* SIGTERM: Python's handler lets the main loop end; before the handler is *)
(* installed the process dies at once.                                     *)
Sigterm(K) ==
    \E D \in SUBSET {p \in K : life[p] = "booting"} :
        /\ life' = [p \in Procs |-> IF p \in D THEN "dead" ELSE life[p]]
        /\ told' = told \cup {p \in K : Alive(p)}

Sigkill(K) ==
    /\ life' = [p \in Procs |-> IF p \in K /\ Alive(p) THEN "dead" ELSE life[p]]
    /\ UNCHANGED told

RegisterStrategy(s, status, pid) ==
    table' = [table EXCEPT ![s] = [status |-> status, pid |-> pid, shell |-> FALSE]]

(* Mutant: a heartbeat starts a pending entry too. *)
RecordHeartbeatAny(s) ==
    table' = IF Known(s) THEN [table EXCEPT ![s].status = "running"] ELSE table

(* Mutant: a heartbeat does not bring a stopped entry back. *)
RecordHeartbeatOnce(s) == table' = [table EXCEPT ![s] = @]

RecordHeartbeat(s) ==
    table' = IF table[s].status \in {"stopped", "error"}
               THEN [table EXCEPT ![s].status = "running"]
               ELSE table

(* Mutant: the status is set to stopped before it is tested. *)
StopStrategySwapped(s) ==
    /\ table' = IF Known(s) THEN [table EXCEPT ![s].status = "stopped"] ELSE table
    /\ acked' = IF Known(s) THEN acked \cup {s} ELSE acked
    /\ UNCHANGED <<life, told, astray>>

(* stop_strategy.  The answer is true for every strategy in the table; it  *)
(* may be false if SIGTERM found no process, when nothing is left to stop. *)
StopStrategy(s) ==
    LET S == IF Running(s) THEN {s} ELSE {}
    IN  /\ table' = IF Known(s) THEN [table EXCEPT ![s].status = "stopped"] ELSE table
        /\ Sigterm(Reached(S))
        /\ astray' = astray \cup Missed(S)
        /\ acked' = IF Known(s) THEN acked \cup {s} ELSE acked

(* Mutant: a strategy that runs is started again. *)
StartStrategyTwice(s, p) ==
    /\ Known(s)
    /\ StrategyOf[p] = s /\ life[p] = "unborn"
    /\ life' = [life EXCEPT ![p] = "booting"]
    /\ table' = [table EXCEPT ![s] = [status |-> "running", pid |-> p, shell |-> Wrapped]]
    /\ acked' = acked \ {s}
    /\ UNCHANGED <<told, mail, astray>>

(* start_strategy, the child still there after half a second. *)
StartStrategy(s, p) ==
    /\ Known(s) /\ ~ Running(s)
    /\ StrategyOf[p] = s /\ life[p] = "unborn"
    /\ life' = [life EXCEPT ![p] = "booting"]
    /\ table' = [table EXCEPT ![s] = [status |-> "running", pid |-> p, shell |-> Wrapped]]
    /\ acked' = acked \ {s}
    /\ UNCHANGED <<told, mail, astray>>

(* start_strategy, the child gone within half a second. *)
StartFails(s) ==
    /\ Known(s) /\ ~ Running(s)
    /\ table' = [table EXCEPT ![s].status = "error"]
    /\ UNCHANGED <<procVars, astray, acked>>

(* start_strategy refuses: no such strategy, or it is running. *)
StartRefused(s) ==
    /\ ~ Known(s) \/ Running(s)
    /\ UNCHANGED <<table, procVars, astray, acked>>

(* Mutant: an entry that is removed keeps its pid. *)
StopAndRemoveStatus(S) ==
    LET R == {s \in S : Running(s)}
    IN  /\ table' = [s \in Strategies |-> IF s \in S THEN [table[s] EXCEPT !.status = "none"]
                                                   ELSE table[s]]
        /\ Sigterm(Reached(R))
        /\ astray' = astray \cup Missed(R)

StopAndRemove(S) ==
    LET R == {s \in S : Running(s)}
    IN  /\ table' = [s \in Strategies |-> IF s \in S THEN NoEntry ELSE table[s]]
        /\ Sigterm(Reached(R))
        /\ astray' = astray \cup Missed(R)

OfAccount(a) == {s \in Strategies : Known(s) /\ AccountOf[s] = a}

-----------------------------------------------------------------------------
(* The frontend thread                                                     *)

Idle == Serving /\ fe.op = "idle"

CreateStrategy(s) ==
    /\ Idle /\ s \notin config
    /\ config' = config \cup {s}
    /\ RegisterStrategy(s, "running", NoProc)
    /\ fe' = [op |-> "created", s |-> s]
    /\ astray' = astray \cup {p \in Procs : table[s].pid = p}
    /\ acked' = acked \ {s}
    /\ UNCHANGED <<server, procVars>>

CreateStop ==
    /\ Serving /\ fe.op = "created"
    /\ StopStrategy(fe.s)
    /\ \E op \in {"idle", "autostart"} : fe' = [fe EXCEPT !.op = op]
    /\ UNCHANGED <<config, server, mail>>

CreateStart ==
    /\ Serving /\ fe.op = "autostart"
    /\ (\E p \in Procs : StartStrategy(fe.s, p)) \/ StartFails(fe.s) \/ StartRefused(fe.s)
    /\ fe' = [fe EXCEPT !.op = "idle"]
    /\ UNCHANGED <<config, server>>

StartCommand(s) ==
    /\ Idle
    /\ (\E p \in Procs : StartStrategy(s, p)) \/ StartFails(s)
    /\ UNCHANGED <<config, fe, server>>

StopCommand(s) ==
    /\ Idle
    /\ StopStrategy(s)
    /\ UNCHANGED <<config, fe, server, mail>>

(* delete_strategy: stop_strategy, then unregister_strategy *)
DeleteStop(s) ==
    /\ Idle
    /\ StopStrategy(s)
    /\ fe' = [op |-> "deleting", s |-> s]
    /\ UNCHANGED <<config, server, mail>>

DeleteRemove ==
    /\ Serving /\ fe.op = "deleting"
    /\ table' = [table EXCEPT ![fe.s] = NoEntry]
    /\ astray' = astray \cup {p \in Procs : table[fe.s].pid = p}
    /\ config' = config \ {fe.s}
    /\ fe' = [fe EXCEPT !.op = "idle"]
    /\ UNCHANGED <<server, procVars, acked>>

UnregisterAccount(a) ==
    /\ Idle
    /\ StopAndRemove(OfAccount(a))
    /\ config' = {s \in config : AccountOf[s] # a}
    /\ UNCHANGED <<fe, server, mail, acked>>

Frontend ==
    \/ \E s \in Strategies :
          CreateStrategy(s) \/ StartCommand(s) \/ StopCommand(s) \/ DeleteStop(s)
    \/ CreateStop \/ CreateStart \/ DeleteRemove
    \/ \E a \in {AccountOf[s] : s \in Strategies} : UnregisterAccount(a)

-----------------------------------------------------------------------------
(* The order thread: process_register_account, heartbeat,                  *)
(* process_unregister_account                                              *)

Take(p, msg) ==
    /\ Serving
    /\ mail[p] # <<>> /\ Head(mail[p]) = msg
    /\ mail' = [mail EXCEPT ![p] = Tail(@)]
    /\ UNCHANGED <<config, fe, server>>

TakeRegister(p) ==
    LET s == StrategyOf[p]
    IN  /\ Take(p, "register")
        /\ RegisterStrategy(s, "running", p)
        /\ astray' = (astray \cup {q \in Procs : table[s].pid = q}) \ {p}
        /\ acked' = acked \ {s}
        /\ UNCHANGED <<life, told>>

TakeHeartbeat(p) ==
    LET s == StrategyOf[p]
    IN  /\ Take(p, "heartbeat")
        /\ RecordHeartbeat(s)
        /\ astray' = IF table'[s].status = "running" /\ p \in Reached({s})
                       THEN astray \ {p} ELSE astray
        /\ UNCHANGED <<life, told, acked>>

TakeUnregister(p) ==
    LET s == StrategyOf[p]
    IN  /\ Take(p, "unregister")
        /\ StopAndRemove(IF Known(s) THEN OfAccount(AccountOf[s]) ELSE {})
        /\ UNCHANGED acked

(* Credentials are missing, or the registry does not know the account. *)
TakeRejected(p) ==
    /\ \E msg \in {"register", "unregister"} : Take(p, msg)
    /\ UNCHANGED <<table, life, told, astray, acked>>

OrderThread(p) ==
    TakeRegister(p) \/ TakeHeartbeat(p) \/ TakeUnregister(p) \/ TakeRejected(p)

-----------------------------------------------------------------------------
(* The main loop, the end of the server and its next start                 *)

(* Mutant: an entry is stopped only if it has no process to look at. *)
CheckHeartbeatsSparing(L) ==
    /\ server = "up"
    /\ L # {} /\ \A s \in L : Running(s) /\ table[s].pid = NoProc
    /\ table' = [s \in Strategies |-> IF s \in L THEN [table[s] EXCEPT !.status = "stopped"]
                                                 ELSE table[s]]
    /\ astray' = astray \cup Reached(L) \cup Missed(L)
    /\ UNCHANGED <<config, fe, server, procVars, acked>>

(* check_heartbeats finds the entries of L late. *)
CheckHeartbeats(L) ==
    /\ server = "up"
    /\ L # {} /\ \A s \in L : Running(s)
    /\ table' = [s \in Strategies |-> IF s \in L THEN [table[s] EXCEPT !.status = "stopped"]
                                                 ELSE table[s]]
    /\ astray' = astray \cup Reached(L) \cup Missed(L)
    /\ UNCHANGED <<config, fe, server, procVars, acked>>

(* stop_all_strategies: SIGTERM to what runs and, if anything did, SIGKILL *)
(* a second later to every pid in the table.  The frontend serves on.      *)
StopAll ==
    LET R == {s \in Strategies : Running(s) /\ table[s].pid # NoProc}
    IN  /\ server = "up"
        /\ server' = "stopping"
        /\ table' = [s \in Strategies |-> IF s \in R THEN [table[s] EXCEPT !.status = "stopped"]
                                                     ELSE table[s]]
        /\ Sigkill(IF R = {} THEN {} ELSE Reached(Strategies))
        /\ astray' = astray \cup Missed(R)
        /\ UNCHANGED <<config, fe, mail, acked>>

(* Mutant: only the running entries are killed. *)
CrashRunningOnly ==
    /\ Serving
    /\ server' = "crashed"
    /\ Sigkill(Reached({s \in Strategies : Running(s)}))
    /\ UNCHANGED <<table, config, fe, mail, astray, acked>>

(* crash_signal_handler, kill_all_strategies_unsafe *)
Crash ==
    /\ Serving
    /\ server' = "crashed"
    /\ Sigkill(Reached(Strategies))
    /\ UNCHANGED <<table, config, fe, mail, astray, acked>>

(* The end of main, or a second signal: _Exit without any clean-up. *)
End ==
    /\ Serving
    /\ server' = "down"
    /\ UNCHANGED <<table, config, fe, procVars, astray, acked>>

(* The next server loads the configurations and knows no process. *)
Restart ==
    /\ ~ Serving
    /\ server' = "up"
    /\ table' = [s \in Strategies |-> Loaded(s)]
    /\ fe' = [fe EXCEPT !.op = "idle"]
    /\ astray' = {p \in Procs : life[p] # "unborn"}
    /\ acked' = {}
    /\ UNCHANGED <<config, procVars>>

-----------------------------------------------------------------------------
(* The processes                                                           *)

Send(p, msg) ==
    /\ Len(mail[p]) < MailCap
    /\ mail' = [mail EXCEPT ![p] = Append(@, msg)]

(* A strategy is started by hand, past the server. *)
LaunchByHand(p) ==
    /\ life[p] = "unborn"
    /\ life' = [life EXCEPT ![p] = "booting"]
    /\ astray' = astray \cup {p}
    /\ UNCHANGED <<tableVars, told, mail, acked>>

(* on_init registers the account; the main loop begins. *)
Announce(p) ==
    /\ life[p] = "booting"
    /\ Send(p, "register")
    /\ life' = [life EXCEPT ![p] = "up"]
    /\ UNCHANGED <<tableVars, told, astray, acked>>

Beat(p) ==
    /\ Looping(p)
    /\ Send(p, "heartbeat")
    /\ UNCHANGED <<tableVars, life, told, astray, acked>>

(* A strategy takes its account back, at most once (bound), and runs on.   *)
Unregister(p) ==
    /\ life[p] = "up"
    /\ Send(p, "unregister")
    /\ life' = [life EXCEPT ![p] = "left"]
    /\ UNCHANGED <<tableVars, told, astray, acked>>

Exit(p) ==
    /\ Alive(p)
    /\ life' = [life EXCEPT ![p] = "dead"]
    /\ UNCHANGED <<tableVars, told, mail, astray, acked>>

Process(p) == LaunchByHand(p) \/ Announce(p) \/ Beat(p) \/ Unregister(p) \/ Exit(p)

-----------------------------------------------------------------------------
Next ==
    \/ Frontend
    \/ \E p \in Procs : OrderThread(p) \/ Process(p)
    \/ \E L \in SUBSET Strategies : CheckHeartbeats(L)
    \/ StopAll \/ Crash \/ End \/ Restart

Alone(s) == \A p \in Procs : StrategyOf[p] = s => ~ Alive(p) /\ mail[p] = <<>>

(* The order thread takes every process's messages, the main loop finds an *)
(* entry late once nobody beats for it, a process that is up beats every   *)
(* five seconds, and the frontend ends what it began.                      *)
Fairness ==
    /\ \A p \in Procs : WF_vars(OrderThread(p)) /\ WF_vars(Beat(p))
    /\ \A s \in Strategies :
          WF_vars(\E L \in SUBSET Strategies : s \in L /\ Alone(s) /\ CheckHeartbeats(L))
    /\ WF_vars(CreateStop \/ CreateStart \/ DeleteRemove)

Spec == Init /\ [][Next]_vars /\ Fairness

-----------------------------------------------------------------------------
(* Properties *)

(* Types of the variables. *)
TypeOK ==
    /\ table \in [Strategies -> Entry \cup {NoEntry}]
    /\ config \in SUBSET Strategies
    /\ fe \in Commands
    /\ server \in {"up", "stopping", "crashed", "down"}
    /\ life \in [Procs -> {"unborn", "booting", "up", "left", "dead"}]
    /\ told \in SUBSET Procs
    /\ mail \in [Procs -> Seq(Messages)]
    /\ astray \in SUBSET Procs
    /\ acked \in SUBSET Strategies

(* Every process of a strategy that the table has taken in and not given   *)
(* up - by a time-out, a late registration, a removal, a signal that only  *)
(* reached the shell, a restart - and that was not told to end is the one  *)
(* its entry names as running.                                             *)
Tracked ==
    Serving => \A p \in Procs :
        Alive(p) /\ p \notin told \cup astray =>
            Running(StrategyOf[p]) /\ table[StrategyOf[p]].pid = p

(* Two processes of one strategy trade at the same time only if the table  *)
(* had lost one of them: start_strategy alone, in whatever order it meets  *)
(* stops, heartbeats and registrations, never makes a twin.                *)
NoTwins ==
    Serving => \A p, q \in Procs :
        p # q /\ StrategyOf[p] = StrategyOf[q] /\ Alive(p) /\ Alive(q) =>
            {p, q} \cap (told \cup astray) # {}

(* After a crash nothing is alive that the table names by its own pid,     *)
(* whatever its status was: late, stopped or replaced.                     *)
CrashKillsTable ==
    server = "crashed" => \A p \in Reached(Strategies) : ~ Alive(p)

(* A pending entry, loaded from disk, becomes running only by a start or a *)
(* registration: heartbeats of a process that outlived the last server do  *)
(* not start it.                                                           *)
PendingStays ==
    [][\A s \in Strategies :
         table[s].status = "pending" /\ table'[s].status = "running" =>
             table'[s].pid # NoProc]_vars

(* A strategy of which no process is left does not stay shown as running,  *)
(* whatever late messages it left behind.                                  *)
Gone(s) == \A p \in Procs : StrategyOf[p] = s => ~ Alive(p)
StatusSettles ==
    \A s \in Strategies :
        server = "up" /\ Running(s) /\ Gone(s) ~> ~ (server = "up" /\ Running(s) /\ Gone(s))

(* A process that stays up is shown as running again and again, as long as *)
(* its strategy is known: a time-out that was wrong heals.                 *)
Shown(p) == server = "up" /\ Looping(p) /\ table[StrategyOf[p]].status \notin {"none", "pending"}
AliveIsShown ==
    \A p \in Procs : <>[]Shown(p) => []<>Running(StrategyOf[p])

-----------------------------------------------------------------------------
(* What the code's comment says and the code does not do.                  *)

(* stop_strategy "returns true if SIGTERM was sent": once the operator has *)
(* been told that a strategy was stopped, and until it is started or       *)
(* registers again, the process that its entry names has been told to end. *)
StopAcknowledged ==
    \A p \in Procs :
        StrategyOf[p] \in acked /\ table[StrategyOf[p]].pid = p /\ Alive(p) => p \in told

=============================================================================
