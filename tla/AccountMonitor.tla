---------------------------- MODULE AccountMonitor ----------------------------
(***************************************************************************)
(* The account monitor's polling thread (AccountMonitor, REST mode, in     *)
(* src/cpp/server/managers/account_monitor.h): every ten seconds it visits *)
(* the accounts one after the other, reads balance, positions and resting  *)
(* orders over REST, and hands each to the risk manager.  A read takes     *)
(* place at the exchange; what it returned is handed over later, position  *)
(* by position, while the order thread keeps checking orders against a     *)
(* half-updated table.                                                     *)
(***************************************************************************)
EXTENDS Exchange

CONSTANTS
    PnlValues,          \* the unrealised results a balance may show
    ReportsFlat,        \* accounts whose exchange also lists flat instruments
    PollMayFail,        \* whether a REST read of the monitor may throw
    NoAccount

ASSUME MonitorAssumption ==
    /\ PnlValues \subseteq Int
    /\ ReportsFlat \subseteq Accounts
    /\ PollMayFail \in BOOLEAN
    /\ NoAccount \notin Accounts

VARIABLES
    monPc,              \* the read that comes next for account monAcct
    todo,               \* accounts this round has not finished; monAcct is one
    monAcct,
    rows                \* position rows read and not yet handed over

monitorVars == <<monPc, todo, monAcct, rows>>

NoRows == [s \in {} |-> 0]

MonitorInit ==
    /\ monPc = "wait"
    /\ todo = {}
    /\ monAcct = NoAccount
    /\ rows = NoRows

(* Mutant: the Binance accounts are not visited. *)
BeginOkxRound ==
    /\ monPc = "wait"
    /\ todo' = OkxAccounts
    /\ monPc' = "next"
    /\ UNCHANGED <<monAcct, rows, exchangeVars, riskVars>>

(* update_all_accounts: a new round, over a copy of the account map. *)
BeginRound ==
    /\ monPc = "wait"
    /\ todo' = Accounts
    /\ monPc' = "next"
    /\ UNCHANGED <<monAcct, rows, exchangeVars, riskVars>>

(* The OKX accounts come first. *)
NextAccount(a) ==
    /\ monPc = "next" /\ a \in todo
    /\ a \in OkxAccounts \/ todo \cap OkxAccounts = {}
    /\ monAcct' = a
    /\ monPc' = "balance"
    /\ UNCHANGED <<todo, rows, exchangeVars, riskVars>>

EndRound ==
    /\ monPc = "next" /\ todo = {}
    /\ monPc' = "wait"
    /\ UNCHANGED <<todo, monAcct, rows, exchangeVars, riskVars>>

Leave == todo' = todo \ {monAcct} /\ monPc' = "next"

(* get_account_balance; update_daily_pnl *)
PollBalance(pnl) ==
    /\ monPc = "balance"
    /\ UpdateDailyPnl(pnl)
    /\ monPc' = "positions"
    /\ UNCHANGED <<todo, monAcct, rows, exchangeVars, positionValues, openOrderCount>>

(* get_positions *)
ListedSymbols(a) ==
    {s \in SymbolsOf[a] : exPos[a][s] # 0 \/ a \in ReportsFlat}

(* Mutant: the notional keeps its sign. *)
FetchPositionsSigned ==
    /\ monPc = "positions"
    /\ rows' = [s \in ListedSymbols(monAcct) |-> exPos[monAcct][s]]
    /\ sinceFetch' = [sinceFetch EXCEPT ![monAcct] =
                          [s \in Symbols |-> IF s \in ListedSymbols(monAcct)
                                                THEN 0 ELSE @[s]]]
    /\ monPc' = "apply"
    /\ UNCHANGED <<todo, monAcct, ord, exSt, left, exPos, unseen, riskVars>>

FetchPositions ==
    /\ monPc = "positions"
    /\ rows' = [s \in ListedSymbols(monAcct) |-> Held(monAcct, s)]
    /\ sinceFetch' = [sinceFetch EXCEPT ![monAcct] =
                          [s \in Symbols |-> IF s \in ListedSymbols(monAcct)
                                                THEN 0 ELSE @[s]]]
    /\ monPc' = "apply"
    /\ UNCHANGED <<todo, monAcct, ord, exSt, left, exPos, unseen, riskVars>>

(* update_position, once per row *)
ApplyPosition(s) ==
    /\ monPc = "apply" /\ s \in DOMAIN rows
    /\ UpdatePosition(s, rows[s])
    /\ unseen' = [unseen EXCEPT ![monAcct][s] = sinceFetch[monAcct][s]]
    /\ rows' = [u \in DOMAIN rows \ {s} |-> rows[u]]
    /\ UNCHANGED <<monPc, todo, monAcct, ord, exSt, left, exPos, sinceFetch>>
    /\ UNCHANGED <<openOrderCount, dailyPnl>>

Resting(a) == {o \in Orders : exSt[o] = "open" /\ ord[o].acct = a}

(* get_pending_orders, set_open_order_count: OKX accounts only *)
PollOpenOrders ==
    /\ monPc = "apply" /\ DOMAIN rows = {}
    /\ IF monAcct \in OkxAccounts
         THEN SetOpenOrderCount(Cardinality(Resting(monAcct)))
         ELSE UNCHANGED openOrderCount
    /\ Leave
    /\ UNCHANGED <<monAcct, rows, exchangeVars, positionValues, dailyPnl>>

(* A read answers with an error or in an unknown shape: it is skipped. *)
SkipRead ==
    /\ PollMayFail
    /\ \/ monPc = "balance" /\ monPc' = "positions"
       \/ monPc = "positions" /\ monPc' = "apply"
    /\ UNCHANGED <<todo, monAcct, rows, exchangeVars, riskVars>>

(* A read throws, or a number in a row does not parse: the rest of this    *)
(* account's update is skipped.                                            *)
PollFails ==
    /\ PollMayFail
    /\ monPc \in {"balance", "positions", "apply"}
    /\ rows' = NoRows
    /\ Leave
    /\ UNCHANGED <<monAcct, exchangeVars, riskVars>>

=============================================================================
