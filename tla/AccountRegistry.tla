--------------------------- MODULE AccountRegistry ---------------------------
(***************************************************************************)
(* The accounts of one exchange: with which API object an account and each *)
(* strategy trade, which objects the account monitor polls, and the files  *)
(* of the accounts.  Two threads change them: the frontend's for the       *)
(* operator, the order thread for strategies that register and leave.      *)
(* Each call into the registry or the monitor locks it and is a step.      *)
(***************************************************************************)
EXTENDS Naturals, FiniteSets

CONSTANTS
    Accounts,           \* account ids
    Traders,            \* strategy ids
    Creds               \* API keys with their secrets

(* The code compares the two ids of a request only with each other; that   *)
(* no strategy has the id of another's account is left to the operator.    *)
ASSUME AccountsAssumption == Accounts \cap Traders = {} /\ "" \notin Accounts \cup Traders \cup Creds

VARIABLES
    registry,           \* okx_accounts_: the API object under each key
    default,            \* default_okx_account_
    failed,             \* ids of the objects whose status is ERROR
    watched,            \* the monitor's okx_accounts_: raw pointers
    told,               \* g_strategy_account_map
    files,              \* acount_configs/<exchange>_<account>.json
    front, order,       \* what the two threads are doing
    missed,             \* history: strategies that did not get the alias promised
    upset               \* history: accounts whose records came to differ

accountVars == <<registry, default, failed, watched, told, files, front, order, missed, upset>>
registryVars == <<registry, default, failed>>
historyVars == <<missed, upset>>

None == ""
Keys == Accounts \cup Traders
NoApi == [id |-> 0, account |-> None, cred |-> None]
Idle == [step |-> "idle", key |-> None, account |-> None, cred |-> None]
Doing(step, key, account, cred) == [step |-> step, key |-> key, account |-> account, cred |-> cred]

AccountInit ==
    /\ registry = [k \in Keys |-> NoApi] /\ default = NoApi /\ failed = {}
    /\ watched = [k \in Keys \cup {None} |-> NoApi]
    /\ told = [s \in Traders |-> None]
    /\ files = [a \in Accounts |-> None]
    /\ front = Idle /\ order = Idle /\ missed = {} /\ upset = {}

-----------------------------------------------------------------------------
(* The registry. *)

Held == {registry[k] : k \in Keys} \cup {watched[k] : k \in DOMAIN watched} \cup {default}
NewId == CHOOSE n \in 1 .. Cardinality(Held) + 1 : \A o \in Held : o.id # n
New(account, cred) == [id |-> NewId, account |-> account, cred |-> cred]

Registers(key, account, cred) ==
    /\ registry' = [registry EXCEPT ![key] = New(account, cred)]
    /\ failed' = failed \ {NewId}
    /\ UNCHANGED default

SetsDefault(cred) ==
    /\ default' = New(None, cred)
    /\ failed' = failed \ {NewId}
    /\ UNCHANGED registry

(* get_okx_api: the key's own object if its status is ACTIVE, the default. *)
GetApi(key) ==
    IF key # None /\ registry[key] # NoApi /\ registry[key].id \notin failed
    THEN registry[key] ELSE default

(* An unregistered account loses every key under which it is known. *)
Same(o, p) == o = p \/ (o.account # None /\ p.account = o.account)
Unregisters(key) ==
    registry' = [k \in Keys |-> IF registry[key] # NoApi /\ registry[k] # NoApi /\ Same(registry[key], registry[k])
                                THEN NoApi ELSE registry[k]]
Aliases(key, account) == registry' = [registry EXCEPT ![key] = registry[account]]

-----------------------------------------------------------------------------
(* The frontend's thread: register_account with an account id or none.     *)

FrontRegisters(a, cred) ==
    /\ front = Idle
    /\ Registers(a, a, cred)
    /\ front' = Doing("check", a, a, cred)
    /\ UNCHANGED <<watched, told, files, order, historyVars>>

FrontSetsDefault(cred) ==
    /\ front = Idle
    /\ SetsDefault(cred)
    /\ front' = Doing("check", None, None, cred)
    /\ UNCHANGED <<watched, told, files, order, historyVars>>

(* health_check asks with the API there is, and files the answer by key.   *)
FrontAsks ==
    /\ front.step = "check"
    /\ front' = [front EXCEPT !.step = IF GetApi(front.key) = NoApi THEN "rollBack" ELSE "answer"]
    /\ UNCHANGED <<registryVars, watched, told, files, order, historyVars>>

FrontAnswered(valid) ==
    /\ front.step = "answer"
    /\ failed' = IF front.key = None \/ registry[front.key] = NoApi THEN failed
                 ELSE IF valid THEN failed \ {registry[front.key].id}
                 ELSE failed \cup {registry[front.key].id}
    /\ front' = [front EXCEPT !.step = IF valid THEN "watch" ELSE "rollBack"]
    /\ UNCHANGED <<registry, default, watched, told, files, order, historyVars>>

(* Mutant: the account whose API is not valid stays registered. *)
FrontKeeps ==
    /\ front.step = "rollBack"
    /\ front' = Idle
    /\ UNCHANGED <<registryVars, watched, told, files, order, historyVars>>

(* unregister_account, and nothing for the default; the one object that    *)
(* failed is in no other place.                                            *)
FrontRollsBack ==
    /\ front.step = "rollBack"
    /\ failed' = {}
    /\ IF front.key = None THEN UNCHANGED <<registry, upset>>
       ELSE /\ Unregisters(front.key)
            /\ upset' = IF files[front.key] = None THEN upset ELSE upset \cup {front.key}
    /\ front' = Idle
    /\ UNCHANGED <<default, watched, told, files, order, missed>>

FrontWatches ==
    /\ front.step = "watch"
    /\ watched' = IF GetApi(front.key) = NoApi THEN watched
                  ELSE [watched EXCEPT ![front.key] = GetApi(front.key)]
    /\ front' = IF front.account = None THEN Idle ELSE [front EXCEPT !.step = "save"]
    /\ UNCHANGED <<registryVars, told, files, order, historyVars>>

FrontSaves ==
    /\ front.step = "save"
    /\ \/ files' = [files EXCEPT ![front.account] = front.cred] /\ UNCHANGED upset
       \/ UNCHANGED files /\ upset' = upset \cup {front.account}
    /\ front' = Idle
    /\ UNCHANGED <<registryVars, watched, told, order, missed>>

(* unregister_account for a row of the list, which names its key twice.    *)
FrontUnregisters(k) ==
    /\ front = Idle
    /\ Unregisters(k)
    /\ front' = Doing(IF registry[k] = NoApi THEN "delete" ELSE "forget", k, k, None)
    /\ upset' = upset \cup (({registry[k].account} \cap Accounts) \ {k})
    /\ UNCHANGED <<default, failed, watched, told, files, order, missed>>

FrontForgets ==
    /\ front.step = "forget"
    /\ watched' = [watched EXCEPT ![front.key] = NoApi]
    /\ front' = [front EXCEPT !.step = "delete"]
    /\ UNCHANGED <<registryVars, told, files, order, historyVars>>

FrontDeletes ==
    /\ front.step = "delete"
    /\ files' = [a \in Accounts |-> IF a = front.account THEN None ELSE files[a]]
    /\ front' = Idle
    /\ UNCHANGED <<registryVars, watched, told, order, historyVars>>

FrontThread ==
    \/ \E cred \in Creds : FrontSetsDefault(cred) \/ \E a \in Accounts : FrontRegisters(a, cred)
    \/ FrontAsks \/ \E valid \in BOOLEAN : FrontAnswered(valid)
    \/ FrontRollsBack \/ FrontWatches \/ FrontSaves
    \/ \E k \in Keys : FrontUnregisters(k)
    \/ FrontForgets \/ FrontDeletes

-----------------------------------------------------------------------------
(* The order thread: process_register_account, without a strategy, without *)
(* an account, with one that is registered, and with a new one.            *)

OrderSetsDefault(cred) ==
    /\ order = Idle
    /\ SetsDefault(cred)
    /\ UNCHANGED <<watched, told, files, front, order, historyVars>>

OrderRegistersOwn(s, cred) ==
    /\ order = Idle
    /\ Registers(s, None, cred)
    /\ order' = Doing("watch", s, None, cred)
    /\ missed' = missed \ {s}
    /\ UNCHANGED <<watched, told, files, front, upset>>

OrderFinds(s, a, cred) ==
    /\ order = Idle /\ registry[a] # NoApi
    /\ order' = Doing("alias", s, a, cred)
    /\ UNCHANGED <<registryVars, watched, told, files, front, historyVars>>

OrderRegistersNew(s, a, cred) ==
    /\ order = Idle /\ registry[a] = NoApi
    /\ Registers(a, a, cred)
    /\ order' = Doing("aliasNew", s, a, cred)
    /\ upset' = upset \cup {a}
    /\ UNCHANGED <<watched, told, files, front, missed>>

(* The account found is gone again: the strategy gets an object of its own. *)
OrderAliases ==
    /\ order.step = "alias"
    /\ IF registry[order.account] = NoApi THEN Registers(order.key, None, order.cred)
       ELSE Aliases(order.key, order.account) /\ UNCHANGED <<default, failed>>
    /\ order' = [order EXCEPT !.step = "tell"]
    /\ missed' = missed \ {order.key}
    /\ UNCHANGED <<watched, told, files, front, upset>>

(* The account just made is gone again: the strategy keeps what it had.    *)
OrderAliasesNew ==
    /\ order.step = "aliasNew"
    /\ IF registry[order.account] = NoApi
       THEN UNCHANGED registry /\ missed' = missed \cup {order.key}
       ELSE Aliases(order.key, order.account) /\ missed' = missed \ {order.key}
    /\ order' = [order EXCEPT !.step = "tell"]
    /\ UNCHANGED <<default, failed, watched, told, files, front, upset>>

(* Mutant: what is told first stays. *)
OrderTellsOnce ==
    /\ order.step = "tell"
    /\ told' = [told EXCEPT ![order.key] = IF @ = None THEN order.account ELSE @]
    /\ order' = [order EXCEPT !.step = "watch"]
    /\ UNCHANGED <<registryVars, watched, files, front, historyVars>>

OrderTells ==
    /\ order.step = "tell"
    /\ told' = [told EXCEPT ![order.key] = order.account]
    /\ order' = [order EXCEPT !.step = "watch"]
    /\ UNCHANGED <<registryVars, watched, files, front, historyVars>>

(* already_monitored asks the registry, after the registration. *)
AlreadyMonitored == order.account # None /\ GetApi(order.account) # NoApi
OrderWatches ==
    /\ order.step = "watch"
    /\ watched' = IF AlreadyMonitored \/ GetApi(order.key) = NoApi THEN watched
                  ELSE [watched EXCEPT ![order.key] = GetApi(order.key)]
    /\ order' = Idle
    /\ UNCHANGED <<registryVars, told, files, front, historyVars>>

(* process_unregister_account: the monitor forgets the strategy's key only. *)
OrderUnregisters(s) ==
    /\ order = Idle /\ registry[s] # NoApi
    /\ Unregisters(s)
    /\ order' = Doing("forget", s, None, None)
    /\ upset' = upset \cup ({registry[s].account} \cap Accounts)
    /\ UNCHANGED <<default, failed, watched, told, files, front, missed>>

OrderForgets ==
    /\ order.step = "forget"
    /\ watched' = [watched EXCEPT ![order.key] = NoApi]
    /\ order' = Idle
    /\ UNCHANGED <<registryVars, told, files, front, historyVars>>

OrderThread ==
    \/ \E cred \in Creds :
         \/ OrderSetsDefault(cred)
         \/ \E s \in Traders :
              \/ OrderRegistersOwn(s, cred)
              \/ \E a \in Accounts : OrderFinds(s, a, cred) \/ OrderRegistersNew(s, a, cred)
    \/ OrderAliases \/ OrderAliasesNew \/ OrderTells \/ OrderWatches
    \/ \E s \in Traders : OrderUnregisters(s)
    \/ OrderForgets

-----------------------------------------------------------------------------
(* The server starts anew: every file is registered and monitored. *)
Number == CHOOSE f \in [Accounts -> 1 .. Cardinality(Accounts)] : \A a, b \in Accounts : f[a] = f[b] => a = b
FromFile(a) == [id |-> Number[a], account |-> a, cred |-> files[a]]

ServerRestarts ==
    /\ registry' = [k \in Keys |-> IF k \in Accounts /\ files[k] # None THEN FromFile(k) ELSE NoApi]
    /\ watched' = [k \in DOMAIN watched |-> IF k \in Accounts THEN registry'[k] ELSE NoApi]
    /\ default' = NoApi /\ failed' = {} /\ told' = [s \in Traders |-> None]
    /\ front' = Idle /\ order' = Idle /\ missed' = {} /\ upset' = {}
    /\ UNCHANGED files

AccountNext == FrontThread \/ OrderThread \/ ServerRestarts

AccountSpec == AccountInit /\ [][AccountNext]_accountVars

-----------------------------------------------------------------------------
(* PROPERTIES *)

(* A strategy never trades with the API of an account it is not told of:   *)
(* between two requests its object is the account's, or one of its own, or *)
(* it has none; unless the account was removed while it was being made.    *)
OwnAccount ==
    order = Idle => \A s \in Traders \ missed : registry[s].account \in {None, told[s]}

(* When the operator's request is done, the file of an account, its object *)
(* in the registry and the one the monitor polls agree: the same           *)
(* credentials and the same object, or none at all.  It takes one of four  *)
(* things to part them: a removal under the name of a strategy that trades *)
(* with it, a strategy that brings a new account, a second registration    *)
(* that fails, a file that cannot be written.                              *)
AccountsAgree ==
    front = Idle => \A a \in Accounts \ upset :
        /\ watched[a] = registry[a]
        /\ registry[a].account = (IF files[a] = None THEN None ELSE a)
        /\ registry[a].cred = files[a]

=============================================================================
