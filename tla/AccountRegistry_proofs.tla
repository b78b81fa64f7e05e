------------------------ MODULE AccountRegistry_proofs ------------------------
(***************************************************************************)
(* Proofs about the accounts: whose API a strategy trades with (OwnAccount) *)
(* and that registry, monitor and files agree (AccountsAgree), for any     *)
(* accounts, strategies and credentials.                                   *)
(***************************************************************************)
EXTENDS AccountRegistry, TLAPS

Names == Keys \cup {None}
OrderSteps == {"idle", "alias", "aliasNew", "tell", "watch", "forget"}
FrontSteps == {"idle", "check", "answer", "rollBack", "watch", "save", "forget", "delete"}

(* What object an id stands for is of no matter here, so ids have no type. *)
Shape ==
    /\ DOMAIN registry = Keys /\ DOMAIN watched = Names
    /\ DOMAIN told = Traders /\ files \in [Accounts -> Creds \cup {None}]
    /\ order \in [step : OrderSteps, key : Names, account : Names, cred : Creds \cup {None}]
    /\ front \in [step : FrontSteps, key : Names, account : Names, cred : Creds \cup {None}]

(* The order thread works for a strategy, and writes no account's key. *)
OrderKey ==
    /\ order.step # "idle" => order.key \in Traders
    /\ order.step = "idle" => order = Idle
    /\ order.step \in {"alias", "aliasNew", "tell"} => order.account \in Accounts

(* Under an account's id is an object of this account. *)
OwnObject == \A a \in Accounts : registry[a] = NoApi \/ registry[a].account = a

(* OwnAccount, in the middle of a registration too. *)
Promised(s) == IF order.step = "tell" /\ order.key = s THEN order.account ELSE told[s]
KeepsPromise == \A s \in Traders \ missed : registry[s].account \in {None, Promised(s)}

(* The operator's request is about one account, one strategy, or none. *)
FrontKey ==
    /\ front.step = "idle" => front = Idle
    /\ front.key = front.account
    /\ front.step \in {"forget", "delete"} => front.key \in Keys
    /\ front.step \in {"check", "answer", "rollBack", "watch", "save"} =>
        /\ front.key \in Accounts \cup {None} /\ front.cred \in Creds
    /\ front.step = "save" => front.key \in Accounts

Agrees(a) ==
    /\ watched[a] = registry[a]
    /\ registry[a].account = (IF files[a] = None THEN None ELSE a)
    /\ registry[a].cred = files[a]

(* What is known of the account that the request is about. *)
Made(a) == registry[a].account = a /\ registry[a].cred = front.cred /\ registry[a] # NoApi
HalfDone(a) ==
    \/ front.step \in {"check", "answer", "rollBack"} /\ Made(a) /\ (files[a] = None => watched[a] = NoApi)
    \/ front.step = "watch" /\ Made(a) /\ registry[a].id \notin failed
    \/ front.step = "save" /\ Made(a) /\ watched[a] = registry[a]
    \/ front.step = "forget" /\ registry[a] = NoApi
    \/ front.step = "delete" /\ registry[a] = NoApi /\ watched[a] = NoApi

AgreeInv ==
    \A a \in Accounts \ upset : IF front.step # "idle" /\ front.key = a THEN HalfDone(a) ELSE Agrees(a)

TradeInv == Shape /\ OrderKey /\ OwnObject /\ KeepsPromise
Inv == TradeInv /\ FrontKey /\ AgreeInv

-----------------------------------------------------------------------------
USE AccountsAssumption DEF None

LEMMA InitInv == AccountInit => Inv
<1> SUFFICES ASSUME AccountInit PROVE Inv
  OBVIOUS
<1>1. Shape
  BY DEF AccountInit, Shape, Idle, Names, Keys, OrderSteps, FrontSteps
<1>2. OrderKey /\ OwnObject /\ KeepsPromise /\ FrontKey
  BY DEF AccountInit, OrderKey, OwnObject, KeepsPromise, Promised, FrontKey, Idle, NoApi, Keys
<1>3. AgreeInv
  <2> SUFFICES ASSUME NEW a \in Accounts PROVE Agrees(a)
    BY DEF AccountInit, AgreeInv, Idle
  <2> QED
    BY DEF AccountInit, Agrees, NoApi, Keys
<1> QED
  BY <1>1, <1>2, <1>3 DEF Inv, TradeInv

-----------------------------------------------------------------------------
(* Each step keeps the shape, whose API a strategy trades with, and what agrees. *)

LEMMA Unregistered ==
  ASSUME NEW key \in Keys, DOMAIN registry = Keys, Unregisters(key)
  PROVE  /\ DOMAIN registry' = Keys /\ registry'[key] = NoApi
         /\ \A k \in Keys : \/ registry'[k] = registry[k]
                            \/ /\ registry'[k] = NoApi /\ registry[key] # NoApi
                               /\ registry[k].account = registry[key].account
<1>1. registry' = [k \in Keys |-> IF registry[key] # NoApi /\ registry[k] # NoApi /\ Same(registry[key], registry[k])
                                  THEN NoApi ELSE registry[k]]
  BY DEF Unregisters
<1>2. registry'[key] = NoApi
  BY <1>1 DEF Same
<1>3. ASSUME NEW k \in Keys, registry'[k] # registry[k]
      PROVE  registry'[k] = NoApi /\ registry[key] # NoApi /\ registry[k].account = registry[key].account
  BY <1>1, <1>3 DEF Same
<1> QED
  BY <1>1, <1>2, <1>3

LEMMA ShapeStep ==
  ASSUME Inv, AccountNext
  PROVE  Shape'
<1> USE DEF Inv, TradeInv
<1>1. ASSUME NEW cred \in Creds, FrontSetsDefault(cred) PROVE Shape'
  BY <1>1 DEF FrontSetsDefault, SetsDefault, Shape, Doing, Idle, historyVars, OrderSteps, FrontSteps, Names
<1>2. ASSUME NEW cred \in Creds, NEW a \in Accounts, FrontRegisters(a, cred) PROVE Shape'
  BY <1>2 DEF FrontRegisters, Registers, Shape, Doing, Idle, historyVars, FrontSteps, Names, Keys
<1>3. ASSUME FrontAsks PROVE Shape'
  BY <1>3 DEF FrontAsks, Shape, registryVars, historyVars, FrontSteps
<1>4. ASSUME NEW valid \in BOOLEAN, FrontAnswered(valid) PROVE Shape'
  BY <1>4 DEF FrontAnswered, Shape, historyVars, FrontSteps
<1>5. ASSUME FrontRollsBack PROVE Shape'
  BY <1>5 DEF FrontRollsBack, Unregisters, Shape, Idle, FrontSteps, Names
<1>6. ASSUME FrontWatches PROVE Shape'
  BY <1>6 DEF FrontWatches, Shape, registryVars, historyVars, Idle, FrontSteps, Names
<1>7. ASSUME FrontSaves PROVE Shape'
  BY <1>7 DEF FrontSaves, Shape, registryVars, Idle, FrontSteps, Names
<1>8. ASSUME NEW k \in Keys, FrontUnregisters(k) PROVE Shape'
  BY <1>8 DEF FrontUnregisters, Unregisters, Shape, Doing, Idle, FrontSteps, Names
<1>9. ASSUME FrontForgets PROVE Shape'
  BY <1>9 DEF FrontForgets, Shape, registryVars, historyVars, FrontSteps
<1>10. ASSUME FrontDeletes PROVE Shape'
  BY <1>10 DEF FrontDeletes, Shape, registryVars, historyVars, Idle, FrontSteps, Names
<1>11. ASSUME NEW cred \in Creds, OrderSetsDefault(cred) PROVE Shape'
  BY <1>11 DEF OrderSetsDefault, SetsDefault, Shape, historyVars
<1>12. ASSUME NEW cred \in Creds, NEW s \in Traders, OrderRegistersOwn(s, cred) PROVE Shape'
  BY <1>12 DEF OrderRegistersOwn, Registers, Shape, Doing, Idle, OrderSteps, Names, Keys
<1>13. ASSUME NEW cred \in Creds, NEW s \in Traders, NEW a \in Accounts, OrderFinds(s, a, cred) PROVE Shape'
  BY <1>13 DEF OrderFinds, Shape, registryVars, historyVars, Doing, Idle, OrderSteps, Names, Keys
<1>14. ASSUME NEW cred \in Creds, NEW s \in Traders, NEW a \in Accounts, OrderRegistersNew(s, a, cred)
       PROVE  Shape'
  BY <1>14 DEF OrderRegistersNew, Registers, Shape, Doing, Idle, OrderSteps, Names, Keys
<1>15. ASSUME OrderAliases PROVE Shape'
  BY <1>15 DEF OrderAliases, Registers, Aliases, Shape, OrderSteps
<1>16. ASSUME OrderAliasesNew PROVE Shape'
  BY <1>16 DEF OrderAliasesNew, Aliases, Shape, OrderSteps
<1>17. ASSUME OrderTells PROVE Shape'
  BY <1>17 DEF OrderTells, Shape, registryVars, historyVars, OrderSteps
<1>18. ASSUME OrderWatches PROVE Shape'
  BY <1>18 DEF OrderWatches, Shape, registryVars, historyVars, Idle, OrderSteps, Names
<1>19. ASSUME NEW s \in Traders, OrderUnregisters(s) PROVE Shape'
  BY <1>19 DEF OrderUnregisters, Unregisters, Shape, Doing, Idle, OrderSteps, Names, Keys
<1>20. ASSUME OrderForgets PROVE Shape'
  BY <1>20 DEF OrderForgets, Shape, registryVars, historyVars, Idle, OrderSteps, Names
<1>21. ASSUME ServerRestarts PROVE Shape'
  BY <1>21 DEF ServerRestarts, Shape, Idle, OrderSteps, FrontSteps, Names
<1> QED
  BY <1>1, <1>2, <1>3, <1>4, <1>5, <1>6, <1>7, <1>8, <1>9, <1>10, <1>11, <1>12, <1>13, <1>14, <1>15, <1>16,
     <1>17, <1>18, <1>19, <1>20, <1>21 DEF AccountNext, FrontThread, OrderThread

LEMMA OrderKeyStep ==
  ASSUME Inv, AccountNext
  PROVE  (OrderKey /\ OwnObject)'
<1> USE DEF Inv, TradeInv
<1>1. ASSUME NEW cred \in Creds, FrontSetsDefault(cred) PROVE (OrderKey /\ OwnObject)'
  BY <1>1 DEF FrontSetsDefault, SetsDefault, Doing, Idle, historyVars, Shape, OrderKey, OwnObject
<1>2. ASSUME NEW cred \in Creds, NEW a \in Accounts, FrontRegisters(a, cred)
      PROVE  (OrderKey /\ OwnObject)'
  BY <1>2 DEF FrontRegisters, Registers, New, NoApi, Doing, Idle, Keys, historyVars, Shape, OrderKey,
              OwnObject
<1>3. ASSUME FrontAsks PROVE (OrderKey /\ OwnObject)'
  BY <1>3 DEF FrontAsks, registryVars, historyVars, Shape, OrderKey, OwnObject
<1>4. ASSUME NEW valid \in BOOLEAN, FrontAnswered(valid) PROVE (OrderKey /\ OwnObject)'
  BY <1>4 DEF FrontAnswered, historyVars, Shape, OrderKey, OwnObject
<1>5. ASSUME FrontRollsBack PROVE (OrderKey /\ OwnObject)'
  <2>1. CASE front.key = None
    BY <1>5, <2>1 DEF FrontRollsBack, OrderKey, OwnObject
  <2>2. CASE front.key # None
    <3>1. front.key \in Keys /\ Unregisters(front.key) /\ UNCHANGED <<told, order, missed>>
      BY <1>5, <2>2 DEF FrontRollsBack, Shape, Names
    <3> QED
      BY <3>1, Unregistered DEF Unregisters, Same, Shape, Keys, NoApi, OrderKey, OwnObject
  <2> QED
    BY <2>1, <2>2
<1>6. ASSUME FrontWatches PROVE (OrderKey /\ OwnObject)'
  BY <1>6 DEF FrontWatches, registryVars, Idle, historyVars, Shape, OrderKey, OwnObject
<1>7. ASSUME FrontSaves PROVE (OrderKey /\ OwnObject)'
  BY <1>7 DEF FrontSaves, registryVars, Idle, historyVars, Shape, OrderKey, OwnObject
<1>8. ASSUME NEW k \in Keys, FrontUnregisters(k) PROVE (OrderKey /\ OwnObject)'
  BY <1>8 DEF FrontUnregisters, Unregisters, Same, NoApi, Doing, Idle, Keys, historyVars, Shape, OrderKey,
              OwnObject
<1>9. ASSUME FrontForgets PROVE (OrderKey /\ OwnObject)'
  BY <1>9 DEF FrontForgets, registryVars, historyVars, Shape, OrderKey, OwnObject
<1>10. ASSUME FrontDeletes PROVE (OrderKey /\ OwnObject)'
  BY <1>10 DEF FrontDeletes, registryVars, Idle, historyVars, Shape, OrderKey, OwnObject
<1>11. ASSUME NEW cred \in Creds, OrderSetsDefault(cred) PROVE (OrderKey /\ OwnObject)'
  BY <1>11 DEF OrderSetsDefault, SetsDefault, historyVars, Shape, OrderKey, OwnObject
<1>12. ASSUME NEW cred \in Creds, NEW s \in Traders, OrderRegistersOwn(s, cred)
       PROVE  (OrderKey /\ OwnObject)'
  BY <1>12 DEF OrderRegistersOwn, Registers, New, Doing, Idle, Keys, historyVars, Shape, OrderKey,
              OwnObject
<1>13. ASSUME NEW cred \in Creds, NEW s \in Traders, NEW a \in Accounts, OrderFinds(s, a, cred)
       PROVE  (OrderKey /\ OwnObject)'
  BY <1>13 DEF OrderFinds, registryVars, Doing, Idle, historyVars, Shape, OrderKey, OwnObject
<1>14. ASSUME NEW cred \in Creds, NEW s \in Traders, NEW a \in Accounts, OrderRegistersNew(s, a, cred)
       PROVE  (OrderKey /\ OwnObject)'
  BY <1>14 DEF OrderRegistersNew, Registers, New, NoApi, Doing, Idle, Keys, historyVars, Shape, OrderKey,
              OwnObject
<1>15. ASSUME OrderAliases PROVE (OrderKey /\ OwnObject)'
  BY <1>15 DEF OrderAliases, Registers, Aliases, New, NoApi, Keys, historyVars, Shape, OrderKey, OwnObject
<1>16. ASSUME OrderAliasesNew PROVE (OrderKey /\ OwnObject)'
  BY <1>16 DEF OrderAliasesNew, Aliases, NoApi, Keys, historyVars, Shape, OrderKey, OwnObject
<1>17. ASSUME OrderTells PROVE (OrderKey /\ OwnObject)'
  BY <1>17 DEF OrderTells, registryVars, historyVars, Shape, OrderKey, OwnObject
<1>18. ASSUME OrderWatches PROVE (OrderKey /\ OwnObject)'
  BY <1>18 DEF OrderWatches, registryVars, Idle, historyVars, Shape, OrderKey, OwnObject
<1>19. ASSUME NEW s \in Traders, OrderUnregisters(s) PROVE (OrderKey /\ OwnObject)'
  BY <1>19 DEF OrderUnregisters, Unregisters, Same, NoApi, Doing, Idle, Keys, historyVars, Shape, OrderKey,
              OwnObject
<1>20. ASSUME OrderForgets PROVE (OrderKey /\ OwnObject)'
  BY <1>20 DEF OrderForgets, registryVars, Idle, historyVars, Shape, OrderKey, OwnObject
<1>21. ASSUME ServerRestarts PROVE (OrderKey /\ OwnObject)'
  BY <1>21 DEF ServerRestarts, FromFile, NoApi, Idle, Keys, historyVars, Shape, OrderKey, OwnObject
<1> QED
  BY <1>1, <1>2, <1>3, <1>4, <1>5, <1>6, <1>7, <1>8, <1>9, <1>10, <1>11, <1>12, <1>13, <1>14, <1>15, <1>16,
     <1>17, <1>18, <1>19, <1>20, <1>21 DEF AccountNext, FrontThread, OrderThread

LEMMA PromiseStep ==
  ASSUME Inv, AccountNext
  PROVE  KeepsPromise'
<1> USE DEF Inv, TradeInv
<1>1. ASSUME NEW cred \in Creds, FrontSetsDefault(cred) PROVE KeepsPromise'
  BY <1>1 DEF FrontSetsDefault, SetsDefault, Doing, Idle, historyVars, Shape, OrderKey, OwnObject,
              KeepsPromise, Promised, NoApi, Keys
<1>2. ASSUME NEW cred \in Creds, NEW a \in Accounts, FrontRegisters(a, cred) PROVE KeepsPromise'
  <2>1. Registers(a, a, cred) /\ UNCHANGED <<told, order, missed>>
    BY <1>2 DEF FrontRegisters, historyVars
  <2>2. \A s \in Traders : registry'[s] = registry[s]
    BY <2>1 DEF Registers, Shape, Keys
  <2> QED
    BY <2>1, <2>2 DEF KeepsPromise, Promised
<1>3. ASSUME FrontAsks PROVE KeepsPromise'
  BY <1>3 DEF FrontAsks, registryVars, historyVars, Shape, OrderKey, OwnObject, KeepsPromise, Promised,
              NoApi, Keys
<1>4. ASSUME NEW valid \in BOOLEAN, FrontAnswered(valid) PROVE KeepsPromise'
  BY <1>4 DEF FrontAnswered, historyVars, Shape, OrderKey, OwnObject, KeepsPromise, Promised, NoApi, Keys
<1>5. ASSUME FrontRollsBack PROVE KeepsPromise'
  <2>1. CASE front.key = None
    BY <1>5, <2>1 DEF FrontRollsBack, KeepsPromise, Promised
  <2>2. CASE front.key # None
    <3>1. front.key \in Keys /\ Unregisters(front.key) /\ UNCHANGED <<told, order, missed>>
      BY <1>5, <2>2 DEF FrontRollsBack, Shape, Names
    <3> QED
      BY <3>1, Unregistered DEF Unregisters, Same, Shape, Keys, NoApi, KeepsPromise, Promised
  <2> QED
    BY <2>1, <2>2
<1>6. ASSUME FrontWatches PROVE KeepsPromise'
  BY <1>6 DEF FrontWatches, registryVars, Idle, historyVars, Shape, OrderKey, OwnObject, KeepsPromise,
              Promised, NoApi, Keys
<1>7. ASSUME FrontSaves PROVE KeepsPromise'
  BY <1>7 DEF FrontSaves, registryVars, Idle, historyVars, Shape, OrderKey, OwnObject, KeepsPromise,
              Promised, NoApi, Keys
<1>8. ASSUME NEW k \in Keys, FrontUnregisters(k) PROVE KeepsPromise'
  BY <1>8 DEF FrontUnregisters, Unregisters, Same, NoApi, Doing, Idle, Keys, historyVars, Shape, OrderKey,
              OwnObject, KeepsPromise, Promised
<1>9. ASSUME FrontForgets PROVE KeepsPromise'
  BY <1>9 DEF FrontForgets, registryVars, historyVars, Shape, OrderKey, OwnObject, KeepsPromise, Promised,
              NoApi, Keys
<1>10. ASSUME FrontDeletes PROVE KeepsPromise'
  BY <1>10 DEF FrontDeletes, registryVars, Idle, historyVars, Shape, OrderKey, OwnObject, KeepsPromise,
              Promised, NoApi, Keys
<1>11. ASSUME NEW cred \in Creds, OrderSetsDefault(cred) PROVE KeepsPromise'
  BY <1>11 DEF OrderSetsDefault, SetsDefault, historyVars, Shape, OrderKey, OwnObject, KeepsPromise,
              Promised, NoApi, Keys
<1>12. ASSUME NEW cred \in Creds, NEW s \in Traders, OrderRegistersOwn(s, cred) PROVE KeepsPromise'
  BY <1>12 DEF OrderRegistersOwn, Registers, New, Doing, Idle, Keys, historyVars, Shape, OrderKey,
              OwnObject, KeepsPromise, Promised, NoApi
<1>13. ASSUME NEW cred \in Creds, NEW s \in Traders, NEW a \in Accounts, OrderFinds(s, a, cred)
       PROVE  KeepsPromise'
  BY <1>13 DEF OrderFinds, registryVars, Doing, Idle, historyVars, Shape, OrderKey, OwnObject,
              KeepsPromise, Promised, NoApi, Keys
<1>14. ASSUME NEW cred \in Creds, NEW s \in Traders, NEW a \in Accounts, OrderRegistersNew(s, a, cred)
       PROVE  KeepsPromise'
  <2>1. Registers(a, a, cred) /\ UNCHANGED <<told, missed>> /\ order = Idle
        /\ order' = Doing("aliasNew", s, a, cred)
    BY <1>14 DEF OrderRegistersNew
  <2>2. \A t \in Traders : registry'[t] = registry[t]
    BY <2>1 DEF Registers, Shape, Keys
  <2>3. order.step # "tell" /\ order'.step # "tell"
    BY <2>1 DEF Doing, Idle
  <2> QED
    BY <2>1, <2>2, <2>3 DEF KeepsPromise, Promised
<1>15. ASSUME OrderAliases PROVE KeepsPromise'
  <2>1. /\ order.step = "alias" /\ order'.step = "tell" /\ order'.key = order.key
        /\ order'.account = order.account /\ UNCHANGED told
        /\ missed' = missed \ {order.key}
    BY <1>15 DEF OrderAliases, Shape
  <2>2. order.key \in Traders /\ order.account \in Accounts
    BY <2>1 DEF OrderKey
  <2>3. registry'[order.key].account \in {None, order.account}
    <3>1. CASE registry[order.account] = NoApi
      <4>1. registry'[order.key] = New(None, order.cred)
        BY <1>15, <2>2, <3>1 DEF OrderAliases, Registers, Shape, Keys
      <4>2. New(None, order.cred).account = None
        BY DEF New
      <4> QED
        BY <4>1, <4>2 DEF New
    <3>2. CASE registry[order.account] # NoApi
      BY <1>15, <2>2, <3>2 DEF OrderAliases, Aliases, Shape, Keys, OwnObject
    <3> QED
      BY <3>1, <3>2
  <2>4. \A s \in Traders : s # order.key => registry'[s] = registry[s]
    BY <1>15, <2>2 DEF OrderAliases, Registers, New, Aliases, Shape, Keys
  <2> QED
    BY <2>1, <2>2, <2>3, <2>4 DEF KeepsPromise, Promised
<1>16. ASSUME OrderAliasesNew PROVE KeepsPromise'
  <2>1. /\ order.step = "aliasNew" /\ order'.step = "tell" /\ order'.key = order.key
        /\ order'.account = order.account /\ UNCHANGED told
        /\ missed' \in {missed \ {order.key}, missed \cup {order.key}}
    BY <1>16 DEF OrderAliasesNew, Shape
  <2>2. order.key \in Traders /\ order.account \in Accounts
    BY <2>1 DEF OrderKey
  <2>3. order.key \in missed' \/ registry'[order.key].account \in {None, order.account}
    BY <1>16, <2>2 DEF OrderAliasesNew, Aliases, Shape, Keys, OwnObject, NoApi
  <2>4. \A s \in Traders : s # order.key => registry'[s] = registry[s]
    BY <1>16, <2>2 DEF OrderAliasesNew, Aliases, Shape, Keys
  <2> QED
    BY <2>1, <2>2, <2>3, <2>4 DEF KeepsPromise, Promised
<1>17. ASSUME OrderTells PROVE KeepsPromise'
  BY <1>17 DEF OrderTells, registryVars, historyVars, Shape, OrderKey, OwnObject, KeepsPromise, Promised,
              NoApi, Keys
<1>18. ASSUME OrderWatches PROVE KeepsPromise'
  BY <1>18 DEF OrderWatches, registryVars, Idle, historyVars, Shape, OrderKey, OwnObject, KeepsPromise,
              Promised, NoApi, Keys
<1>19. ASSUME NEW s \in Traders, OrderUnregisters(s) PROVE KeepsPromise'
  BY <1>19 DEF OrderUnregisters, Unregisters, Same, NoApi, Doing, Idle, Keys, historyVars, Shape, OrderKey,
              OwnObject, KeepsPromise, Promised
<1>20. ASSUME OrderForgets PROVE KeepsPromise'
  BY <1>20 DEF OrderForgets, registryVars, Idle, historyVars, Shape, OrderKey, OwnObject, KeepsPromise,
              Promised, NoApi, Keys
<1>21. ASSUME ServerRestarts PROVE KeepsPromise'
  BY <1>21 DEF ServerRestarts, FromFile, NoApi, Idle, Keys, historyVars, Shape, OrderKey, OwnObject,
              KeepsPromise, Promised
<1> QED
  BY <1>1, <1>2, <1>3, <1>4, <1>5, <1>6, <1>7, <1>8, <1>9, <1>10, <1>11, <1>12, <1>13, <1>14, <1>15, <1>16,
     <1>17, <1>18, <1>19, <1>20, <1>21 DEF AccountNext, FrontThread, OrderThread

LEMMA FrontKeyStep ==
  ASSUME Inv, AccountNext
  PROVE  FrontKey'
<1> USE DEF Inv, TradeInv
<1>1. ASSUME NEW cred \in Creds, FrontSetsDefault(cred) PROVE FrontKey'
  BY <1>1 DEF FrontSetsDefault, SetsDefault, Doing, Idle, historyVars, Shape, FrontKey, Keys
<1>2. ASSUME NEW cred \in Creds, NEW a \in Accounts, FrontRegisters(a, cred) PROVE FrontKey'
  BY <1>2 DEF FrontRegisters, Registers, New, NoApi, Doing, Idle, Keys, historyVars, Shape, FrontKey
<1>3. ASSUME FrontAsks PROVE FrontKey'
  BY <1>3 DEF FrontAsks, registryVars, historyVars, Shape, FrontKey, Keys
<1>4. ASSUME NEW valid \in BOOLEAN, FrontAnswered(valid) PROVE FrontKey'
  BY <1>4 DEF FrontAnswered, historyVars, Shape, FrontKey, Keys
<1>5. ASSUME FrontRollsBack PROVE FrontKey'
  BY <1>5 DEF FrontRollsBack, Unregisters, Same, NoApi, Idle, Keys, historyVars, Shape, FrontKey
<1>6. ASSUME FrontWatches PROVE FrontKey'
  BY <1>6 DEF FrontWatches, registryVars, Idle, historyVars, Shape, FrontKey, Keys
<1>7. ASSUME FrontSaves PROVE FrontKey'
  BY <1>7 DEF FrontSaves, registryVars, Idle, historyVars, Shape, FrontKey, Keys
<1>8. ASSUME NEW k \in Keys, FrontUnregisters(k) PROVE FrontKey'
  BY <1>8 DEF FrontUnregisters, Unregisters, Same, NoApi, Doing, Idle, Keys, historyVars, Shape, FrontKey
<1>9. ASSUME FrontForgets PROVE FrontKey'
  BY <1>9 DEF FrontForgets, registryVars, historyVars, Shape, FrontKey, Keys
<1>10. ASSUME FrontDeletes PROVE FrontKey'
  BY <1>10 DEF FrontDeletes, registryVars, Idle, historyVars, Shape, FrontKey, Keys
<1>11. ASSUME NEW cred \in Creds, OrderSetsDefault(cred) PROVE FrontKey'
  BY <1>11 DEF OrderSetsDefault, SetsDefault, historyVars, Shape, FrontKey, Keys
<1>12. ASSUME NEW cred \in Creds, NEW s \in Traders, OrderRegistersOwn(s, cred) PROVE FrontKey'
  BY <1>12 DEF OrderRegistersOwn, Registers, New, Doing, Idle, Keys, historyVars, Shape, FrontKey
<1>13. ASSUME NEW cred \in Creds, NEW s \in Traders, NEW a \in Accounts, OrderFinds(s, a, cred)
       PROVE  FrontKey'
  BY <1>13 DEF OrderFinds, registryVars, Doing, Idle, historyVars, Shape, FrontKey, Keys
<1>14. ASSUME NEW cred \in Creds, NEW s \in Traders, NEW a \in Accounts, OrderRegistersNew(s, a, cred)
       PROVE  FrontKey'
  BY <1>14 DEF OrderRegistersNew, Registers, New, NoApi, Doing, Idle, Keys, historyVars, Shape, FrontKey
<1>15. ASSUME OrderAliases PROVE FrontKey'
  BY <1>15 DEF OrderAliases, Registers, Aliases, New, NoApi, Keys, historyVars, Shape, FrontKey
<1>16. ASSUME OrderAliasesNew PROVE FrontKey'
  BY <1>16 DEF OrderAliasesNew, Aliases, NoApi, Keys, historyVars, Shape, FrontKey
<1>17. ASSUME OrderTells PROVE FrontKey'
  BY <1>17 DEF OrderTells, registryVars, historyVars, Shape, FrontKey, Keys
<1>18. ASSUME OrderWatches PROVE FrontKey'
  BY <1>18 DEF OrderWatches, registryVars, Idle, historyVars, Shape, FrontKey, Keys
<1>19. ASSUME NEW s \in Traders, OrderUnregisters(s) PROVE FrontKey'
  BY <1>19 DEF OrderUnregisters, Unregisters, Same, NoApi, Doing, Idle, Keys, historyVars, Shape, FrontKey
<1>20. ASSUME OrderForgets PROVE FrontKey'
  BY <1>20 DEF OrderForgets, registryVars, Idle, historyVars, Shape, FrontKey, Keys
<1>21. ASSUME ServerRestarts PROVE FrontKey'
  BY <1>21 DEF ServerRestarts, FromFile, NoApi, Idle, Keys, historyVars, Shape, FrontKey
<1> QED
  BY <1>1, <1>2, <1>3, <1>4, <1>5, <1>6, <1>7, <1>8, <1>9, <1>10, <1>11, <1>12, <1>13, <1>14, <1>15, <1>16,
     <1>17, <1>18, <1>19, <1>20, <1>21 DEF AccountNext, FrontThread, OrderThread

-----------------------------------------------------------------------------
(* What agrees stays so.  An account is touched by the operator's request  *)
(* about it, by one that is about its owner, or it becomes upset.          *)

Untouched(a) == registry'[a] = registry[a] /\ watched'[a] = watched[a] /\ files'[a] = files[a]
Fine(a) == IF front.step # "idle" /\ front.key = a THEN HalfDone(a) ELSE Agrees(a)

LEMMA OrderLeaves ==
  ASSUME NEW a \in Accounts, Fine(a), Untouched(a), UNCHANGED front, failed' \subseteq failed
  PROVE  Fine(a)'
  BY DEF Fine, Untouched, HalfDone, Made, Agrees

LEMMA FrontLeaves ==
  ASSUME NEW a \in Accounts, Fine(a), Untouched(a), front.step = "idle" \/ front.key # a,
         front'.step = "idle" \/ front'.key # a
  PROVE  Fine(a)'
  BY DEF Fine, Untouched, Agrees

LEMMA Removed ==
  ASSUME Shape, OwnObject, NEW key \in Keys, Unregisters(key),
         NEW a \in Accounts, a # key, a # registry[key].account
  PROVE  registry'[a] = registry[a]
<1>1. a \in Keys /\ (registry[a] = NoApi \/ registry[a].account = a)
  BY DEF OwnObject, Keys
<1> QED
  BY <1>1, Unregistered DEF Unregisters, Same, Shape

LEMMA AgreeOrderStep ==
  ASSUME Inv, OrderThread, NEW a \in Accounts \ upset'
  PROVE  Fine(a)'
<1> USE DEF Inv, TradeInv
<1> DEFINE Goal == a \notin upset /\ UNCHANGED front /\ failed' \subseteq failed /\ Untouched(a)
<1> SUFFICES Goal
  BY OrderLeaves DEF AgreeInv, Fine
<1>1. ASSUME NEW cred \in Creds, OrderSetsDefault(cred) PROVE Goal
  BY <1>1 DEF OrderSetsDefault, SetsDefault, Shape, Untouched, historyVars, Keys, Names
<1>2. ASSUME NEW cred \in Creds, NEW s \in Traders, OrderRegistersOwn(s, cred) PROVE Goal
  BY <1>2 DEF OrderRegistersOwn, Registers, Shape, Untouched, historyVars, Keys, Names
<1>3. ASSUME NEW cred \in Creds, NEW s \in Traders, NEW b \in Accounts, OrderFinds(s, b, cred) PROVE Goal
  BY <1>3 DEF OrderFinds, registryVars, Shape, Untouched, historyVars, Keys, Names
<1>4. ASSUME NEW cred \in Creds, NEW s \in Traders, NEW b \in Accounts, OrderRegistersNew(s, b, cred) PROVE Goal
  BY <1>4 DEF OrderRegistersNew, Registers, Shape, Untouched, historyVars, Keys, Names
<1>5. ASSUME OrderAliases PROVE Goal
  BY <1>5 DEF OrderAliases, Registers, Aliases, OrderKey, Shape, Untouched, historyVars, Keys, Names
<1>6. ASSUME OrderAliasesNew PROVE Goal
  BY <1>6 DEF OrderAliasesNew, Aliases, OrderKey, Shape, Untouched, historyVars, Keys, Names
<1>7. ASSUME OrderTells PROVE Goal
  BY <1>7 DEF OrderTells, registryVars, Shape, Untouched, historyVars, Keys, Names
<1>8. ASSUME OrderWatches PROVE Goal
  BY <1>8 DEF OrderWatches, registryVars, OrderKey, Shape, Untouched, historyVars, Keys, Names
<1>9. ASSUME NEW s \in Traders, OrderUnregisters(s) PROVE Goal
  <2>1. Unregisters(s) /\ a # registry[s].account /\ a # s
    BY <1>9 DEF OrderUnregisters
  <2>2. registry'[a] = registry[a]
    BY <2>1, Removed DEF Keys, Unregisters, Same
  <2> QED
    BY <1>9, <2>2 DEF OrderUnregisters, Untouched
<1>10. ASSUME OrderForgets PROVE Goal
  BY <1>10 DEF OrderForgets, registryVars, OrderKey, Shape, Untouched, historyVars, Keys, Names
<1> QED
  BY <1>1, <1>2, <1>3, <1>4, <1>5, <1>6, <1>7, <1>8, <1>9, <1>10 DEF OrderThread

LEMMA AgreeFrontStep ==
  ASSUME Inv, FrontThread, NEW a \in Accounts \ upset'
  PROVE  Fine(a)'
<1> USE DEF Inv, TradeInv
<1>0. a \in Keys /\ a # None /\ (a \notin upset => Fine(a)) /\ (registry[a] = NoApi \/ registry[a].account = a)
  BY DEF AgreeInv, Fine, Keys, OwnObject
<1>1. ASSUME NEW cred \in Creds, FrontSetsDefault(cred) PROVE Fine(a)'
  BY <1>0, <1>1, FrontLeaves DEF FrontSetsDefault, SetsDefault, historyVars, Untouched, Doing, Idle
<1>2. ASSUME NEW cred \in Creds, NEW b \in Accounts, FrontRegisters(b, cred) PROVE Fine(a)'
  <2>1. /\ a \notin upset /\ front = Idle /\ front' = Doing("check", b, b, cred)
        /\ Registers(b, b, cred) /\ UNCHANGED <<watched, files>>
    BY <1>2 DEF FrontRegisters, historyVars
  <2>2. Agrees(a)
    BY <1>0, <2>1 DEF Fine, Idle
  <2>3. CASE a = b
    <3>1. registry'[a] = New(a, cred) /\ front'.cred = cred /\ front'.step = "check" /\ front'.key = a
      BY <1>0, <2>1, <2>3 DEF Registers, Shape, Doing
    <3>2. New(a, cred).account = a /\ New(a, cred).cred = cred /\ NoApi.account = None
      BY DEF New, NoApi
    <3>3. Made(a)'
      BY <1>0, <3>1, <3>2 DEF Made
    <3>4. files'[a] = None => watched'[a] = NoApi
      BY <1>0, <2>1, <2>2 DEF Agrees
    <3> QED
      BY <3>1, <3>3, <3>4 DEF Fine, HalfDone
  <2>4. CASE a # b
    <3>1. Untouched(a)
      BY <1>0, <2>1, <2>4 DEF Registers, Shape, Untouched
    <3>2. front.step = "idle" /\ front'.key # a
      BY <2>1, <2>4 DEF Idle, Doing
    <3> QED
      BY <1>0, <2>1, <3>1, <3>2, FrontLeaves
  <2> QED
    BY <2>3, <2>4
<1>3. ASSUME FrontAsks PROVE Fine(a)'
  BY <1>0, <1>3 DEF FrontAsks, registryVars, historyVars, Shape, Fine, HalfDone, Made, Agrees
<1>4. ASSUME NEW valid \in BOOLEAN, FrontAnswered(valid) PROVE Fine(a)'
  <2>1. /\ a \notin upset /\ front.step = "answer" /\ front'.key = front.key /\ front'.cred = front.cred
        /\ front'.step \in {"watch", "rollBack"} /\ UNCHANGED <<registry, watched, files>>
    BY <1>4 DEF FrontAnswered, historyVars, Shape
  <2>2. CASE front.key = a
    <3>1. Made(a) /\ (files[a] = None => watched[a] = NoApi)
      BY <1>0, <2>1, <2>2 DEF Fine, HalfDone
    <3>2. front'.step = "watch" => registry[a].id \notin failed'
      BY <1>0, <1>4, <2>2, <3>1 DEF FrontAnswered, Made, Shape
    <3> QED
      BY <2>1, <2>2, <3>1, <3>2 DEF Fine, HalfDone, Made
  <2> QED
    BY <1>0, <2>1, <2>2, FrontLeaves DEF Untouched
<1>5. ASSUME FrontRollsBack PROVE Fine(a)'
  <2>1. front.step = "rollBack" /\ front' = Idle /\ UNCHANGED <<watched, files>>
    BY <1>5 DEF FrontRollsBack
  <2>2. CASE front.key = None
    <3>1. Untouched(a) /\ a \notin upset
      BY <1>5, <2>1, <2>2 DEF FrontRollsBack, Untouched
    <3>2. front.key # a /\ front'.step = "idle"
      BY <1>0, <2>1, <2>2 DEF Idle
    <3> QED
      BY <1>0, <3>1, <3>2, FrontLeaves
  <2>3. CASE front.key # None
    <3>1. /\ front.key \in Accounts /\ front.key \in Keys /\ Unregisters(front.key)
          /\ upset' = IF files[front.key] = None THEN upset ELSE upset \cup {front.key}
      BY <1>5, <2>1, <2>3 DEF FrontRollsBack, FrontKey, Keys
    <3>2. CASE front.key = a
      <4>1. a \notin upset /\ files[a] = None
        BY <3>1, <3>2
      <4>2. watched[a] = NoApi /\ registry'[a] = NoApi
        BY <1>0, <2>1, <3>1, <3>2, <4>1, Unregistered DEF Fine, HalfDone, Shape, Unregisters, Same
      <4>3. NoApi.account = None /\ NoApi.cred = None /\ front'.step = "idle"
        BY <2>1 DEF NoApi, Idle
      <4> QED
        BY <2>1, <4>1, <4>2, <4>3 DEF Fine, Agrees
    <3>3. CASE front.key # a
      <4>1. a # registry[front.key].account
        <5>1. NoApi.account = None
          BY DEF NoApi
        <5> QED
          BY <1>0, <3>1, <3>3, <5>1 DEF OwnObject
      <4>2. registry'[a] = registry[a]
        BY <3>1, <3>3, <4>1, Removed DEF Unregisters, Same
      <4> QED
        BY <1>0, <2>1, <3>1, <3>3, <4>2, FrontLeaves DEF Untouched, Idle
    <3> QED
      BY <3>2, <3>3
  <2> QED
    BY <2>2, <2>3
<1>6. ASSUME FrontWatches PROVE Fine(a)'
  <2>1. /\ a \notin upset /\ front.step = "watch" /\ UNCHANGED <<registry, files>>
        /\ front' = IF front.account = None THEN Idle ELSE [front EXCEPT !.step = "save"]
    BY <1>6 DEF FrontWatches, registryVars, historyVars
  <2>2. CASE front.key = a
    <3>1. Made(a) /\ registry[a].id \notin failed
      BY <1>0, <2>1, <2>2 DEF Fine, HalfDone
    <3>2. GetApi(a) = registry[a] /\ registry[a] # NoApi
      BY <1>0, <3>1 DEF GetApi, Made
    <3>3. watched'[a] = registry[a]
      BY <1>0, <1>6, <2>2, <3>2 DEF FrontWatches, Shape, Names
    <3>4. front'.step = "save" /\ front'.key = a /\ front'.cred = front.cred
      BY <1>0, <2>1, <2>2 DEF FrontKey, Shape
    <3> QED
      BY <2>1, <3>1, <3>3, <3>4 DEF Fine, HalfDone, Made
  <2>3. CASE front.key # a
    <3>1. watched'[a] = watched[a]
      BY <1>0, <1>6, <2>3 DEF FrontWatches, GetApi, Shape, Names
    <3>2. front'.step = "idle" \/ front'.key # a
      BY <2>1, <2>3 DEF Idle, Shape
    <3> QED
      BY <1>0, <2>1, <2>3, <3>1, <3>2, FrontLeaves DEF Untouched
  <2> QED
    BY <2>2, <2>3
<1>7. ASSUME FrontSaves PROVE Fine(a)'
  <2>1. /\ front.step = "save" /\ front' = Idle /\ UNCHANGED <<registry, watched>> /\ a \notin upset
        /\ front.key \in Accounts /\ front.account = front.key /\ front.cred \in Creds
    BY <1>7 DEF FrontSaves, registryVars, FrontKey
  <2>2. CASE front.key = a
    <3>1. files'[a] = front.cred
      BY <1>7, <2>1, <2>2 DEF FrontSaves, Shape
    <3>2. Made(a) /\ watched[a] = registry[a]
      BY <1>0, <2>1, <2>2 DEF Fine, HalfDone
    <3> QED
      BY <2>1, <3>1, <3>2 DEF Fine, Agrees, Made, Idle
  <2>3. CASE front.key # a
    <3>1. files'[a] = files[a]
      BY <1>7, <2>1, <2>3 DEF FrontSaves, Shape
    <3> QED
      BY <1>0, <2>1, <2>3, <3>1, FrontLeaves DEF Untouched, Idle
  <2> QED
    BY <2>2, <2>3
<1>8. ASSUME NEW k \in Keys, FrontUnregisters(k) PROVE Fine(a)'
  <2>1. /\ front = Idle /\ Unregisters(k) /\ UNCHANGED <<watched, files>> /\ a \notin upset
        /\ front' = Doing(IF registry[k] = NoApi THEN "delete" ELSE "forget", k, k, None)
        /\ a # k => a # registry[k].account
    BY <1>8 DEF FrontUnregisters
  <2>2. Agrees(a)
    BY <1>0, <2>1 DEF Fine, Idle
  <2>3. CASE a = k
    <3>1. registry'[a] = NoApi
      BY <2>1, <2>3, Unregistered DEF Shape, Unregisters, Same
    <3>2. front'.step = (IF registry[a] = NoApi THEN "delete" ELSE "forget") /\ front'.key = a
      BY <2>1, <2>3 DEF Doing
    <3> QED
      BY <2>1, <2>2, <3>1, <3>2 DEF Fine, HalfDone, Agrees
  <2>4. CASE a # k
    <3>1. registry'[a] = registry[a]
      BY <2>1, <2>4, Removed DEF Unregisters, Same
    <3>2. front.step = "idle" /\ front'.key # a
      BY <2>1, <2>4 DEF Idle, Doing
    <3> QED
      BY <1>0, <2>1, <3>1, <3>2, FrontLeaves DEF Untouched
  <2> QED
    BY <2>3, <2>4
<1>9. ASSUME FrontForgets PROVE Fine(a)'
  BY <1>0, <1>9 DEF FrontForgets, registryVars, historyVars, Shape, Names, Fine, HalfDone, Made, Agrees
<1>10. ASSUME FrontDeletes PROVE Fine(a)'
  <2>1. /\ front.step = "delete" /\ front' = Idle /\ UNCHANGED <<registry, watched>> /\ a \notin upset
        /\ front.account = front.key /\ files' = [b \in Accounts |-> IF b = front.account THEN None ELSE files[b]]
    BY <1>10 DEF FrontDeletes, registryVars, historyVars, FrontKey
  <2>2. CASE front.key = a
    <3>1. registry[a] = NoApi /\ watched[a] = NoApi /\ files'[a] = None
      BY <1>0, <2>1, <2>2 DEF Fine, HalfDone
    <3>2. NoApi.account = None /\ NoApi.cred = None /\ front'.step = "idle"
      BY <2>1 DEF NoApi, Idle
    <3> QED
      BY <2>1, <3>1, <3>2 DEF Fine, Agrees
  <2>3. CASE front.key # a
    BY <1>0, <2>1, <2>3, FrontLeaves DEF Untouched, Idle
  <2> QED
    BY <2>2, <2>3
<1> QED
  BY <1>1, <1>2, <1>3, <1>4, <1>5, <1>6, <1>7, <1>8, <1>9, <1>10 DEF FrontThread

LEMMA AgreeRestart == Inv /\ ServerRestarts => AgreeInv'
<1> SUFFICES ASSUME Inv, ServerRestarts, NEW a \in Accounts PROVE Agrees(a)'
  <2>1. ASSUME Inv, ServerRestarts PROVE upset' = {} /\ front'.step = "idle"
    BY <2>1 DEF ServerRestarts, Idle
  <2> QED
    BY <2>1 DEF AgreeInv
<1>1. registry'[a] = (IF files[a] # None THEN FromFile(a) ELSE NoApi) /\ files' = files
  BY DEF ServerRestarts, Keys
<1>2. watched'[a] = registry'[a]
  BY DEF ServerRestarts, Inv, TradeInv, Shape, Names, Keys
<1>3. FromFile(a).account = a /\ FromFile(a).cred = files[a] /\ NoApi.account = None /\ NoApi.cred = None
  BY DEF FromFile, NoApi
<1> QED
  BY <1>1, <1>2, <1>3 DEF Agrees

LEMMA InvStep == Inv /\ [AccountNext]_accountVars => Inv'
<1> SUFFICES ASSUME Inv, [AccountNext]_accountVars PROVE Inv'
  OBVIOUS
<1>1. CASE AccountNext
  <2>1. AgreeInv'
    <3>1. CASE FrontThread
      BY <1>1, <3>1, AgreeFrontStep DEF AgreeInv, Fine
    <3>2. CASE OrderThread
      BY <1>1, <3>2, AgreeOrderStep DEF AgreeInv, Fine
    <3> QED
      BY <1>1, <3>1, <3>2, AgreeRestart DEF AccountNext
  <2> QED
    BY <1>1, <2>1, ShapeStep, OrderKeyStep, PromiseStep, FrontKeyStep DEF Inv, TradeInv
<1>2. CASE UNCHANGED accountVars
  <2>1. TradeInv'
    BY <1>2 DEF accountVars, Inv, TradeInv, Shape, OrderKey, OwnObject, KeepsPromise, Promised
  <2>2. FrontKey'
    BY <1>2 DEF accountVars, Inv, FrontKey
  <2>3. AgreeInv'
    BY <1>2 DEF accountVars, Inv, AgreeInv, Agrees, HalfDone, Made
  <2> QED
    BY <2>1, <2>2, <2>3 DEF Inv
<1> QED
  BY <1>1, <1>2

-----------------------------------------------------------------------------
(* Whatever the operator and the strategies do at the same time, between   *)
(* two requests a strategy trades with the API of the account it was told  *)
(* of, with one of its own, or with none.                                  *)
THEOREM TradesOwn == AccountSpec => []OwnAccount
<1>1. Inv => OwnAccount
  <2> SUFFICES ASSUME Inv, order = Idle, NEW s \in Traders \ missed
                PROVE  registry[s].account \in {None, told[s]}
    BY DEF OwnAccount
  <2>1. order.step # "tell"
    BY DEF Idle
  <2> QED
    BY <2>1 DEF Inv, TradeInv, KeepsPromise, Promised
<1> QED
  BY <1>1, InitInv, InvStep, PTL DEF AccountSpec

(* Between two requests of the operator registry, monitor and file agree   *)
(* about every account that is not upset.                                  *)
THEOREM PlacesAgree == AccountSpec => []AccountsAgree
<1>1. Inv => AccountsAgree
  <2> SUFFICES ASSUME Inv, front = Idle, NEW a \in Accounts \ upset
                PROVE  Agrees(a)
    BY DEF AccountsAgree, Agrees
  <2>1. front.step = "idle"
    BY DEF Idle
  <2> QED
    BY <2>1 DEF Inv, AgreeInv
<1> QED
  BY <1>1, InitInv, InvStep, PTL DEF AccountSpec

=============================================================================
