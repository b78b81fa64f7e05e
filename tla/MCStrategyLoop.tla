---------------------------- MODULE MCStrategyLoop ----------------------------
(* Instances of StrategyLoop and TaskScheduler for TLC.  A behaviour has one *)
(* focus: it runs the task scheduler alone, or the loop and the server with  *)
(* a strategy that asks for one thing - everything about one order, single   *)
(* orders on both exchanges, registration, or positions.                     *)
EXTENDS StrategyLoop, TaskScheduler, TLC

CONSTANTS x1, b1        \* an order on OKX, an order on Binance

VARIABLE focus

OnlyBinance == {b1}

MCInit ==
    /\ Init /\ TaskInit
    /\ focus \in {"x1", "b1", "both", "registration", "positions", "tasks"}
    /\ focus = "tasks" => account

Only(kinds) == \A r \in Queued(requests') : r.kind \in kinds
Spared(o) == table'[o] = "absent" /\ sending' # o
OneOrder == {"place", "batch", "cancel", "cancel_all", "leverage"}
NoOrders == UNCHANGED <<table, sending>>
NoAccount == UNCHANGED accountVars

InFocus ==
    \/ focus = "x1" /\ Only(OneOrder) /\ Spared(b1) /\ NoAccount
    \/ focus = "b1" /\ Only({"place", "batch", "cancel"}) /\ Spared(x1) /\ crashes' = 0 /\ NoAccount
    \/ focus = "both" /\ Only({"place"}) /\ batched' = {} /\ crashes' = 0 /\ NoAccount
    \/ focus = "registration" /\ Only({"register", "unregister", "query_account"})
                              /\ NoOrders /\ UNCHANGED <<held, heldSince, clean>>
    \/ focus = "positions" /\ Only({"query_positions", "unregister"}) /\ NoOrders /\ crashes' = 0
                              /\ Len(requests') =< 1

MCNext ==
    /\ \/ Next /\ InFocus /\ UNCHANGED taskVars
       \/ TaskNext /\ focus = "tasks" /\ UNCHANGED vars
    /\ UNCHANGED focus

MCFairness ==
    /\ WF_vars(LoopTurn /\ focus # "tasks") /\ WF_vars(Record) /\ WF_vars(Serve)
    /\ WF_taskVars(Round /\ focus = "tasks")
    /\ \A d \in 1 .. MaxDepth : SF_taskVars(EndTask /\ Len(rounds) = d)

MCSpec == MCInit /\ [][MCNext]_<<vars, taskVars, focus>> /\ MCFairness

=============================================================================
