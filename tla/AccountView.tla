------------------------------ MODULE AccountView ------------------------------
(***************************************************************************)
(* What a strategy knows of its account: AccountModule (account_module.h), *)
(* fed by the reports its loop hands over.  The table of positions is      *)
(* reduced to one instrument whose position is a number; 0 is no entry.    *)
(***************************************************************************)
EXTENDS Channels

CONSTANT MaxPosition    \* positions are 0 .. MaxPosition
ASSUME MaxPositionAssumption == MaxPosition \in Nat

VARIABLES
    registered,         \* account_registered_
    view,               \* positions_
    queryDone, queryError, \* position_query_done_, position_query_error_
    held,               \* the position at the exchange
    heldSince,          \* history: what held has been since clear_positions
    clean,              \* history: no query was under way at clear_positions
    viewCached          \* history: view comes from the server's cache

accountVars == <<registered, view, queryDone, queryError, held, heldSince, clean, viewCached>>

AccountInit ==
    /\ registered = FALSE
    /\ view = 0 /\ queryDone = FALSE /\ queryError = FALSE
    /\ held = 0 /\ heldSince = {0}
    /\ clean = TRUE /\ viewCached = FALSE

Ask(kind) == [kind |-> kind, orders |-> {}]
(* A "garbled" answer has a number field that std::stod does not accept;   *)
(* OKX leaves such fields empty.                                           *)
PositionReport(form, value, fromCache) ==
    [kind |-> "position_update", form |-> form, value |-> value, cached |-> fromCache]

RegisterAccount ==
    /\ Push(Ask("register"))
    /\ UNCHANGED <<accountVars, inbox, joined>>

(* The flag falls when the request is sent, whatever comes of it. *)
UnregisterAccount ==
    /\ Push(Ask("unregister"))
    /\ registered' = FALSE
    /\ UNCHANGED <<view, queryDone, queryError, held, heldSince, clean, viewCached>>
    /\ UNCHANGED <<inbox, joined>>

RefreshAccount ==
    /\ Push(Ask("query_account"))
    /\ UNCHANGED <<accountVars, inbox, joined>>

RefreshPositions ==
    /\ Push(Ask("query_positions"))
    /\ UNCHANGED <<accountVars, inbox, joined>>

QueryUnderWay ==
    \/ Ask("query_positions") \in Queued(requests)
    \/ \E m \in Queued(inbox) : m.kind = "position_update"

(* Mutant: the flags of the last query are left standing. *)
ClearTableOnly ==
    /\ view' = 0
    /\ heldSince' = {held}
    /\ clean' = ~ QueryUnderWay
    /\ viewCached' = FALSE
    /\ UNCHANGED <<registered, queryDone, queryError, held, channelVars>>

ClearPositions ==
    /\ view' = 0
    /\ queryDone' = FALSE /\ queryError' = FALSE
    /\ heldSince' = {held}
    /\ clean' = ~ QueryUnderWay
    /\ viewCached' = FALSE
    /\ UNCHANGED <<registered, held, channelVars>>

(* Fills, of this strategy's orders or of others, and liquidations. *)
PositionMoves(v) ==
    /\ v # held
    /\ held' = v
    /\ heldSince' = heldSince \cup {v}
    /\ UNCHANGED <<registered, view, queryDone, queryError, clean, viewCached, channelVars>>

(* handle_register_report: any status but "registered" only logs. *)
HandleRegisterReport(m) ==
    /\ registered' = (registered \/ m.status = "registered")
    /\ UNCHANGED <<view, queryDone, queryError, held, heldSince, clean, viewCached>>

(* handle_position_update: entries are added and overwritten, an           *)
(* instrument that is not in the answer keeps its entry.  A field that     *)
(* does not parse throws before the query is marked as done.               *)
HandlePositionUpdate(m) ==
    /\ queryDone' = (queryDone \/ m.form # "garbled")
    /\ queryError' = (queryError \/ m.form = "error")
    /\ IF m.form = "fine" /\ m.value # 0
         THEN view' = m.value /\ viewCached' = m.cached
         ELSE UNCHANGED <<view, viewCached>>
    /\ UNCHANGED <<registered, held, heldSince, clean>>

=============================================================================
