----------------------------- MODULE MCMarketFeed -----------------------------
(***************************************************************************)
(* The market-data path on a small instance.  Its parts share no state, so *)
(* the run looks at one at a time: the sockets of both exchanges under     *)
(* several failures, one stream at a time under the strategies' requests   *)
(* with one failure, the bars of one instrument, and the store of candles  *)
(* under some failures, with what a strategy reads of it.  Fairness asks   *)
(* nothing of a part that is not looked at.                                *)
(***************************************************************************)
EXTENDS Subscriptions, KlineRing, History

CONSTANTS
    Focuses,            \* the parts: "sockets", "ring", "candles", and streams
    MaxFailures         \* bound: failures around the store, a fast fill included

VARIABLE focus

mcVars == <<vars, subVars, ringVars, feedVars, allKlineVars, focus>>

MCInit ==
    /\ SubInit /\ RingInit /\ FillerInit
    /\ focus \in Focuses
    /\ focus = "sockets" \/ venue = "okx"
    /\ focus = "candles" \/ interval = "short"

(* The strategies deal with the stream looked at. *)
OneStream == focus' \in Streams /\ UNION {wants'[s] : s \in Strategies} \cup taken' \subseteq {focus}

(* One failure where the filler makes no bar of the minutes. *)
FewFailures ==
    failures' + (IF scanned' THEN 1 ELSE 0) =< IF interval \in {"hour", "day"} THEN 1 ELSE MaxFailures

MCNext ==
    /\ UNCHANGED focus
    /\ \/ /\ focus = "sockets"
          /\ Next /\ UNCHANGED <<subVars, ringVars, feedVars, allKlineVars>>
       \/ /\ focus \in Streams
          /\ SubNext /\ OneStream /\ faults' =< 1
          /\ UNCHANGED <<ringVars, feedVars, allKlineVars>>
       \/ /\ focus = "ring"
          /\ RingNext /\ UNCHANGED <<vars, subVars, allKlineVars>>
       \/ /\ focus = "candles"
          /\ KlineNext /\ FewFailures
          /\ UNCHANGED <<vars, subVars, ringVars, feedVars>>

(* Fairness of Reconnect where its steps are looked at; the tools and the  *)
(* recorder have nothing to do where they are not.                         *)
OnSocket == focus \notin {"ring", "candles"}

MCFairness ==
    /\ WF_vars(Monitor /\ OnSocket) /\ WF_vars(HeartbeatEnds /\ OnSocket) /\ WF_vars(Owner /\ OnSocket)
    /\ \A c \in Conns :
          /\ WF_vars(Open(c) /\ OnSocket /\ UNCHANGED <<venue, flagVars, mon, hb, owner, leaving, recordVars, mishaps>>)
          /\ WF_vars(Lost(c) /\ OnSocket /\ conn[c] = "closing")

MCSpec == MCInit /\ [][MCNext]_mcVars /\ MCFairness /\ KlineFairness

-----------------------------------------------------------------------------
(* FeedKept, of the behaviours in which the socket is looked at: through   *)
(* failures of its connection and the requests of strategies, the streams  *)
(* it is asked for flow for good in the end.                               *)
SocketFeedKept == ~ OnSocket \/ FeedKept

=============================================================================
