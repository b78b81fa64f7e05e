------------------------------- MODULE OrderLife -------------------------------
(***************************************************************************)
(* What a strategy may rely on for its orders, without channels, loops or  *)
(* servers: an order is sent once, arrives at most once and only while it  *)
(* is shown as submitted, and what is shown after that is true and is not  *)
(* taken back.  StrategyLoop implements this.                              *)
(***************************************************************************)
CONSTANT Orders

VARIABLES
    shown,              \* absent, submitted, accepted, filled or rejected
    real,               \* none, open, filled or gone at the exchange
    traded,             \* the orders that traded, in part or in full
    doubt               \* the orders whose call brought no answer

lifeVars == <<shown, real, traded, doubt>>

Init ==
    /\ shown = [o \in Orders |-> "absent"]
    /\ real = [o \in Orders |-> "none"]
    /\ traded = {} /\ doubt = {}

Send(B) ==
    /\ \A o \in B : shown[o] = "absent"
    /\ shown' = [o \in Orders |-> IF o \in B THEN "submitted" ELSE shown[o]]
    /\ UNCHANGED <<real, traded, doubt>>

Arrive(B, st) ==
    /\ \A o \in B : shown[o] = "submitted" /\ real[o] = "none"
    /\ real' = [o \in Orders |-> IF o \in B THEN st ELSE real[o]]
    /\ traded \subseteq traded' /\ traded' \subseteq traded \cup B
    /\ st = "filled" => B \subseteq traded'
    /\ doubt \subseteq doubt' /\ doubt' \subseteq doubt \cup B
    /\ UNCHANGED shown

NoAnswer(o) ==
    /\ shown[o] = "submitted"
    /\ doubt' = doubt \cup {o}
    /\ UNCHANGED <<shown, real, traded>>

Trade(o) ==
    /\ real[o] = "open"
    /\ real' \in {real, [real EXCEPT ![o] = "filled"]}
    /\ traded' = traded \cup {o}
    /\ UNCHANGED <<shown, doubt>>

End(o) ==
    /\ real[o] = "open"
    /\ real' = [real EXCEPT ![o] = "gone"]
    /\ UNCHANGED <<shown, traded, doubt>>

Show(o, word) ==
    /\ shown[o] = "submitted"
    /\ \/ word = "accepted" /\ real[o] # "none"
       \/ word = "filled" /\ o \in traded
       \/ word = "rejected" /\ (real[o] = "none" \/ o \in doubt)
    /\ shown' = [shown EXCEPT ![o] = word]
    /\ UNCHANGED <<real, traded, doubt>>

Next ==
    \/ \E B \in SUBSET Orders :
          Send(B) \/ \E st \in {"open", "filled"} : Arrive(B, st)
    \/ \E o \in Orders :
          NoAnswer(o) \/ Trade(o) \/ End(o) \/ \E w \in {"accepted", "filled", "rejected"} : Show(o, w)

Spec == Init /\ [][Next]_lifeVars

=============================================================================
