--------------------------- MODULE MCStrategyProcess ---------------------------
(* Instances of StrategyProcess for TLC. *)
EXTENDS StrategyProcess, TLC

CONSTANTS s1, s2, p1, p2, p3, acct

(* one strategy that is started twice, and a neighbour on its account *)
TwoStrategies == p1 :> s1 @@ p2 :> s1 @@ p3 :> s2
SharedAccount == s1 :> acct @@ s2 :> acct

(* one strategy *)
OneStrategy == p1 :> s1 @@ p2 :> s1
OneAccount == s1 :> acct

=============================================================================
