-------------------------- MODULE MCAuthorization --------------------------
(* Instances of Authorization for TLC. *)
EXTENDS Authorization, TLC

CONSTANTS t1, t2, t3, e1, e2, e3, e4, s1, s2, r1, r2, i1, i2, card

(* Every event is about one sale. *)
OneSaleReceived == [e \in Received |-> t1]
OneSaleScores == [s \in Scores |-> t1]
OneSaleReversals == [r \in Reversals |-> t1]

(* A sale delivered under two event ids, another one of the same card, and *)
(* a third one that only exists in a malformed event.                      *)
ThreeSalesReceived == e1 :> t1 @@ e2 :> t1 @@ e3 :> t2 @@ e4 :> t3

SameCard == [t \in Txns |-> card]

Instances == Permutations({i1, i2})
=============================================================================
