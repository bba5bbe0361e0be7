-------------------------- MODULE MCIso8583Client --------------------------
(* Instances of Iso8583Client for TLC: an authorization and two reversals  *)
(* of one sale.                                                            *)
EXTENDS Iso8583Client, TLC

CONSTANTS s1, a1, r1, r2

OneSale == [c \in Calls |-> s1]
Kinds == [c \in Calls |-> IF c = a1 THEN "AUTH" ELSE "REVERSAL"]
Symmetry == Permutations({r1, r2})
============================================================================
