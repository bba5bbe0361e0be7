------------------------- MODULE MCPaymentSession -------------------------
(* Instances of PaymentSession for TLC: one session. *)
EXTENDS PaymentSession, TLC

CONSTANTS s1, p1, p2, approved, rejected

OneSession == [q \in Payments \cup Cancels \cup Results |-> s1]
Decided == [r \in Results |-> IF r = approved THEN "APPROVED" ELSE "REJECTED"]
Symmetry == Permutations(Relays) \cup Permutations(Deliveries)
===========================================================================
