----------------------------- MODULE SaleOutcome -----------------------------
(***************************************************************************)
(* What the Authorization context promises to the rest of the system about *)
(* a sale, with no database, acquirer, worker or reconciler in sight: a    *)
(* sale gets at most one outcome, an approved sale may later be reversed,  *)
(* and nothing is announced on the bus that was not decided before.        *)
(*                                                                         *)
(* Authorization.tla is shown to implement this module.                    *)
(***************************************************************************)
CONSTANT Txns       \* transaction ids

VARIABLES
  outcome,          \* the outcome a sale has reached
  announced         \* the outcomes of a sale that the bus has carried

outcomeVars == <<outcome, announced>>

Outcomes == {"none", "open", "approved", "rejected", "reversed"}
Announcements == {"approved", "rejected", "reversed"}

OutcomeTypeOK ==
  /\ outcome \in [Txns -> Outcomes]
  /\ announced \in [Txns -> SUBSET Announcements]

OutcomeInit ==
  /\ outcome = [t \in Txns |-> "none"]
  /\ announced = [t \in Txns |-> {}]

(* A sale is accepted for processing, or refused at once (a blocked card). *)
(* A sale that was already announced as rejected is never accepted.        *)
Accept(t) ==
  /\ outcome[t] = "none" /\ announced[t] = {}
  /\ outcome' \in {[outcome EXCEPT ![t] = o] : o \in {"open", "rejected"}}
  /\ UNCHANGED announced

(* The sale is decided, once. *)
Decide(t) ==
  /\ outcome[t] = "open"
  /\ outcome' \in {[outcome EXCEPT ![t] = o] : o \in {"approved", "rejected"}}
  /\ UNCHANGED announced

(* An approved sale is reversed at the request of the terminal. *)
Reverse(t) ==
  /\ outcome[t] = "approved"
  /\ outcome' = [outcome EXCEPT ![t] = "reversed"]
  /\ UNCHANGED announced

(* What may be announced of a sale. A sale that never existed (invalid     *)
(* data) can only be announced as rejected. The announcement of an         *)
(* approval may come after the sale was reversed: publications are not     *)
(* ordered with the decisions that follow them.                            *)
MayAnnounce(t) ==
  CASE outcome[t] = "approved" -> {"approved"}
    [] outcome[t] = "reversed" -> {"approved", "reversed"}
    [] outcome[t] \in {"none", "rejected"} -> {"rejected"}
    [] OTHER -> {}

Announce(t) ==
  /\ \E a \in MayAnnounce(t) :
       announced' = [announced EXCEPT ![t] = @ \cup {a}]
  /\ UNCHANGED outcome

OutcomeNext == \E t \in Txns : Accept(t) \/ Decide(t) \/ Reverse(t) \/ Announce(t)

OutcomeSpec == OutcomeInit /\ [][OutcomeNext]_outcomeVars
=============================================================================
