------------------------- MODULE AuthorizationProofs -------------------------
(***************************************************************************)
(* Proofs about Authorization, for any number of sales, events, scores,    *)
(* reversal requests and reconcilers: types, the state machine of the      *)
(* rows, announcements and the refinement of SaleOutcome.                  *)
(***************************************************************************)
EXTENDS Authorization, TLAPS

------------------------------------------------------------------------------
(* Type correctness.                                                       *)

(* A conditional UPDATE keeps the states well typed. *)
LEMMA SaveIfStateType ==
  ASSUME state \in [Txns -> States], NEW t \in Txns,
         NEW old, NEW new \in States, SaveIfState(t, old, new)
  PROVE  state' \in [Txns -> States]
  BY DEF SaveIfState

(* So does an INSERT that gives way to the row that exists. *)
LEMMA InsertTxType ==
  ASSUME state \in [Txns -> States], sale \in [Txns -> SalePC],
         NEW t \in Txns, NEW new \in States, NEW pc \in SalePC,
         InsertTx(t, new, pc)
  PROVE  state' \in [Txns -> States] /\ sale' \in [Txns -> SalePC]
  BY DEF InsertTx

(* And a reversal at the host, the charges and what it overtook. *)
LEMMA HostReversesType ==
  ASSUME charge \in [Txns -> {"none", "approved", "reversed"}], overtaken \subseteq Txns,
         NEW t \in Txns, HostReverses(t)
  PROVE  charge' \in [Txns -> {"none", "approved", "reversed"}] /\ overtaken' \subseteq Txns
  BY DEF HostReverses

(* A reconciler replaces its copy of one sale. *)
LEMMA SetCopyType ==
  ASSUME reconciling \in [Reconcilers -> [Txns -> Copies]],
         NEW i \in Reconcilers, NEW t \in Txns, NEW c \in Copies,
         reconciling' = [reconciling EXCEPT ![i][t] = c]
  PROVE  reconciling' \in [Reconcilers -> [Txns -> Copies]]
  OBVIOUS

(* A reconciler goes on with a sale. *)
LEMMA MoveToType ==
  ASSUME reconciling \in [Reconcilers -> [Txns -> Copies]],
         NEW i \in Reconcilers, NEW t \in Txns, NEW pc \in ReconcilePC,
         MoveTo(i, t, pc)
  PROVE  reconciling' \in [Reconcilers -> [Txns -> Copies]]
<1> DEFINE c == [pc |-> pc, mem |-> reconciling[i][t].mem]
<1>1. c \in Copies
  BY DEF Copies
<1>2. reconciling' = [reconciling EXCEPT ![i][t] = c]
  BY DEF MoveTo
<1> QED
  BY <1>1, <1>2, SetCopyType

(* A reconciler is done with a sale. *)
LEMMA DropType ==
  ASSUME reconciling \in [Reconcilers -> [Txns -> Copies]],
         NEW i \in Reconcilers, NEW t \in Txns, Drop(i, t)
  PROVE  reconciling' \in [Reconcilers -> [Txns -> Copies]]
<1>1. Unlisted \in Copies
  BY DEF Copies, Unlisted, ReconcilePC, States
<1> QED
  BY <1>1, SetCopyType DEF Drop

(* The initial state is well typed. *)
LEMMA InitTypeOK == Init => TypeOK
  BY AuthorizationAssumption
  DEF Init, TypeOK, States, SalePC, ReversalPC, InvalidPC, ReconcilePC,
      Answers, Copies, Unlisted

(* Every variable stays within its type. *)
THEOREM TypeCorrect == Spec => []TypeOK
<1> USE AuthorizationAssumption
<1>1. Init => TypeOK
  BY InitTypeOK
<1>2. TypeOK /\ [Next]_vars => TypeOK'
  <2> SUFFICES ASSUME TypeOK, [Next]_vars PROVE TypeOK'
    OBVIOUS
  <2> USE DEF db, goroutines, bus, acquirer
  <2>t. /\ state \in [Txns -> States]
        /\ sale \in [Txns -> SalePC]
        /\ reconciling \in [Reconcilers -> [Txns -> Copies]]
        /\ charge \in [Txns -> {"none", "approved", "reversed"}]
        /\ overtaken \subseteq Txns
        /\ published \in [Txns -> SUBSET {"approved", "rejected", "reversed"}]
        /\ reversal \in [Reversals -> ReversalPC]
    BY DEF TypeOK
  <2>1. ASSUME NEW e \in Received, ReceiveTransaction(e) PROVE TypeOK'
    <3>1. TxOf[e] \in Txns /\ "FRAUD_CHECKING" \in States /\ "requestFraud" \in SalePC
      BY DEF States, SalePC
    <3>2. state' \in [Txns -> States] /\ sale' \in [Txns -> SalePC]
      BY <2>t, <2>1, <3>1, InsertTxType DEF ReceiveTransaction
    <3> QED
      BY <2>1, <3>2 DEF ReceiveTransaction, TryMarkAsProcessed, TypeOK
  <2>2. ASSUME NEW e \in Received, RejectBlockedCard(e) PROVE TypeOK'
    <3>1. TxOf[e] \in Txns /\ "REJECTED" \in States /\ "announceRejected" \in SalePC
      BY DEF States, SalePC
    <3>2. state' \in [Txns -> States] /\ sale' \in [Txns -> SalePC]
      BY <2>t, <2>2, <3>1, InsertTxType DEF RejectBlockedCard
    <3> QED
      BY <2>2, <3>2 DEF RejectBlockedCard, TryMarkAsProcessed, TypeOK
  <2>3. ASSUME NEW e \in Malformed, RejectInvalid(e) PROVE TypeOK'
    <3>1. rejecting' \in [Malformed -> InvalidPC]
      BY <2>3 DEF RejectInvalid, TypeOK, InvalidPC
    <3>2. invalid' \subseteq Txns
      BY <2>3 DEF RejectInvalid, TypeOK
    <3> QED
      BY <2>3, <3>1, <3>2 DEF RejectInvalid, TypeOK
  <2>4. ASSUME NEW e \in Malformed, PublishInvalidRejected(e) PROVE TypeOK'
    BY <2>4 DEF PublishInvalidRejected, TypeOK, InvalidPC
  <2>5. ASSUME NEW e \in Malformed, AbandonInvalid(e) PROVE TypeOK'
    BY <2>5 DEF AbandonInvalid, TypeOK, InvalidPC
  <2>6. CASE PurgeInvalidRejections
    BY <2>6 DEF PurgeInvalidRejections, TypeOK
  <2>7. ASSUME NEW s \in Scores, FraudAnswers(s) PROVE TypeOK'
    BY <2>7 DEF FraudAnswers, TypeOK
  <2>8. ASSUME NEW s \in Scores, ApplyFraudScore(s) PROVE TypeOK'
    <3>1. ScoreOf[s] \in Txns /\ "REJECTED" \in States /\ "PROCESSING" \in States
      BY DEF States
    <3>2. state' \in [Txns -> States]
      BY <2>t, <2>8, <3>1, SaveIfStateType DEF ApplyFraudScore
    <3>3. sale' \in [Txns -> SalePC]
      BY <2>t, <2>8, <3>1 DEF ApplyFraudScore, SalePC
    <3> QED
      BY <2>8, <3>2, <3>3 DEF ApplyFraudScore, TryMarkAsProcessed, TypeOK
  <2>9. ASSUME NEW t \in Txns, SaleStep(t) PROVE TypeOK'
    <3> USE DEF SalePC
    <3>1. CASE PublishFraudCheckRequested(t)
      BY <3>1 DEF PublishFraudCheckRequested, TypeOK
    <3>2. CASE SendAuthorization(t)
      BY <3>2 DEF SendAuthorization, TypeOK, Answers
    <3>3. CASE AuthorizationNotSent(t)
      BY <3>3 DEF AuthorizationNotSent, TypeOK
    <3>4. CASE ReceiveApproval(t)
      BY <3>4 DEF ReceiveApproval, TypeOK
    <3>5. CASE CallFails(t)
      BY <3>5 DEF CallFails, TypeOK
    <3>6. CASE ReceiveRejection(t)
      BY <3>6 DEF ReceiveRejection, TypeOK
    <3>7. CASE SaveResult(t)
      <4>1. state' \in [Txns -> States]
        BY <2>t, <3>7 DEF SaveResult, SaveIfState, States
      <4>2. sale' \in [Txns -> SalePC]
        BY <2>t, <3>7 DEF SaveResult
      <4> QED
        BY <3>7, <4>1, <4>2 DEF SaveResult, TypeOK
    <3>8. CASE PublishOutcome(t)
      BY <3>8 DEF PublishOutcome, TypeOK
    <3> QED
      BY <2>9, <3>1, <3>2, <3>3, <3>4, <3>5, <3>6, <3>7, <3>8 DEF SaleStep
  <2>10. ASSUME NEW t \in Txns, HostDecides(t) PROVE TypeOK'
    BY <2>10 DEF HostDecides, TypeOK, Answers
  <2>11. ASSUME NEW t \in Txns, AbandonSale(t) PROVE TypeOK'
    BY <2>11 DEF AbandonSale, TypeOK, SalePC
  <2>12. ASSUME NEW r \in Reversals, ProcessReversal(r) PROVE TypeOK'
    <3>1. reversal' \in [Reversals -> ReversalPC]
      BY <2>t, <2>12 DEF ProcessReversal, ReversalPC
    <3>2. reversalRequested' \subseteq Txns
      BY <2>12 DEF ProcessReversal, TypeOK
    <3> QED
      BY <2>12, <3>1, <3>2 DEF ProcessReversal, TryMarkAsProcessed, TypeOK
  <2>13. ASSUME NEW r \in Reversals, ReversalStep(r) PROVE TypeOK'
    <3>1. ReversalOf[r] \in Txns /\ "REVERSED" \in States
      BY DEF States
    <3>2. CASE ReverseAtHost(r)
      <4>1. charge' \in [Txns -> {"none", "approved", "reversed"}] /\ overtaken' \subseteq Txns
        BY <2>t, <3>1, <3>2, HostReversesType DEF ReverseAtHost
      <4>2. reversal' \in [Reversals -> ReversalPC]
        BY <2>t, <3>2 DEF ReverseAtHost, ReversalPC
      <4> QED
        BY <3>2, <4>1, <4>2 DEF ReverseAtHost, TypeOK
    <3>3. CASE SaveReversed(r)
      <4>1. state' \in [Txns -> States]
        BY <2>t, <3>1, <3>3, SaveIfStateType DEF SaveReversed
      <4>2. reversal' \in [Reversals -> ReversalPC]
        BY <2>t, <3>3 DEF SaveReversed, ReversalPC
      <4> QED
        BY <3>3, <4>1, <4>2 DEF SaveReversed, TypeOK
    <3>4. CASE PublishReversalCompleted(r)
      BY <3>1, <3>4 DEF PublishReversalCompleted, TypeOK, ReversalPC
    <3> QED
      BY <2>13, <3>2, <3>3, <3>4 DEF ReversalStep
  <2>14. ASSUME NEW r \in Reversals, AbandonReversal(r) PROVE TypeOK'
    BY <2>14 DEF AbandonReversal, TypeOK, ReversalPC
  <2>u. Unlisted \in Copies
    BY DEF Copies, Unlisted, ReconcilePC, States
  <2>15. ASSUME NEW i \in Reconcilers, FindUnresolved(i) PROVE TypeOK'
    <3>1. reconciling' \in [Reconcilers -> [Txns -> Copies]]
      BY <2>t, <2>u, <2>15 DEF FindUnresolved, StartRun, Copies, ReconcilePC, States
    <3> QED
      BY <2>15, <3>1 DEF FindUnresolved, TypeOK
  <2>16. ASSUME NEW i \in Reconcilers, FindPendingReversals(i) PROVE TypeOK'
    <3>1. reconciling' \in [Reconcilers -> [Txns -> Copies]]
      BY <2>t, <2>u, <2>16 DEF FindPendingReversals, StartRun, Copies, ReconcilePC, States
    <3> QED
      BY <2>16, <3>1 DEF FindPendingReversals, TypeOK
  <2>17. ASSUME NEW i \in Reconcilers, ReconcilerStops(i) PROVE TypeOK'
    BY <2>u, <2>17 DEF ReconcilerStops, TypeOK
  <2>18. ASSUME NEW i \in Reconcilers, NEW t \in Txns, ReconcileStep(i, t)
         PROVE  TypeOK'
    <3> USE DEF ReconcilePC
    <3>s. {"INDETERMINATE", "REJECTED", "REVERSED"} \subseteq States
      BY DEF States
    <3>1. CASE LoadListed(i, t)
      <4>1. \A pc \in {"loaded", "reversalLoaded"} :
              [pc |-> pc, mem |-> state[t]] \in Copies
        BY <2>t DEF Copies
      <4>2. [pc |-> "loaded", mem |-> state[t]] \in Copies
        BY <4>1
      <4>3. [pc |-> "reversalLoaded", mem |-> state[t]] \in Copies
        BY <4>1
      <4>4. reconciling' \in [Reconcilers -> [Txns -> Copies]]
        BY <2>t, <3>1, <4>2, <4>3, SetCopyType DEF LoadListed
      <4> QED
        BY <3>1, <4>4 DEF LoadListed, TypeOK
    <3>2. CASE TakeOver(i, t)
      <4>1. [pc |-> "reverse", mem |-> "INDETERMINATE"] \in Copies
        BY <3>s DEF Copies
      <4>2. reconciling' \in [Reconcilers -> [Txns -> Copies]]
        BY <2>t, <3>2, <4>1, SetCopyType, DropType DEF TakeOver
      <4>3. state' \in [Txns -> States]
        BY <2>t, <3>2, <3>s, SaveIfStateType DEF TakeOver
      <4> QED
        BY <3>2, <4>2, <4>3 DEF TakeOver, TypeOK
    <3>3. CASE ReverseUnresolved(i, t)
      <4>1. reconciling' \in [Reconcilers -> [Txns -> Copies]]
        BY <2>t, <3>3, MoveToType, DropType DEF ReverseUnresolved
      <4>2. charge' \in [Txns -> {"none", "approved", "reversed"}] /\ overtaken' \subseteq Txns
        BY <2>t, <3>3, HostReversesType DEF ReverseUnresolved
      <4> QED
        BY <3>3, <4>1, <4>2 DEF ReverseUnresolved, TypeOK
    <3>4. CASE SaveRejection(i, t)
      <4>1. reconciling' \in [Reconcilers -> [Txns -> Copies]]
        BY <2>t, <3>4, MoveToType, DropType DEF SaveRejection
      <4>2. state' \in [Txns -> States]
        BY <2>t, <3>4, <3>s, SaveIfStateType DEF SaveRejection
      <4> QED
        BY <3>4, <4>1, <4>2 DEF SaveRejection, TypeOK
    <3>5. CASE PublishRejection(i, t)
      <4>1. reconciling' \in [Reconcilers -> [Txns -> Copies]]
        BY <2>t, <3>5, DropType DEF PublishRejection
      <4> QED
        BY <3>5, <4>1 DEF PublishRejection, TypeOK
    <3>6. CASE RetryReversal(i, t)
      <4>1. reconciling' \in [Reconcilers -> [Txns -> Copies]]
        BY <2>t, <3>6, MoveToType, DropType DEF RetryReversal
      <4>2. charge' \in [Txns -> {"none", "approved", "reversed"}] /\ overtaken' \subseteq Txns
        BY <2>t, <3>6, HostReversesType DEF RetryReversal
      <4> QED
        BY <3>6, <4>1, <4>2 DEF RetryReversal, TypeOK
    <3>7. CASE SaveRetriedReversal(i, t)
      <4>1. reconciling' \in [Reconcilers -> [Txns -> Copies]]
        BY <2>t, <3>7, MoveToType, DropType DEF SaveRetriedReversal
      <4>2. state' \in [Txns -> States]
        BY <2>t, <3>7, <3>s, SaveIfStateType DEF SaveRetriedReversal
      <4> QED
        BY <3>7, <4>1, <4>2 DEF SaveRetriedReversal, TypeOK
    <3>8. CASE PublishRetriedReversal(i, t)
      <4>1. reconciling' \in [Reconcilers -> [Txns -> Copies]]
        BY <2>t, <3>8, DropType DEF PublishRetriedReversal
      <4> QED
        BY <3>8, <4>1 DEF PublishRetriedReversal, TypeOK
    <3> QED
      BY <2>18, <3>1, <3>2, <3>3, <3>4, <3>5, <3>6, <3>7, <3>8 DEF ReconcileStep
  <2>19. ASSUME NEW i \in Reconcilers, NEW t \in Txns, SkipSale(i, t)
         PROVE  TypeOK'
    <3>1. reconciling' \in [Reconcilers -> [Txns -> Copies]]
      BY <2>t, <2>19, DropType DEF SkipSale
    <3> QED
      BY <2>19, <3>1 DEF SkipSale, TypeOK
  <2>20. CASE UNCHANGED vars
    BY <2>20 DEF vars, TypeOK
  <2> QED
    BY <2>1, <2>2, <2>3, <2>4, <2>5, <2>6, <2>7, <2>8, <2>9, <2>10, <2>11,
       <2>12, <2>13, <2>14, <2>15, <2>16, <2>17, <2>18, <2>19, <2>20
    DEF Next
<1> QED
  BY <1>1, <1>2, PTL DEF Spec

------------------------------------------------------------------------------
(* The rows.                                                               *)

(* The row of sale t moves to another state. No step that moves a row also *)
(* publishes something.                                                    *)
RowMove(t, new) ==
  /\ state' = [state EXCEPT ![t] = new]
  /\ UNCHANGED published
  /\ \/ /\ state[t] = "NONE" /\ new \in {"FRAUD_CHECKING", "REJECTED"}
        /\ \E e \in Received \ Malformed : TxOf[e] = t
     \/ state[t] = "FRAUD_CHECKING" /\ new \in {"PROCESSING", "REJECTED"}
     \/ state[t] = "PROCESSING" /\ new \in {"APPROVED", "REJECTED", "INDETERMINATE"}
     \/ state[t] = "INDETERMINATE" /\ new = "REJECTED"
     \/ state[t] = "APPROVED" /\ new = "REVERSED"

(* A conditional UPDATE leaves the rows as they are or moves one.          *)
LEMMA SaveIfStateMoves ==
  ASSUME state \in [Txns -> States], NEW t \in Txns, NEW old, NEW new,
         SaveIfState(t, old, new)
  PROVE  \/ UNCHANGED state
         \/ state[t] = old /\ state' = [state EXCEPT ![t] = new]
  BY DEF SaveIfState

(* Every step moves at most one row, along the state machine.              *)
LEMMA RowSteps ==
  ASSUME TypeOK, [Next]_vars
  PROVE  UNCHANGED state \/ \E t \in Txns : \E new : RowMove(t, new)
<1> USE AuthorizationAssumption
<1> USE DEF db, goroutines, bus, acquirer
<1> DEFINE Moved == UNCHANGED state \/ \E t \in Txns : \E new : RowMove(t, new)
<1>t. state \in [Txns -> States]
  BY DEF TypeOK
<1>1. ASSUME NEW e \in Received, ReceiveTransaction(e) \/ RejectBlockedCard(e)
      PROVE  Moved
  <2> DEFINE t == TxOf[e]
  <2>1. t \in Txns /\ e \in Received \ Malformed /\ UNCHANGED published
    BY <1>1 DEF ReceiveTransaction, RejectBlockedCard
  <2>2. \/ UNCHANGED state
        \/ /\ state[t] = "NONE"
           /\ \/ state' = [state EXCEPT ![t] = "FRAUD_CHECKING"]
              \/ state' = [state EXCEPT ![t] = "REJECTED"]
    BY <1>1 DEF ReceiveTransaction, RejectBlockedCard, InsertTx
  <2> QED
    BY <2>1, <2>2 DEF RowMove
<1>2. ASSUME NEW s \in Scores, ApplyFraudScore(s) PROVE Moved
  <2> DEFINE t == ScoreOf[s]
  <2>1. t \in Txns /\ UNCHANGED published
    BY <1>2 DEF ApplyFraudScore
  <2>2. \/ UNCHANGED state
        \/ /\ state[t] = "FRAUD_CHECKING"
           /\ \/ state' = [state EXCEPT ![t] = "REJECTED"]
              \/ state' = [state EXCEPT ![t] = "PROCESSING"]
    BY <1>2, <1>t, <2>1, SaveIfStateMoves DEF ApplyFraudScore
  <2> QED
    BY <2>1, <2>2 DEF RowMove
<1>3. ASSUME NEW t \in Txns, SaveResult(t) PROVE Moved
  <2>1. \/ UNCHANGED state
        \/ /\ state[t] = "PROCESSING"
           /\ \E new \in {"APPROVED", "REJECTED", "INDETERMINATE"} :
                state' = [state EXCEPT ![t] = new]
    BY <1>3, <1>t, SaveIfStateMoves DEF SaveResult
  <2>2. UNCHANGED published
    BY <1>3 DEF SaveResult
  <2> QED
    BY <2>1, <2>2 DEF RowMove
<1>4. ASSUME NEW r \in Reversals, SaveReversed(r) PROVE Moved
  <2>1. ReversalOf[r] \in Txns /\ UNCHANGED published
    BY <1>4 DEF SaveReversed
  <2> QED
    BY <1>4, <1>t, <2>1, SaveIfStateMoves DEF SaveReversed, RowMove
<1>5. ASSUME NEW i \in Reconcilers, NEW t \in Txns, TakeOver(i, t) PROVE Moved
  BY <1>5, <1>t, SaveIfStateMoves DEF TakeOver, RowMove
<1>6. ASSUME NEW i \in Reconcilers, NEW t \in Txns, SaveRejection(i, t) PROVE Moved
  BY <1>6, <1>t, SaveIfStateMoves DEF SaveRejection, RowMove
<1>7. ASSUME NEW i \in Reconcilers, NEW t \in Txns, SaveRetriedReversal(i, t)
      PROVE  Moved
  BY <1>7, <1>t, SaveIfStateMoves DEF SaveRetriedReversal, RowMove
<1>8. ASSUME NEW e \in Malformed,
             RejectInvalid(e) \/ PublishInvalidRejected(e) \/ AbandonInvalid(e)
      PROVE  UNCHANGED state
  BY <1>8 DEF RejectInvalid, PublishInvalidRejected, AbandonInvalid
<1>9. CASE PurgeInvalidRejections
  BY <1>9 DEF PurgeInvalidRejections
<1>10. ASSUME NEW s \in Scores, FraudAnswers(s) PROVE UNCHANGED state
  BY <1>10 DEF FraudAnswers
<1>11. ASSUME NEW t \in Txns, SaleStep(t) \/ HostDecides(t) \/ AbandonSale(t)
       PROVE  Moved
  BY <1>11, <1>3 DEF SaleStep, PublishFraudCheckRequested, SendAuthorization,
     AuthorizationNotSent, ReceiveApproval, ReceiveRejection, CallFails,
     PublishOutcome, HostDecides, AbandonSale
<1>12. ASSUME NEW r \in Reversals,
              ProcessReversal(r) \/ ReversalStep(r) \/ AbandonReversal(r)
       PROVE  Moved
  BY <1>12, <1>4 DEF ProcessReversal, ReversalStep, ReverseAtHost,
     PublishReversalCompleted, AbandonReversal
<1>13. ASSUME NEW i \in Reconcilers,
              FindUnresolved(i) \/ FindPendingReversals(i) \/ ReconcilerStops(i)
       PROVE  UNCHANGED state
  BY <1>13 DEF FindUnresolved, FindPendingReversals, ReconcilerStops
<1>14. ASSUME NEW i \in Reconcilers, NEW t \in Txns,
              ReconcileStep(i, t) \/ SkipSale(i, t)
       PROVE  Moved
  BY <1>14, <1>5, <1>6, <1>7 DEF ReconcileStep, LoadListed, ReverseUnresolved,
     PublishRejection, RetryReversal, PublishRetriedReversal, SkipSale
<1>15. CASE UNCHANGED vars
  BY <1>15 DEF vars
<1> QED
  BY <1>1, <1>2, <1>8, <1>9, <1>10, <1>11, <1>12, <1>13, <1>14, <1>15 DEF Next

(* The rows follow the aggregate's state machine: an outcome is final,     *)
(* except that an approved sale can be reversed.                           *)
THEOREM RowsAsAllowed == Spec => RowsFollowStateMachine
<1>1. ASSUME TypeOK, [Next]_vars
      PROVE  [\A t \in Txns : state'[t] # state[t] =>
                state'[t] \in CanTransitionTo(state[t])]_state
  <2>1. CASE UNCHANGED state
    BY <2>1
  <2>2. ASSUME NEW u \in Txns, NEW new, RowMove(u, new)
        PROVE  \A t \in Txns : state'[t] # state[t] =>
                 state'[t] \in CanTransitionTo(state[t])
    <3>1. state \in [Txns -> States] /\ state' = [state EXCEPT ![u] = new]
      BY <1>1, <2>2 DEF TypeOK, RowMove
    <3>2. \A t \in Txns : state'[t] = IF t = u THEN new ELSE state[t]
      BY <3>1
    <3>3. new \in CanTransitionTo(state[u])
      BY <2>2 DEF RowMove, CanTransitionTo
    <3> QED
      BY <3>2, <3>3
  <2> QED
    BY <1>1, <2>1, <2>2, RowSteps
<1> QED
  BY <1>1, TypeCorrect, PTL DEF Spec, RowsFollowStateMachine

------------------------------------------------------------------------------
(* The effect of the helpers, element by element.                          *)

(* Where the reconcilers are after one of them goes on with a sale. *)
LEMMA MoveToPc ==
  ASSUME reconciling \in [Reconcilers -> [Txns -> Copies]],
         NEW i \in Reconcilers, NEW t \in Txns, NEW pc, MoveTo(i, t, pc)
  PROVE  \A j \in Reconcilers, u \in Txns :
           reconciling'[j][u].pc = IF j = i /\ u = t THEN pc ELSE reconciling[j][u].pc
  BY DEF MoveTo

(* The same, after one of them is done with a sale. *)
LEMMA DropPc ==
  ASSUME reconciling \in [Reconcilers -> [Txns -> Copies]],
         NEW i \in Reconcilers, NEW t \in Txns, Drop(i, t)
  PROVE  \A j \in Reconcilers, u \in Txns :
           reconciling'[j][u].pc = IF j = i /\ u = t THEN "idle" ELSE reconciling[j][u].pc
  BY DEF Drop, Unlisted

(* What a conditional UPDATE leaves in every row. *)
LEMMA SaveIfStateRows ==
  ASSUME state \in [Txns -> States], NEW t \in Txns,
         NEW old, NEW new, SaveIfState(t, old, new)
  PROVE  \A u \in Txns :
           state'[u] = IF u = t /\ state[t] = old THEN new ELSE state[u]
  BY DEF SaveIfState

(* And a publication, on the bus. *)
LEMMA PublishedAfter ==
  ASSUME published \in [Txns -> SUBSET {"approved", "rejected", "reversed"}],
         NEW t \in Txns, NEW o,
         published' = [published EXCEPT ![t] = @ \cup {o}]
  PROVE  \A u \in Txns : \A p :
           p \in published'[u] <=> p \in published[u] \/ (u = t /\ p = o)
  OBVIOUS

(* And a reversal at the host, on the charges and on what it overtook. *)
LEMMA HostReversesCharges ==
  ASSUME charge \in [Txns -> {"none", "approved", "reversed"}],
         NEW t \in Txns, HostReverses(t)
  PROVE  /\ overtaken' = IF answer[t] = "sent" THEN overtaken \cup {t} ELSE overtaken
         /\ \A u \in Txns :
              charge'[u] = IF u = t /\ charge[t] = "approved" THEN "reversed" ELSE charge[u]
  BY DEF HostReverses

------------------------------------------------------------------------------
(* Announcements: what the bus says of a sale agrees with the database,    *)
(* for any number of workers, reversal requests and reconcilers, and       *)
(* Authorization implements SaleOutcome. First, the inductive invariant.   *)

(* A malformed event's sale never gets a row. *)
MalformedHasNoRow == \A e \in Malformed : state[TxOf[e]] = "NONE"

(* A goroutine that is about to announce an outcome found the row moved to *)
(* it, and the row can only have gone from APPROVED to REVERSED since.     *)
AnnouncersSawTheRow ==
  /\ \A t \in Txns :
       /\ sale[t] = "announceApproved" => state[t] \in {"APPROVED", "REVERSED"}
       /\ sale[t] = "announceRejected" => state[t] = "REJECTED"
  /\ \A r \in Reversals :
       reversal[r] = "announce" => state[ReversalOf[r]] = "REVERSED"
  /\ \A i \in Reconcilers, t \in Txns :
       /\ reconciling[i][t].pc = "announce" => state[t] = "REJECTED"
       /\ reconciling[i][t].pc = "reversalAnnounce" => state[t] = "REVERSED"

(* An outcome that a goroutine is about to announce was not announced yet. *)
NotYetPublished ==
  /\ \A t \in Txns :
       /\ sale[t] = "announceApproved" => "approved" \notin published[t]
       /\ sale[t] = "announceRejected" => "rejected" \notin published[t]
  /\ \A r \in Reversals :
       reversal[r] = "announce" => "reversed" \notin published[ReversalOf[r]]
  /\ \A i \in Reconcilers, t \in Txns :
       /\ reconciling[i][t].pc = "announce" => "rejected" \notin published[t]
       /\ reconciling[i][t].pc = "reversalAnnounce" => "reversed" \notin published[t]

(* And no other goroutine is about to announce it. *)
OneAnnouncer ==
  /\ \A i \in Reconcilers, t \in Txns :
       /\ reconciling[i][t].pc = "announce" =>
            /\ sale[t] # "announceRejected"
            /\ \A j \in Reconcilers : reconciling[j][t].pc = "announce" => i = j
       /\ reconciling[i][t].pc = "reversalAnnounce" =>
            \A j \in Reconcilers : reconciling[j][t].pc = "reversalAnnounce" => i = j
  /\ \A r \in Reversals : reversal[r] = "announce" =>
       /\ \A q \in Reversals :
            reversal[q] = "announce" /\ ReversalOf[q] = ReversalOf[r] => q = r
       /\ \A i \in Reconcilers :
            reconciling[i][ReversalOf[r]].pc # "reversalAnnounce"

OutcomeInv ==
  /\ TypeOK
  /\ MalformedHasNoRow
  /\ PublishedOutcomeIsStored
  /\ AnnouncersSawTheRow
  /\ NotYetPublished
  /\ OneAnnouncer

------------------------------------------------------------------------------
(* Every step preserves the invariant, provided that no sale is carried by *)
(* both a malformed and a well-formed event.                               *)
LEMMA OutcomeStep ==
  ASSUME Unmixed, OutcomeInv, TypeOK', [Next]_vars
  PROVE  OutcomeInv'
<1> USE AuthorizationAssumption
<1> USE DEF db, goroutines, bus, acquirer
<1>t. /\ state \in [Txns -> States]
      /\ sale \in [Txns -> SalePC]
      /\ reversal \in [Reversals -> ReversalPC]
      /\ reconciling \in [Reconcilers -> [Txns -> Copies]]
      /\ published \in [Txns -> SUBSET {"approved", "rejected", "reversed"}]
  BY DEF OutcomeInv, TypeOK
<1> DEFINE Inv == /\ MalformedHasNoRow
                  /\ PublishedOutcomeIsStored
                  /\ AnnouncersSawTheRow
                  /\ NotYetPublished
                  /\ OneAnnouncer
<1>i. Inv
  BY DEF OutcomeInv
<1>q. SUFFICES Inv'
  BY DEF OutcomeInv
<1> USE DEF MalformedHasNoRow, PublishedOutcomeIsStored, AnnouncersSawTheRow, NotYetPublished, OneAnnouncer
<1>1. ASSUME NEW e \in Received, ReceiveTransaction(e) PROVE Inv'
  <2>1. e \notin Malformed /\ UNCHANGED <<reversal, reconciling, published>>
    BY <1>1 DEF ReceiveTransaction
  <2>2. CASE UNCHANGED <<state, sale>>
    BY <2>1, <2>2, <1>i
  <2>3. ASSUME NEW t \in Txns, t = TxOf[e], state[t] = "NONE",
               \A u \in Txns : /\ state'[u] = IF u = t THEN "FRAUD_CHECKING" ELSE state[u]
                               /\ sale'[u] = IF u = t THEN "requestFraud" ELSE sale[u]
        PROVE  Inv'
    <3>1. \A f \in Malformed : TxOf[f] # t
      BY <2>1, <2>3, Unmixed DEF Unmixed
    <3>2. MalformedHasNoRow' /\ AnnouncersSawTheRow'
      BY <2>1, <2>3, <3>1, <1>i
    <3>3. PublishedOutcomeIsStored'
      BY <2>1, <2>3, <3>1, <1>i
    <3>4. NotYetPublished' /\ OneAnnouncer'
      BY <2>1, <2>3, <3>1, <1>i
    <3> QED
      BY <3>2, <3>3, <3>4
  <2>4. TxOf[e] \in Txns
    OBVIOUS
  <2> QED
    BY <1>1, <1>t, <2>2, <2>3, <2>4 DEF ReceiveTransaction, InsertTx
<1>2. ASSUME NEW e \in Received, RejectBlockedCard(e) PROVE Inv'
  <2>1. e \notin Malformed /\ UNCHANGED <<reversal, reconciling, published>>
    BY <1>2 DEF RejectBlockedCard
  <2>2. CASE UNCHANGED <<state, sale>>
    BY <2>1, <2>2, <1>i
  <2>3. ASSUME NEW t \in Txns, t = TxOf[e], state[t] = "NONE",
               \A u \in Txns : /\ state'[u] = IF u = t THEN "REJECTED" ELSE state[u]
                               /\ sale'[u] = IF u = t THEN "announceRejected" ELSE sale[u]
        PROVE  Inv'
    <3>1. \A f \in Malformed : TxOf[f] # t
      BY <2>1, <2>3, Unmixed DEF Unmixed
    <3>2. MalformedHasNoRow' /\ AnnouncersSawTheRow'
      BY <2>1, <2>3, <3>1, <1>i
    <3>3. PublishedOutcomeIsStored'
      BY <2>1, <2>3, <3>1, <1>i
    <3>4. NotYetPublished' /\ OneAnnouncer'
      BY <2>1, <2>3, <3>1, <1>i
    <3> QED
      BY <3>2, <3>3, <3>4
  <2>4. TxOf[e] \in Txns
    OBVIOUS
  <2> QED
    BY <1>2, <1>t, <2>2, <2>3, <2>4 DEF RejectBlockedCard, InsertTx
<1>3. ASSUME NEW e \in Malformed, RejectInvalid(e) PROVE Inv'
  BY <1>3, <1>i DEF RejectInvalid
<1>4. ASSUME NEW e \in Malformed, PublishInvalidRejected(e) PROVE Inv'
  BY <1>4, <1>t, <1>i DEF PublishInvalidRejected
<1>5. ASSUME NEW e \in Malformed, AbandonInvalid(e) PROVE Inv'
  BY <1>5, <1>i DEF AbandonInvalid
<1>6. CASE PurgeInvalidRejections
  BY <1>6, <1>i DEF PurgeInvalidRejections
<1>7. ASSUME NEW s \in Scores, FraudAnswers(s) PROVE Inv'
  BY <1>7, <1>i DEF FraudAnswers
<1>8. ASSUME NEW s \in Scores, ApplyFraudScore(s) PROVE Inv'
  BY <1>8, <1>t, <1>i DEF ApplyFraudScore, SaveIfState
<1>9. ASSUME NEW t \in Txns, SaleStep(t) PROVE Inv'
  <2>1. CASE PublishFraudCheckRequested(t)
    BY <2>1, <1>t, <1>i DEF PublishFraudCheckRequested
  <2>2. CASE SendAuthorization(t) \/ AuthorizationNotSent(t) \/ ReceiveApproval(t) \/ CallFails(t)
    BY <2>2, <1>t, <1>i DEF SendAuthorization, AuthorizationNotSent, ReceiveApproval, CallFails
  <2>4. CASE ReceiveRejection(t)
    BY <2>4, <1>t, <1>i DEF ReceiveRejection
  <2>5. CASE SaveResult(t)
    <3>1. PICK old \in {"PROCESSING"}, new \in {"APPROVED", "REJECTED", "INDETERMINATE"} :
            /\ SaveIfState(t, old, new)
            /\ sale' = [sale EXCEPT ![t] =
                 IF state[t] # old THEN "idle"
                 ELSE IF new = "APPROVED" THEN "announceApproved"
                 ELSE IF new = "REJECTED" THEN "announceRejected" ELSE "idle"]
      BY <2>5, <1>t DEF SaveResult
    <3>2. \A u \in Txns : state'[u] = IF u = t /\ state[t] = old THEN new ELSE state[u]
      BY <3>1, <1>t, SaveIfStateRows
    <3>3. UNCHANGED <<reversal, reconciling, published>>
      BY <2>5 DEF SaveResult
    <3>4. MalformedHasNoRow' /\ PublishedOutcomeIsStored'
      BY <3>1, <3>2, <3>3, <1>t, <1>i
    <3>5. AnnouncersSawTheRow'
      BY <3>1, <3>2, <3>3, <1>t, <1>i
    <3>6. NotYetPublished'
      BY <3>1, <3>2, <3>3, <1>t, <1>i
    <3>7. OneAnnouncer'
      BY <3>1, <3>2, <3>3, <1>t, <1>i
    <3> QED
      BY <3>4, <3>5, <3>6, <3>7
  <2>6. CASE PublishOutcome(t)
    <3>1. PICK o \in {"approved", "rejected"} :
            /\ sale[t] = IF o = "approved" THEN "announceApproved" ELSE "announceRejected"
            /\ published' = [published EXCEPT ![t] = @ \cup {o}]
      BY <2>6 DEF PublishOutcome
    <3>2. \A u \in Txns : \A p : p \in published'[u] <=> p \in published[u] \/ (u = t /\ p = o)
      BY <3>1, <1>t, PublishedAfter
    <3>3. sale' = [sale EXCEPT ![t] = "idle"] /\ UNCHANGED <<state, reversal, reconciling>>
      BY <2>6 DEF PublishOutcome
    <3>4. MalformedHasNoRow' /\ PublishedOutcomeIsStored'
      BY <3>1, <3>2, <3>3, <1>t, <1>i
    <3>5. AnnouncersSawTheRow'
      BY <3>3, <1>t, <1>i
    <3>6. NotYetPublished'
      BY <3>1, <3>2, <3>3, <1>t, <1>i
    <3>7. OneAnnouncer'
      BY <3>3, <1>t, <1>i
    <3> QED
      BY <3>4, <3>5, <3>6, <3>7
  <2> QED
    BY <1>9, <2>1, <2>2, <2>4, <2>5, <2>6 DEF SaleStep
<1>10. ASSUME NEW t \in Txns, HostDecides(t) PROVE Inv'
  BY <1>10, <1>i DEF HostDecides
<1>11. ASSUME NEW t \in Txns, AbandonSale(t) PROVE Inv'
  BY <1>11, <1>t, <1>i DEF AbandonSale
<1>12. ASSUME NEW r \in Reversals, ProcessReversal(r) PROVE Inv'
  BY <1>12, <1>t, <1>i DEF ProcessReversal
<1>13. ASSUME NEW r \in Reversals, ReversalStep(r) PROVE Inv'
  <2>1. CASE ReverseAtHost(r)
    BY <2>1, <1>t, <1>i DEF ReverseAtHost
  <2>2. CASE SaveReversed(r)
    BY <2>2, <1>t, <1>i DEF SaveReversed, SaveIfState
  <2>3. CASE PublishReversalCompleted(r)
    BY <2>3, <1>t, <1>i DEF PublishReversalCompleted
  <2> QED
    BY <1>13, <2>1, <2>2, <2>3 DEF ReversalStep
<1>14. ASSUME NEW r \in Reversals, AbandonReversal(r) PROVE Inv'
  BY <1>14, <1>t, <1>i DEF AbandonReversal
<1>15. ASSUME NEW i \in Reconcilers, FindUnresolved(i) PROVE Inv'
  BY <1>15, <1>t, <1>i DEF FindUnresolved, StartRun, Unlisted
<1>16. ASSUME NEW i \in Reconcilers, FindPendingReversals(i) PROVE Inv'
  BY <1>16, <1>t, <1>i DEF FindPendingReversals, StartRun, Unlisted
<1>17. ASSUME NEW i \in Reconcilers, ReconcilerStops(i) PROVE Inv'
  BY <1>17, <1>t, <1>i DEF ReconcilerStops, Unlisted
<1>18. ASSUME NEW i \in Reconcilers, NEW t \in Txns, ReconcileStep(i, t)
       PROVE  Inv'
  <2> DEFINE NoNewAnnouncer ==
        \A j \in Reconcilers, u \in Txns, q \in {"announce", "reversalAnnounce"} :
          reconciling'[j][u].pc = q => reconciling[j][u].pc = q
  <2>p. ASSUME NoNewAnnouncer, UNCHANGED <<state, sale, reversal, published>>
        PROVE  Inv'
    <3>2. MalformedHasNoRow' /\ PublishedOutcomeIsStored'
      BY <2>p, <1>i
    <3>3. AnnouncersSawTheRow'
      BY <2>p, <1>i
    <3>4. NotYetPublished'
      BY <2>p, <1>i
    <3>5. OneAnnouncer'
      BY <2>p, <1>i
    <3> QED
      BY <3>2, <3>3, <3>4, <3>5
  <2>1. CASE LoadListed(i, t)
    <3>1. PICK pc \in {"loaded", "reversalLoaded"} : \A j \in Reconcilers, u \in Txns :
            reconciling'[j][u].pc = IF j = i /\ u = t THEN pc ELSE reconciling[j][u].pc
      BY <2>1, <1>t DEF LoadListed
    <3>2. UNCHANGED <<state, sale, reversal, published>>
      BY <2>1 DEF LoadListed
    <3>3. NoNewAnnouncer
      BY <3>1
    <3> QED
      BY <3>2, <3>3, <2>p
  <2>2. CASE TakeOver(i, t)
    <3>1. PICK pc \in {"reverse", "idle"} : \A j \in Reconcilers, u \in Txns :
            reconciling'[j][u].pc = IF j = i /\ u = t THEN pc ELSE reconciling[j][u].pc
      BY <2>2, <1>t, DropPc DEF TakeOver
    <3>2. \A u \in Txns : state'[u] =
            IF u = t /\ state[t] = "PROCESSING" THEN "INDETERMINATE" ELSE state[u]
      BY <2>2, <1>t, SaveIfStateRows DEF TakeOver
    <3>3. UNCHANGED <<sale, reversal, published>>
      BY <2>2 DEF TakeOver
    <3>4. MalformedHasNoRow' /\ PublishedOutcomeIsStored'
      BY <3>2, <3>3, <1>i
    <3>5. AnnouncersSawTheRow'
      BY <3>1, <3>2, <3>3, <1>i
    <3>6. NotYetPublished' /\ OneAnnouncer'
      BY <3>1, <3>3, <1>i
    <3> QED
      BY <3>4, <3>5, <3>6
  <2>3. CASE ReverseUnresolved(i, t)
    <3>1. PICK pc \in {"save", "idle"} : \A j \in Reconcilers, u \in Txns :
            reconciling'[j][u].pc = IF j = i /\ u = t THEN pc ELSE reconciling[j][u].pc
      BY <2>3, <1>t, MoveToPc, DropPc DEF ReverseUnresolved
    <3>2. UNCHANGED <<state, sale, reversal, published>>
      BY <2>3 DEF ReverseUnresolved
    <3>3. NoNewAnnouncer
      BY <3>1
    <3> QED
      BY <3>2, <3>3, <2>p
  <2>4. CASE SaveRejection(i, t)
    <3>1. PICK pc \in {"announce", "idle"} :
            /\ pc = "announce" => state[t] = "INDETERMINATE"
            /\ \A j \in Reconcilers, u \in Txns :
                 reconciling'[j][u].pc = IF j = i /\ u = t THEN pc ELSE reconciling[j][u].pc
      BY <2>4, <1>t, MoveToPc, DropPc DEF SaveRejection
    <3>2. \A u \in Txns : state'[u] =
            IF u = t /\ state[t] = "INDETERMINATE" THEN "REJECTED" ELSE state[u]
      BY <2>4, <1>t, SaveIfStateRows DEF SaveRejection
    <3>3. UNCHANGED <<sale, reversal, published>>
      BY <2>4 DEF SaveRejection
    <3>4. MalformedHasNoRow' /\ PublishedOutcomeIsStored' /\ AnnouncersSawTheRow'
      BY <3>1, <3>2, <3>3, <1>i
    <3>5. NotYetPublished'
      BY <3>1, <3>2, <3>3, <1>i
    <3>6. pc = "announce" =>
            /\ sale[t] # "announceRejected"
            /\ \A j \in Reconcilers : reconciling[j][t].pc # "announce"
      BY <3>1, <1>i
    <3>7. OneAnnouncer'
      <4>1. ASSUME NEW j \in Reconcilers, NEW u \in Txns,
                   reconciling'[j][u].pc = "announce"
            PROVE  /\ sale'[u] # "announceRejected"
                   /\ \A k \in Reconcilers : reconciling'[k][u].pc = "announce" => j = k
        BY <4>1, <3>1, <3>3, <3>6, <1>i
      <4>2. \A j \in Reconcilers, u \in Txns :
              reconciling'[j][u].pc = "reversalAnnounce" =>
                reconciling[j][u].pc = "reversalAnnounce"
        BY <3>1
      <4>3. ASSUME NEW r \in Reversals, reversal'[r] = "announce"
            PROVE  /\ \A q \in Reversals :
                        reversal'[q] = "announce" /\ ReversalOf[q] = ReversalOf[r] => q = r
                   /\ \A j \in Reconcilers :
                        reconciling'[j][ReversalOf[r]].pc # "reversalAnnounce"
        BY <4>2, <4>3, <3>3, <1>i
      <4> QED
        BY <4>1, <4>2, <4>3, <1>i
    <3> QED
      BY <3>4, <3>5, <3>7
  <2>5. CASE PublishRejection(i, t)
    <3>1. \A j \in Reconcilers, u \in Txns :
            reconciling'[j][u].pc = IF j = i /\ u = t THEN "idle" ELSE reconciling[j][u].pc
      BY <2>5, <1>t, DropPc DEF PublishRejection
    <3>2. \A u \in Txns : \A p :
            p \in published'[u] <=> p \in published[u] \/ (u = t /\ p = "rejected")
      BY <2>5, <1>t, PublishedAfter DEF PublishRejection
    <3>3. reconciling[i][t].pc = "announce" /\ UNCHANGED <<state, sale, reversal>>
      BY <2>5 DEF PublishRejection
    <3>4. MalformedHasNoRow' /\ PublishedOutcomeIsStored'
      BY <3>2, <3>3, <1>t, <1>i
    <3>5. AnnouncersSawTheRow'
      BY <3>1, <3>3, <1>i
    <3>6. NotYetPublished'
      BY <3>1, <3>2, <3>3, <1>i
    <3>7. OneAnnouncer'
      BY <3>1, <3>3, <1>i
    <3> QED
      BY <3>4, <3>5, <3>6, <3>7
  <2>6. CASE RetryReversal(i, t)
    <3>1. PICK pc \in {"reversalSave", "idle"} : \A j \in Reconcilers, u \in Txns :
            reconciling'[j][u].pc = IF j = i /\ u = t THEN pc ELSE reconciling[j][u].pc
      BY <2>6, <1>t, MoveToPc, DropPc DEF RetryReversal
    <3>2. UNCHANGED <<state, sale, reversal, published>>
      BY <2>6 DEF RetryReversal
    <3>3. NoNewAnnouncer
      BY <3>1
    <3> QED
      BY <3>2, <3>3, <2>p
  <2>7. CASE SaveRetriedReversal(i, t)
    <3>1. PICK pc \in {"reversalAnnounce", "idle"} :
            /\ pc = "reversalAnnounce" => state[t] = "APPROVED"
            /\ \A j \in Reconcilers, u \in Txns :
                 reconciling'[j][u].pc = IF j = i /\ u = t THEN pc ELSE reconciling[j][u].pc
      BY <2>7, <1>t, MoveToPc, DropPc DEF SaveRetriedReversal
    <3>2. \A u \in Txns : state'[u] =
            IF u = t /\ state[t] = "APPROVED" THEN "REVERSED" ELSE state[u]
      BY <2>7, <1>t, SaveIfStateRows DEF SaveRetriedReversal
    <3>3. UNCHANGED <<sale, reversal, published>>
      BY <2>7 DEF SaveRetriedReversal
    <3>4. MalformedHasNoRow' /\ PublishedOutcomeIsStored' /\ AnnouncersSawTheRow'
      BY <3>1, <3>2, <3>3, <1>i
    <3>5. NotYetPublished'
      BY <3>1, <3>2, <3>3, <1>i
    <3>6. pc = "reversalAnnounce" =>
            /\ \A r \in Reversals : reversal[r] = "announce" => ReversalOf[r] # t
            /\ \A j \in Reconcilers : reconciling[j][t].pc # "reversalAnnounce"
      BY <3>1, <1>i
    <3>7. OneAnnouncer'
      <4>1. ASSUME NEW j \in Reconcilers, NEW u \in Txns,
                   reconciling'[j][u].pc = "announce"
            PROVE  /\ sale'[u] # "announceRejected"
                   /\ \A k \in Reconcilers : reconciling'[k][u].pc = "announce" => j = k
        BY <4>1, <3>1, <3>3, <1>i
      <4>2. ASSUME NEW j \in Reconcilers, NEW u \in Txns, NEW k \in Reconcilers,
                   reconciling'[j][u].pc = "reversalAnnounce",
                   reconciling'[k][u].pc = "reversalAnnounce"
            PROVE  j = k
        BY <4>2, <3>1, <3>6, <1>i
      <4>3. ASSUME NEW r \in Reversals, reversal'[r] = "announce"
            PROVE  /\ \A q \in Reversals :
                        reversal'[q] = "announce" /\ ReversalOf[q] = ReversalOf[r] => q = r
                   /\ \A j \in Reconcilers :
                        reconciling'[j][ReversalOf[r]].pc # "reversalAnnounce"
        <5>1. ReversalOf[r] \in Txns
          OBVIOUS
        <5> QED
          BY <5>1, <4>3, <3>1, <3>3, <3>6, <1>i
      <4> QED
        BY <4>1, <4>2, <4>3
    <3> QED
      BY <3>4, <3>5, <3>7
  <2>8. CASE PublishRetriedReversal(i, t)
    <3>1. \A j \in Reconcilers, u \in Txns :
            reconciling'[j][u].pc = IF j = i /\ u = t THEN "idle" ELSE reconciling[j][u].pc
      BY <2>8, <1>t, DropPc DEF PublishRetriedReversal
    <3>2. \A u \in Txns : \A p :
            p \in published'[u] <=> p \in published[u] \/ (u = t /\ p = "reversed")
      BY <2>8, <1>t, PublishedAfter DEF PublishRetriedReversal
    <3>3. reconciling[i][t].pc = "reversalAnnounce" /\ UNCHANGED <<state, sale, reversal>>
      BY <2>8 DEF PublishRetriedReversal
    <3>4. MalformedHasNoRow' /\ PublishedOutcomeIsStored'
      BY <3>2, <3>3, <1>t, <1>i
    <3>5. AnnouncersSawTheRow'
      BY <3>1, <3>3, <1>i
    <3>6. NotYetPublished'
      BY <3>1, <3>2, <3>3, <1>i
    <3>7. \A j \in Reconcilers, u \in Txns, q \in {"announce", "reversalAnnounce"} :
            reconciling'[j][u].pc = q => reconciling[j][u].pc = q
      BY <3>1
    <3>8. OneAnnouncer'
      BY <3>3, <3>7, <1>i
    <3> QED
      BY <3>4, <3>5, <3>6, <3>8
  <2> QED
    BY <1>18, <2>1, <2>2, <2>3, <2>4, <2>5, <2>6, <2>7, <2>8 DEF ReconcileStep
<1>19. ASSUME NEW i \in Reconcilers, NEW t \in Txns, SkipSale(i, t) PROVE Inv'
  BY <1>19, <1>t, <1>i DEF SkipSale, Drop, Unlisted
<1>20. CASE UNCHANGED vars
  BY <1>20, <1>i DEF vars
<1> QED
  BY <1>1, <1>2, <1>3, <1>4, <1>5, <1>6, <1>7, <1>8, <1>9, <1>10, <1>11,
     <1>12, <1>13, <1>14, <1>15, <1>16, <1>17, <1>18, <1>19, <1>20
  DEF Next

(* The invariant holds from the start. *)
LEMMA OutcomeInvInit == Init => OutcomeInv
<1> SUFFICES ASSUME Init PROVE OutcomeInv
  OBVIOUS
<1>1. TypeOK
  BY InitTypeOK
<1>2. MalformedHasNoRow /\ PublishedOutcomeIsStored
  BY AuthorizationAssumption DEF Init, MalformedHasNoRow, PublishedOutcomeIsStored
<1>3. AnnouncersSawTheRow /\ NotYetPublished /\ OneAnnouncer
  BY AuthorizationAssumption
  DEF Init, Unlisted, AnnouncersSawTheRow, NotYetPublished, OneAnnouncer
<1> QED
  BY <1>1, <1>2, <1>3 DEF OutcomeInv

(* It is an invariant. *)
LEMMA OutcomeInvariant == ASSUME Unmixed PROVE Spec => []OutcomeInv
<1>1. Init => OutcomeInv
  BY OutcomeInvInit
<1>2. OutcomeInv /\ TypeOK' /\ [Next]_vars => OutcomeInv'
  BY Unmixed, OutcomeStep
<1> QED
  BY <1>1, <1>2, TypeCorrect, PTL DEF Spec

------------------------------------------------------------------------------
(* What the bus carried of a sale is what the database holds, whoever of   *)
(* its worker, its reversal requests and the reconcilers wins each race:   *)
(* an APPROVED sale is never announced as rejected, nor the reverse.       *)
THEOREM PublishedIsStored == ASSUME Unmixed PROVE Spec => []PublishedOutcomeIsStored
<1>1. OutcomeInv => PublishedOutcomeIsStored
  BY DEF OutcomeInv
<1> QED
  BY <1>1, OutcomeInvariant, Unmixed, PTL

(* Each outcome of a sale is announced by one goroutine, once. *)
THEOREM NobodyAnnouncesTwice == ASSUME Unmixed PROVE Spec => []AnnouncedOnce
<1>1. OutcomeInv => AnnouncedOnce
  <2> SUFFICES ASSUME OutcomeInv,
                      NEW t \in Txns, NEW o \in {"approved", "rejected", "reversed"}
               PROVE  /\ \A a, b \in Announcers(t, o) : a = b
                      /\ o \in published[t] => Announcers(t, o) = {}
    BY DEF AnnouncedOnce
  <2> USE DEF OutcomeInv, Announcers, NotYetPublished, OneAnnouncer
  <2>1. CASE o = "approved"
    BY <2>1
  <2>2. CASE o = "rejected"
    BY <2>2
  <2>3. CASE o = "reversed"
    BY <2>3
  <2> QED
    BY <2>1, <2>2, <2>3
<1> QED
  BY <1>1, OutcomeInvariant, Unmixed, PTL

------------------------------------------------------------------------------
(* Authorization implements SaleOutcome.                                   *)

(* Outcome o of sale t is published, and the row justifies it. No step     *)
(* that publishes an outcome also moves a row.                             *)
Announcement(t, o) ==
  /\ published' = [published EXCEPT ![t] = @ \cup {o}]
  /\ UNCHANGED state
  /\ \/ o = "approved" /\ state[t] \in {"APPROVED", "REVERSED"}
     \/ o = "rejected" /\ state[t] \in {"NONE", "REJECTED"}
     \/ o = "reversed" /\ state[t] = "REVERSED"

(* Every step publishes at most one outcome, the one of the row.           *)
LEMMA AnnouncementSteps ==
  ASSUME OutcomeInv, [Next]_vars
  PROVE  UNCHANGED published \/ \E t \in Txns : \E o : Announcement(t, o)
<1> USE AuthorizationAssumption
<1> USE DEF db, goroutines, bus, acquirer
<1> DEFINE Announced == UNCHANGED published \/ \E t \in Txns : \E o : Announcement(t, o)
<1>i. MalformedHasNoRow /\ AnnouncersSawTheRow
  BY DEF OutcomeInv
<1>1. ASSUME NEW e \in Malformed, PublishInvalidRejected(e) PROVE Announced
  BY <1>1, <1>i DEF PublishInvalidRejected, Announcement, MalformedHasNoRow
<1>2. ASSUME NEW t \in Txns, PublishOutcome(t) PROVE Announced
  BY <1>2, <1>i DEF PublishOutcome, Announcement, AnnouncersSawTheRow
<1>3. ASSUME NEW r \in Reversals, PublishReversalCompleted(r) PROVE Announced
  BY <1>3, <1>i DEF PublishReversalCompleted, Announcement, AnnouncersSawTheRow
<1>4. ASSUME NEW i \in Reconcilers, NEW t \in Txns,
             PublishRejection(i, t) \/ PublishRetriedReversal(i, t)
      PROVE  Announced
  <2>1. CASE PublishRejection(i, t)
    BY <2>1, <1>i DEF PublishRejection, Announcement, AnnouncersSawTheRow
  <2>2. CASE PublishRetriedReversal(i, t)
    BY <2>2, <1>i DEF PublishRetriedReversal, Announcement, AnnouncersSawTheRow
  <2> QED
    BY <1>4, <2>1, <2>2
<1>5. ASSUME NEW e \in Received, ReceiveTransaction(e) \/ RejectBlockedCard(e)
      PROVE  UNCHANGED published
  BY <1>5 DEF ReceiveTransaction, RejectBlockedCard
<1>6. ASSUME NEW e \in Malformed, RejectInvalid(e) \/ AbandonInvalid(e)
      PROVE  UNCHANGED published
  BY <1>6 DEF RejectInvalid, AbandonInvalid
<1>7. CASE PurgeInvalidRejections
  BY <1>7 DEF PurgeInvalidRejections
<1>8. ASSUME NEW s \in Scores, FraudAnswers(s) \/ ApplyFraudScore(s)
      PROVE  UNCHANGED published
  BY <1>8 DEF FraudAnswers, ApplyFraudScore
<1>9. ASSUME NEW t \in Txns, SaleStep(t) \/ HostDecides(t) \/ AbandonSale(t)
      PROVE  Announced
  BY <1>9, <1>2 DEF SaleStep, PublishFraudCheckRequested, SendAuthorization,
     AuthorizationNotSent, ReceiveApproval, ReceiveRejection, CallFails,
     SaveResult, HostDecides, AbandonSale
<1>10. ASSUME NEW r \in Reversals,
              ProcessReversal(r) \/ ReversalStep(r) \/ AbandonReversal(r)
       PROVE  Announced
  BY <1>10, <1>3 DEF ProcessReversal, ReversalStep, ReverseAtHost, SaveReversed,
     AbandonReversal
<1>11. ASSUME NEW i \in Reconcilers,
              FindUnresolved(i) \/ FindPendingReversals(i) \/ ReconcilerStops(i)
       PROVE  UNCHANGED published
  BY <1>11 DEF FindUnresolved, FindPendingReversals, ReconcilerStops
<1>12. ASSUME NEW i \in Reconcilers, NEW t \in Txns,
              ReconcileStep(i, t) \/ SkipSale(i, t)
       PROVE  Announced
  BY <1>12, <1>4 DEF ReconcileStep, LoadListed, TakeOver, ReverseUnresolved,
     SaveRejection, RetryReversal, SaveRetriedReversal, SkipSale
<1>13. CASE UNCHANGED vars
  BY <1>13 DEF vars
<1> QED
  BY <1>1, <1>5, <1>6, <1>7, <1>8, <1>9, <1>10, <1>11, <1>12, <1>13 DEF Next

(* A row that moves is a sale that is accepted, decided or reversed, or a  *)
(* stutter: the abstract sale does not tell the states before its outcome. *)
LEMMA RowMoveIsAbstract ==
  ASSUME Unmixed, OutcomeInv, NEW t \in Txns, NEW new, RowMove(t, new)
  PROVE  [SaleOutcome!OutcomeNext]_(SaleOutcome!outcomeVars)
<1>1. /\ state \in [Txns -> States]
      /\ state' = [state EXCEPT ![t] = new]
      /\ UNCHANGED published
  BY DEF OutcomeInv, TypeOK, RowMove
<1>2. outcomeBar' = [outcomeBar EXCEPT ![t] = OutcomeOf(new)]
  BY <1>1 DEF outcomeBar
<1>3. outcomeBar[t] = OutcomeOf(state[t])
  BY DEF outcomeBar
<1>4. CASE state[t] = "NONE"
  <2>1. new \in {"FRAUD_CHECKING", "REJECTED"} /\ \E e \in Received \ Malformed : TxOf[e] = t
    BY <1>4 DEF RowMove
  <2>2. published[t] = {}
    <3>1. "approved" \notin published[t] /\ "reversed" \notin published[t]
      BY <1>4 DEF OutcomeInv, PublishedOutcomeIsStored
    <3>2. "rejected" \notin published[t]
      BY <1>4, <2>1 DEF OutcomeInv, PublishedOutcomeIsStored, Unmixed
    <3>3. published[t] \subseteq {"approved", "rejected", "reversed"}
      BY DEF OutcomeInv, TypeOK
    <3> QED
      BY <3>1, <3>2, <3>3
  <2>3. outcomeBar[t] = "none" /\ OutcomeOf(new) \in {"open", "rejected"}
    BY <1>3, <1>4, <2>1 DEF OutcomeOf
  <2>4. SaleOutcome!Accept(t)
    BY <1>1, <1>2, <2>2, <2>3 DEF SaleOutcome!Accept
  <2> QED
    BY <2>4 DEF SaleOutcome!OutcomeNext
<1>5. CASE state[t] \in {"FRAUD_CHECKING", "PROCESSING", "INDETERMINATE"}
  <2>1. outcomeBar[t] = "open"
    BY <1>3, <1>5 DEF OutcomeOf
  <2>2. new \in {"PROCESSING", "INDETERMINATE", "APPROVED", "REJECTED"}
    BY <1>5 DEF RowMove
  <2>3. CASE new \in {"APPROVED", "REJECTED"}
    <3>1. OutcomeOf(new) \in {"approved", "rejected"}
      BY <2>3 DEF OutcomeOf
    <3>2. SaleOutcome!Decide(t)
      BY <1>1, <1>2, <2>1, <3>1 DEF SaleOutcome!Decide
    <3> QED
      BY <3>2 DEF SaleOutcome!OutcomeNext
  <2>4. CASE new \in {"PROCESSING", "INDETERMINATE"}
    <3>1. OutcomeOf(new) = outcomeBar[t]
      BY <2>1, <2>4 DEF OutcomeOf
    <3>2. outcomeBar' = outcomeBar
      BY <1>2, <3>1 DEF outcomeBar
    <3> QED
      BY <1>1, <3>2 DEF SaleOutcome!outcomeVars
  <2> QED
    BY <2>2, <2>3, <2>4
<1>6. CASE state[t] = "APPROVED"
  <2>1. outcomeBar[t] = "approved" /\ OutcomeOf(new) = "reversed"
    BY <1>3, <1>6 DEF OutcomeOf, RowMove
  <2>2. SaleOutcome!Reverse(t)
    BY <1>1, <1>2, <2>1 DEF SaleOutcome!Reverse
  <2> QED
    BY <2>2 DEF SaleOutcome!OutcomeNext
<1> QED
  BY <1>4, <1>5, <1>6 DEF RowMove

(* An announcement is an abstract announcement.                            *)
LEMMA AnnouncementIsAbstract ==
  ASSUME NEW t \in Txns, NEW o, Announcement(t, o)
  PROVE  [SaleOutcome!OutcomeNext]_(SaleOutcome!outcomeVars)
<1>1. outcomeBar' = outcomeBar
  BY DEF Announcement, outcomeBar
<1>2. outcomeBar[t] = OutcomeOf(state[t])
  BY DEF outcomeBar
<1>3. o \in SaleOutcome!MayAnnounce(t)
  BY <1>2 DEF Announcement, SaleOutcome!MayAnnounce, OutcomeOf
<1>4. SaleOutcome!Announce(t)
  BY <1>1, <1>3 DEF SaleOutcome!Announce, Announcement
<1> QED
  BY <1>4 DEF SaleOutcome!OutcomeNext

(* The saga with all its goroutines, crashes and late answers is an        *)
(* implementation of the life of a sale that the other contexts rely on:   *)
(* one outcome, announced only after it was decided.                       *)
THEOREM Refinement == ASSUME Unmixed PROVE Spec => ImplementsSaleOutcome
<1>1. Init => SaleOutcome!OutcomeInit
  BY DEF Init, SaleOutcome!OutcomeInit, outcomeBar, OutcomeOf
<1>2. ASSUME OutcomeInv, [Next]_vars
      PROVE  [SaleOutcome!OutcomeNext]_(SaleOutcome!outcomeVars)
  <2>1. TypeOK
    BY <1>2 DEF OutcomeInv
  <2>2. CASE \E t \in Txns : \E new : RowMove(t, new)
    BY <1>2, <2>2, Unmixed, RowMoveIsAbstract
  <2>3. CASE \E t \in Txns : \E o : Announcement(t, o)
    BY <2>3, AnnouncementIsAbstract
  <2>4. CASE UNCHANGED <<state, published>>
    BY <2>4 DEF SaleOutcome!outcomeVars, outcomeBar
  <2> QED
    BY <1>2, <2>1, <2>2, <2>3, <2>4, RowSteps, AnnouncementSteps
<1> QED
  BY <1>1, <1>2, OutcomeInvariant, Unmixed, PTL
  DEF Spec, ImplementsSaleOutcome, SaleOutcome!OutcomeSpec
=============================================================================
