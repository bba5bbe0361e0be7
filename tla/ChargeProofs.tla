----------------------------- MODULE ChargeProofs -----------------------------
(***************************************************************************)
(* What the issuer holds against what the system tells the customer, for   *)
(* any number of sales, reversal requests and reconcilers, as long as no   *)
(* worker outlives ACQUIRER_STUCK_AFTER; and what the acquirer is asked.   *)
(***************************************************************************)
EXTENDS AuthorizationProofs

------------------------------------------------------------------------------
(* The inductive invariant.                                                *)

(* Where a worker is between the fraud score and the save of its result. *)
Carrying == {"queued", "waiting", "approved", "rejected", "unknown"}

(* Nothing was sent for a sale whose fraud check is not over. *)
NothingSentYet ==
  \A t \in Txns : state[t] \in {"NONE", "FRAUD_CHECKING"} =>
    answer[t] = "none" /\ charge[t] = "none"

(* A sale that a worker carries is still PROCESSING: nobody took it. *)
WorkerHoldsTheSale ==
  \A t \in Txns : sale[t] \in Carrying => state[t] = "PROCESSING"

(* What a worker knows of the answer of the host, and that the charge it   *)
(* is about to save as approved is there.                                  *)
WorkerKnowsTheAnswer ==
  \A t \in Txns :
    /\ sale[t] = "queued" => answer[t] = "none"
    /\ sale[t] = "approved" => answer[t] = "approved"
    /\ sale[t] = "rejected" => answer[t] \in {"none", "declined", "captured"}
    /\ sale[t] \in Carrying /\ answer[t] = "approved" => charge[t] = "approved"

(* The issuer only holds what the host approved. *)
ChargedByTheHost ==
  \A t \in Txns : charge[t] # "none" => answer[t] = "approved"

(* An APPROVED sale was approved by the host, and is charged unless its    *)
(* reversal was requested.                                                 *)
ApprovedByTheHost ==
  \A t \in Txns : state[t] = "APPROVED" =>
    /\ answer[t] = "approved"
    /\ charge[t] = "approved" \/ (charge[t] = "reversed" /\ t \in reversalRequested)

(* The issuer holds the charge of sale t, or still can. *)
Chargeable(t) == charge[t] = "approved" \/ answer[t] = "sent"

(* Nothing is charged, nor can be, once the sale is over, unless it was    *)
(* rejected after a reversal that overtook its request.                    *)
OverIsNotCharged ==
  \A t \in Txns :
    /\ state[t] = "REJECTED" /\ Chargeable(t) => t \in overtaken
    /\ state[t] = "REVERSED" => answer[t] = "approved" /\ charge[t] # "approved"

(* A sale in the run of a reconciler has no worker. *)
RunHasNoWorker ==
  \A i \in Reconcilers, t \in Txns :
    reconciling[i][t].pc \in {"listed", "loaded", "reverse", "save"} =>
      /\ sale[t] \notin Carrying
      /\ state[t] \in {"PROCESSING", "INDETERMINATE", "REJECTED"}

(* Reversals are only carried out for sales that were approved and whose   *)
(* request is stored.                                                      *)
ReversalWasRequested ==
  /\ \A r \in Reversals : reversal[r] # "idle" =>
       /\ state[ReversalOf[r]] \in {"APPROVED", "REVERSED"}
       /\ ReversalOf[r] \in reversalRequested
  /\ \A i \in Reconcilers, t \in Txns :
       reconciling[i][t].pc \in {"reversalListed", "reversalLoaded", "reversalSave"} =>
         state[t] \in {"APPROVED", "REVERSED"} /\ t \in reversalRequested

(* Whoever is about to save that a sale was reversed, or rejected once     *)
(* reversed, reversed it; only a request can have been overtaken.          *)
ReversedBeforeSave ==
  /\ \A r \in Reversals : reversal[r] = "save" => charge[ReversalOf[r]] # "approved"
  /\ \A i \in Reconcilers, t \in Txns :
       /\ reconciling[i][t].pc = "reversalSave" => charge[t] # "approved"
       /\ reconciling[i][t].pc = "save" /\ Chargeable(t) => t \in overtaken

ChargeParts ==
  /\ NothingSentYet
  /\ WorkerHoldsTheSale
  /\ WorkerKnowsTheAnswer
  /\ ChargedByTheHost
  /\ ApprovedByTheHost
  /\ OverIsNotCharged
  /\ RunHasNoWorker
  /\ ReversalWasRequested
  /\ ReversedBeforeSave

ChargeInv == TypeOK /\ ChargeParts

------------------------------------------------------------------------------
(* Every step preserves the invariant, provided that the reconciler only   *)
(* finds a sale stuck when its worker is gone.                             *)
LEMMA ChargeStep ==
  ASSUME OutlivesStuckAfter = {}, ChargeInv, [Next]_vars
  PROVE  ChargeParts'
<1> USE AuthorizationAssumption
<1> USE DEF db, goroutines, bus, acquirer
<1>t. /\ state \in [Txns -> States]
      /\ sale \in [Txns -> SalePC]
      /\ reversal \in [Reversals -> ReversalPC]
      /\ reconciling \in [Reconcilers -> [Txns -> Copies]]
      /\ answer \in [Txns -> Answers]
      /\ charge \in [Txns -> {"none", "approved", "reversed"}]
  BY DEF ChargeInv, TypeOK
<1>i. ChargeParts
  BY DEF ChargeInv
<1> USE DEF Carrying, ChargeParts, NothingSentYet, WorkerHoldsTheSale,
      WorkerKnowsTheAnswer, ChargedByTheHost, ApprovedByTheHost, OverIsNotCharged,
      Chargeable, RunHasNoWorker, ReversalWasRequested, ReversedBeforeSave
<1>1. ASSUME NEW e \in Received, ReceiveTransaction(e) PROVE ChargeParts'
  <2>1. UNCHANGED <<reversal, reversalRequested, reconciling, answer, charge, overtaken>>
    BY <1>1 DEF ReceiveTransaction
  <2>2. CASE UNCHANGED <<state, sale>>
    BY <2>1, <2>2, <1>i
  <2>3. ASSUME NEW t \in Txns, state[t] = "NONE",
               \A u \in Txns : /\ state'[u] = IF u = t THEN "FRAUD_CHECKING" ELSE state[u]
                               /\ sale'[u] = IF u = t THEN "requestFraud" ELSE sale[u]
        PROVE  ChargeParts'
    BY <2>1, <2>3, <1>i
  <2> QED
    BY <1>1, <1>t, <2>2, <2>3 DEF ReceiveTransaction, InsertTx
<1>2. ASSUME NEW e \in Received, RejectBlockedCard(e) PROVE ChargeParts'
  <2>1. UNCHANGED <<reversal, reversalRequested, reconciling, answer, charge, overtaken>>
    BY <1>2 DEF RejectBlockedCard
  <2>2. CASE UNCHANGED <<state, sale>>
    BY <2>1, <2>2, <1>i
  <2>3. ASSUME NEW t \in Txns, state[t] = "NONE",
               \A u \in Txns : /\ state'[u] = IF u = t THEN "REJECTED" ELSE state[u]
                               /\ sale'[u] = IF u = t THEN "announceRejected" ELSE sale[u]
        PROVE  ChargeParts'
    BY <2>1, <2>3, <1>i
  <2> QED
    BY <1>2, <1>t, <2>2, <2>3 DEF RejectBlockedCard, InsertTx
<1>3. ASSUME NEW e \in Malformed, RejectInvalid(e) PROVE ChargeParts'
  BY <1>3, <1>i DEF RejectInvalid
<1>4. ASSUME NEW e \in Malformed, PublishInvalidRejected(e) PROVE ChargeParts'
  BY <1>4, <1>i DEF PublishInvalidRejected
<1>5. ASSUME NEW e \in Malformed, AbandonInvalid(e) PROVE ChargeParts'
  BY <1>5, <1>i DEF AbandonInvalid
<1>6. CASE PurgeInvalidRejections
  BY <1>6, <1>i DEF PurgeInvalidRejections
<1>7. ASSUME NEW s \in Scores, FraudAnswers(s) PROVE ChargeParts'
  BY <1>7, <1>i DEF FraudAnswers
<1>8. ASSUME NEW s \in Scores, ApplyFraudScore(s) PROVE ChargeParts'
  <2> DEFINE t == ScoreOf[s]
  <2>1. UNCHANGED <<reversal, reversalRequested, reconciling, answer, charge, overtaken>>
    BY <1>8 DEF ApplyFraudScore
  <2>2. CASE UNCHANGED <<state, sale>>
    BY <2>1, <2>2, <1>i
  <2>3. ASSUME NEW new, NEW pc, t \in Txns, state[t] = "FRAUD_CHECKING",
               \/ new = "REJECTED" /\ pc = "announceRejected"
               \/ new = "PROCESSING" /\ pc = "queued",
               \A u \in Txns : /\ state'[u] = IF u = t THEN new ELSE state[u]
                               /\ sale'[u] = IF u = t THEN pc ELSE sale[u]
        PROVE  ChargeParts'
    <3> HIDE DEF t
    <3>1. NothingSentYet' /\ WorkerHoldsTheSale' /\ WorkerKnowsTheAnswer'
      BY <2>1, <2>3, <1>i
    <3>2. ChargedByTheHost' /\ ApprovedByTheHost' /\ OverIsNotCharged'
      BY <2>1, <2>3, <1>i
    <3>3. RunHasNoWorker' /\ ReversalWasRequested' /\ ReversedBeforeSave'
      BY <2>1, <2>3, <1>i
    <3> QED
      BY <3>1, <3>2, <3>3
  <2>4. CASE verdict[s] = "REJECT" /\ state[t] = "FRAUD_CHECKING"
    <3>1. t \in Txns
      OBVIOUS
    <3>2. /\ SaveIfState(t, "FRAUD_CHECKING", "REJECTED")
          /\ sale' = [sale EXCEPT ![t] = "announceRejected"]
      BY <1>8, <2>4 DEF ApplyFraudScore
    <3> HIDE DEF t
    <3>3. \A u \in Txns : /\ state'[u] = IF u = t THEN "REJECTED" ELSE state[u]
                          /\ sale'[u] = IF u = t THEN "announceRejected" ELSE sale[u]
      BY <1>t, <2>4, <3>1, <3>2, SaveIfStateRows
    <3> QED
      BY <2>3, <2>4, <3>1, <3>3
  <2>5. CASE verdict[s] = "APPROVE" /\ state[t] = "FRAUD_CHECKING"
    <3>1. t \in Txns
      OBVIOUS
    <3>2. /\ SaveIfState(t, "FRAUD_CHECKING", "PROCESSING")
          /\ sale' = [sale EXCEPT ![t] = "queued"]
      BY <1>8, <2>5 DEF ApplyFraudScore
    <3> HIDE DEF t
    <3>3. \A u \in Txns : /\ state'[u] = IF u = t THEN "PROCESSING" ELSE state[u]
                          /\ sale'[u] = IF u = t THEN "queued" ELSE sale[u]
      BY <1>t, <2>5, <3>1, <3>2, SaveIfStateRows
    <3> QED
      BY <2>3, <2>5, <3>1, <3>3
  <2> QED
    BY <1>8, <2>2, <2>4, <2>5 DEF ApplyFraudScore
<1>9. ASSUME NEW t \in Txns, SaleStep(t) PROVE ChargeParts'
  <2>1. CASE PublishFraudCheckRequested(t)
    BY <2>1, <1>t, <1>i DEF PublishFraudCheckRequested
  <2>2. CASE SendAuthorization(t)
    BY <2>2, <1>t, <1>i DEF SendAuthorization
  <2>3. CASE AuthorizationNotSent(t)
    BY <2>3, <1>t, <1>i DEF AuthorizationNotSent
  <2>4. CASE ReceiveApproval(t)
    BY <2>4, <1>t, <1>i DEF ReceiveApproval
  <2>5. CASE ReceiveRejection(t)
    BY <2>5, <1>t, <1>i DEF ReceiveRejection
  <2>6. CASE CallFails(t)
    BY <2>6, <1>t, <1>i DEF CallFails
  <2>7. CASE SaveResult(t)
    <3>1. UNCHANGED <<reversal, reversalRequested, reconciling, answer, charge, overtaken>>
      BY <2>7 DEF SaveResult
    <3>2. sale[t] \in {"approved", "rejected", "unknown"} /\ state[t] = "PROCESSING"
      BY <2>7, <1>i DEF SaveResult
    <3>3. \A u \in Txns :
            /\ state'[u] = IF u # t THEN state[u]
                           ELSE IF sale[t] = "approved" THEN "APPROVED"
                           ELSE IF sale[t] = "rejected" THEN "REJECTED" ELSE "INDETERMINATE"
            /\ u # t => sale'[u] = sale[u]
      BY <2>7, <1>t, <3>2 DEF SaveResult, SaveIfState
    <3>4. sale'[t] \notin Carrying
      BY <2>7, <1>t DEF SaveResult
    <3>5. NothingSentYet' /\ WorkerHoldsTheSale' /\ WorkerKnowsTheAnswer'
      BY <3>1, <3>2, <3>3, <3>4, <1>i
    <3>6. ChargedByTheHost' /\ ApprovedByTheHost' /\ OverIsNotCharged'
      BY <3>1, <3>2, <3>3, <1>i
    <3>7. RunHasNoWorker' /\ ReversalWasRequested' /\ ReversedBeforeSave'
      BY <3>1, <3>2, <3>3, <3>4, <1>i
    <3> QED
      BY <3>5, <3>6, <3>7
  <2>8. CASE PublishOutcome(t)
    BY <2>8, <1>t, <1>i DEF PublishOutcome
  <2> QED
    BY <1>9, <2>1, <2>2, <2>3, <2>4, <2>5, <2>6, <2>7, <2>8 DEF SaleStep
<1>10. ASSUME NEW t \in Txns, HostDecides(t) PROVE ChargeParts'
  BY <1>10, <1>t, <1>i DEF HostDecides
<1>11. ASSUME NEW t \in Txns, AbandonSale(t) PROVE ChargeParts'
  BY <1>11, <1>t, <1>i DEF AbandonSale
<1>12. ASSUME NEW r \in Reversals, ProcessReversal(r) PROVE ChargeParts'
  BY <1>12, <1>t, <1>i DEF ProcessReversal
<1>13. ASSUME NEW r \in Reversals, ReversalStep(r) PROVE ChargeParts'
  <2>1. CASE ReverseAtHost(r)
    BY <2>1, <1>t, <1>i, HostReversesCharges DEF ReverseAtHost
  <2>2. CASE SaveReversed(r)
    BY <2>2, <1>t, <1>i DEF SaveReversed, SaveIfState
  <2>3. CASE PublishReversalCompleted(r)
    BY <2>3, <1>t, <1>i DEF PublishReversalCompleted
  <2> QED
    BY <1>13, <2>1, <2>2, <2>3 DEF ReversalStep
<1>14. ASSUME NEW r \in Reversals, AbandonReversal(r) PROVE ChargeParts'
  BY <1>14, <1>t, <1>i DEF AbandonReversal
<1>15. ASSUME NEW i \in Reconcilers, FindUnresolved(i) PROVE ChargeParts'
  BY <1>15, <1>t, <1>i DEF FindUnresolved, Stuck, StartRun, Unlisted
<1>16. ASSUME NEW i \in Reconcilers, FindPendingReversals(i) PROVE ChargeParts'
  BY <1>16, <1>t, <1>i DEF FindPendingReversals, StartRun, Unlisted
<1>17. ASSUME NEW i \in Reconcilers, ReconcilerStops(i) PROVE ChargeParts'
  BY <1>17, <1>t, <1>i DEF ReconcilerStops, Unlisted
<1>18. ASSUME NEW i \in Reconcilers, NEW t \in Txns, ReconcileStep(i, t)
       PROVE  ChargeParts'
  <2>1. CASE LoadListed(i, t)
    <3>1. PICK pc \in {"loaded", "reversalLoaded"} :
            /\ reconciling[i][t].pc = IF pc = "loaded" THEN "listed" ELSE "reversalListed"
            /\ \A j \in Reconcilers, u \in Txns :
                 reconciling'[j][u].pc = IF j = i /\ u = t THEN pc ELSE reconciling[j][u].pc
      BY <2>1, <1>t DEF LoadListed
    <3>2. UNCHANGED <<state, sale, reversal, reversalRequested, answer, charge, overtaken>>
      BY <2>1 DEF LoadListed
    <3>7. NothingSentYet' /\ WorkerHoldsTheSale' /\ WorkerKnowsTheAnswer'
      BY <3>1, <3>2, <1>i
    <3>8. ChargedByTheHost' /\ ApprovedByTheHost' /\ OverIsNotCharged'
      BY <3>1, <3>2, <1>i
    <3>9. RunHasNoWorker'
      BY <3>1, <3>2, <1>i
    <3>10. ReversalWasRequested'
      BY <3>1, <3>2, <1>i
    <3>11. ReversedBeforeSave'
      BY <3>1, <3>2, <1>i
    <3> QED
      BY <3>7, <3>8, <3>9, <3>10, <3>11
  <2>2. CASE TakeOver(i, t)
    <3>1. PICK pc \in {"reverse", "idle"} : \A j \in Reconcilers, u \in Txns :
            reconciling'[j][u].pc = IF j = i /\ u = t THEN pc ELSE reconciling[j][u].pc
      BY <2>2, <1>t, DropPc DEF TakeOver
    <3>2. \A u \in Txns : state'[u] =
            IF u = t /\ state[t] = "PROCESSING" THEN "INDETERMINATE" ELSE state[u]
      BY <2>2, <1>t, SaveIfStateRows DEF TakeOver
    <3>3. /\ reconciling[i][t].pc = "loaded"
          /\ UNCHANGED <<sale, reversal, reversalRequested, answer, charge, overtaken>>
      BY <2>2 DEF TakeOver
    <3>7. NothingSentYet' /\ WorkerHoldsTheSale' /\ WorkerKnowsTheAnswer'
      BY <3>1, <3>2, <3>3, <1>i
    <3>8. ChargedByTheHost' /\ ApprovedByTheHost' /\ OverIsNotCharged'
      BY <3>1, <3>2, <3>3, <1>i
    <3>9. RunHasNoWorker'
      BY <3>1, <3>2, <3>3, <1>i
    <3>10. ReversalWasRequested'
      BY <3>1, <3>2, <3>3, <1>i
    <3>11. ReversedBeforeSave'
      BY <3>1, <3>2, <3>3, <1>i
    <3> QED
      BY <3>7, <3>8, <3>9, <3>10, <3>11
  <2>3. CASE ReverseUnresolved(i, t)
    <3>1. PICK pc \in {"save", "idle"} : \A j \in Reconcilers, u \in Txns :
            reconciling'[j][u].pc = IF j = i /\ u = t THEN pc ELSE reconciling[j][u].pc
      BY <2>3, <1>t, MoveToPc, DropPc DEF ReverseUnresolved
    <3>2. /\ overtaken' = IF answer[t] = "sent" THEN overtaken \cup {t} ELSE overtaken
          /\ \A u \in Txns :
               charge'[u] = IF u = t /\ charge[t] = "approved" THEN "reversed" ELSE charge[u]
      BY <2>3, <1>t, HostReversesCharges DEF ReverseUnresolved
    <3>3. /\ reconciling[i][t].pc \in {"loaded", "reverse"}
          /\ UNCHANGED <<state, sale, reversal, reversalRequested, answer>>
      BY <2>3 DEF ReverseUnresolved
    <3>7. NothingSentYet' /\ WorkerHoldsTheSale' /\ WorkerKnowsTheAnswer'
      BY <3>1, <3>2, <3>3, <1>i
    <3>8. ChargedByTheHost' /\ ApprovedByTheHost' /\ OverIsNotCharged'
      BY <3>1, <3>2, <3>3, <1>i
    <3>9. RunHasNoWorker'
      BY <3>1, <3>2, <3>3, <1>i
    <3>10. ReversalWasRequested'
      BY <3>1, <3>2, <3>3, <1>i
    <3>11. ReversedBeforeSave'
      BY <3>1, <3>2, <3>3, <1>i
    <3> QED
      BY <3>7, <3>8, <3>9, <3>10, <3>11
  <2>4. CASE SaveRejection(i, t)
    <3>1. PICK pc \in {"announce", "idle"} : \A j \in Reconcilers, u \in Txns :
            reconciling'[j][u].pc = IF j = i /\ u = t THEN pc ELSE reconciling[j][u].pc
      BY <2>4, <1>t, MoveToPc, DropPc DEF SaveRejection
    <3>2. \A u \in Txns : state'[u] =
            IF u = t /\ state[t] = "INDETERMINATE" THEN "REJECTED" ELSE state[u]
      BY <2>4, <1>t, SaveIfStateRows DEF SaveRejection
    <3>3. /\ reconciling[i][t].pc = "save"
          /\ UNCHANGED <<sale, reversal, reversalRequested, answer, charge, overtaken>>
      BY <2>4 DEF SaveRejection
    <3>7. NothingSentYet' /\ WorkerHoldsTheSale' /\ WorkerKnowsTheAnswer'
      BY <3>1, <3>2, <3>3, <1>i
    <3>8. ChargedByTheHost' /\ ApprovedByTheHost' /\ OverIsNotCharged'
      BY <3>1, <3>2, <3>3, <1>i
    <3>9. RunHasNoWorker'
      BY <3>1, <3>2, <3>3, <1>i
    <3>10. ReversalWasRequested'
      BY <3>1, <3>2, <3>3, <1>i
    <3>11. ReversedBeforeSave'
      BY <3>1, <3>2, <3>3, <1>i
    <3> QED
      BY <3>7, <3>8, <3>9, <3>10, <3>11
  <2>5. CASE PublishRejection(i, t)
    <3>1. \A j \in Reconcilers, u \in Txns :
            reconciling'[j][u].pc = IF j = i /\ u = t THEN "idle" ELSE reconciling[j][u].pc
      BY <2>5, <1>t, DropPc DEF PublishRejection
    <3>2. UNCHANGED <<state, sale, reversal, reversalRequested, answer, charge, overtaken>>
      BY <2>5 DEF PublishRejection
    <3>7. NothingSentYet' /\ WorkerHoldsTheSale' /\ WorkerKnowsTheAnswer'
      BY <3>1, <3>2, <1>i
    <3>8. ChargedByTheHost' /\ ApprovedByTheHost' /\ OverIsNotCharged'
      BY <3>1, <3>2, <1>i
    <3>9. RunHasNoWorker'
      BY <3>1, <3>2, <1>i
    <3>10. ReversalWasRequested'
      BY <3>1, <3>2, <1>i
    <3>11. ReversedBeforeSave'
      BY <3>1, <3>2, <1>i
    <3> QED
      BY <3>7, <3>8, <3>9, <3>10, <3>11
  <2>6. CASE RetryReversal(i, t)
    <3>1. PICK pc \in {"reversalSave", "idle"} : \A j \in Reconcilers, u \in Txns :
            reconciling'[j][u].pc = IF j = i /\ u = t THEN pc ELSE reconciling[j][u].pc
      BY <2>6, <1>t, MoveToPc, DropPc DEF RetryReversal
    <3>2. /\ overtaken' = IF answer[t] = "sent" THEN overtaken \cup {t} ELSE overtaken
          /\ \A u \in Txns :
               charge'[u] = IF u = t /\ charge[t] = "approved" THEN "reversed" ELSE charge[u]
      BY <2>6, <1>t, HostReversesCharges DEF RetryReversal
    <3>3. /\ reconciling[i][t].pc = "reversalLoaded"
          /\ UNCHANGED <<state, sale, reversal, reversalRequested, answer>>
      BY <2>6 DEF RetryReversal
    <3>7. NothingSentYet' /\ WorkerHoldsTheSale' /\ WorkerKnowsTheAnswer'
      BY <3>1, <3>2, <3>3, <1>i
    <3>8. ChargedByTheHost' /\ ApprovedByTheHost' /\ OverIsNotCharged'
      BY <3>1, <3>2, <3>3, <1>i
    <3>9. RunHasNoWorker'
      BY <3>1, <3>2, <3>3, <1>i
    <3>10. ReversalWasRequested'
      BY <3>1, <3>2, <3>3, <1>i
    <3>11. ReversedBeforeSave'
      BY <3>1, <3>2, <3>3, <1>i
    <3> QED
      BY <3>7, <3>8, <3>9, <3>10, <3>11
  <2>7. CASE SaveRetriedReversal(i, t)
    <3>1. PICK pc \in {"reversalAnnounce", "idle"} : \A j \in Reconcilers, u \in Txns :
            reconciling'[j][u].pc = IF j = i /\ u = t THEN pc ELSE reconciling[j][u].pc
      BY <2>7, <1>t, MoveToPc, DropPc DEF SaveRetriedReversal
    <3>2. \A u \in Txns : state'[u] =
            IF u = t /\ state[t] = "APPROVED" THEN "REVERSED" ELSE state[u]
      BY <2>7, <1>t, SaveIfStateRows DEF SaveRetriedReversal
    <3>3. /\ reconciling[i][t].pc = "reversalSave"
          /\ UNCHANGED <<sale, reversal, reversalRequested, answer, charge, overtaken>>
      BY <2>7 DEF SaveRetriedReversal
    <3>7. NothingSentYet' /\ WorkerHoldsTheSale' /\ WorkerKnowsTheAnswer'
      BY <3>1, <3>2, <3>3, <1>i
    <3>8. ChargedByTheHost' /\ ApprovedByTheHost' /\ OverIsNotCharged'
      BY <3>1, <3>2, <3>3, <1>i
    <3>9. RunHasNoWorker'
      BY <3>1, <3>2, <3>3, <1>i
    <3>10. ReversalWasRequested'
      BY <3>1, <3>2, <3>3, <1>i
    <3>11. ReversedBeforeSave'
      BY <3>1, <3>2, <3>3, <1>i
    <3> QED
      BY <3>7, <3>8, <3>9, <3>10, <3>11
  <2>8. CASE PublishRetriedReversal(i, t)
    <3>1. \A j \in Reconcilers, u \in Txns :
            reconciling'[j][u].pc = IF j = i /\ u = t THEN "idle" ELSE reconciling[j][u].pc
      BY <2>8, <1>t, DropPc DEF PublishRetriedReversal
    <3>2. UNCHANGED <<state, sale, reversal, reversalRequested, answer, charge, overtaken>>
      BY <2>8 DEF PublishRetriedReversal
    <3>7. NothingSentYet' /\ WorkerHoldsTheSale' /\ WorkerKnowsTheAnswer'
      BY <3>1, <3>2, <1>i
    <3>8. ChargedByTheHost' /\ ApprovedByTheHost' /\ OverIsNotCharged'
      BY <3>1, <3>2, <1>i
    <3>9. RunHasNoWorker'
      BY <3>1, <3>2, <1>i
    <3>10. ReversalWasRequested'
      BY <3>1, <3>2, <1>i
    <3>11. ReversedBeforeSave'
      BY <3>1, <3>2, <1>i
    <3> QED
      BY <3>7, <3>8, <3>9, <3>10, <3>11
  <2> QED
    BY <1>18, <2>1, <2>2, <2>3, <2>4, <2>5, <2>6, <2>7, <2>8 DEF ReconcileStep
<1>19. ASSUME NEW i \in Reconcilers, NEW t \in Txns, SkipSale(i, t) PROVE ChargeParts'
  <2>1. \A j \in Reconcilers, u \in Txns :
          reconciling'[j][u].pc = IF j = i /\ u = t THEN "idle" ELSE reconciling[j][u].pc
    BY <1>19, <1>t, DropPc DEF SkipSale
  <2>2. UNCHANGED <<state, sale, reversal, reversalRequested, answer, charge, overtaken>>
    BY <1>19 DEF SkipSale
  <2>7. NothingSentYet' /\ WorkerHoldsTheSale' /\ WorkerKnowsTheAnswer'
    BY <2>1, <2>2, <1>i
  <2>8. ChargedByTheHost' /\ ApprovedByTheHost' /\ OverIsNotCharged'
    BY <2>1, <2>2, <1>i
  <2>9. RunHasNoWorker'
    BY <2>1, <2>2, <1>i
  <2>10. ReversalWasRequested'
    BY <2>1, <2>2, <1>i
  <2>11. ReversedBeforeSave'
    BY <2>1, <2>2, <1>i
  <2> QED
    BY <2>7, <2>8, <2>9, <2>10, <2>11
<1>20. CASE UNCHANGED vars
  BY <1>20, <1>i DEF vars
<1> QED
  BY <1>1, <1>2, <1>3, <1>4, <1>5, <1>6, <1>7, <1>8, <1>9, <1>10, <1>11,
     <1>12, <1>13, <1>14, <1>15, <1>16, <1>17, <1>18, <1>19, <1>20
  DEF Next

(* The invariant holds from the start. *)
LEMMA ChargeInit == Init => ChargeParts
  BY AuthorizationAssumption
  DEF Init, Unlisted, Carrying, ChargeParts, NothingSentYet, WorkerHoldsTheSale,
      WorkerKnowsTheAnswer, ChargedByTheHost, ApprovedByTheHost, OverIsNotCharged,
      Chargeable, RunHasNoWorker, ReversalWasRequested, ReversedBeforeSave

(* It is an invariant. *)
LEMMA ChargeInvariant ==
  ASSUME OutlivesStuckAfter = {} PROVE Spec => []ChargeInv
<1>1. Init => ChargeInv
  BY ChargeInit, InitTypeOK DEF ChargeInv
<1>2. ChargeInv /\ TypeOK' /\ [Next]_vars => ChargeInv'
  BY OutlivesStuckAfter = {}, ChargeStep DEF ChargeInv
<1> QED
  BY <1>1, <1>2, TypeCorrect, PTL DEF Spec

------------------------------------------------------------------------------
(* A reversed sale is not charged, nor will be by a request on its way or  *)
(* yet to be sent; and a rejected one only if the host answered a reversal *)
(* of it before it had read its request. This is as far as the code goes:  *)
(* it takes "original not found" for the end of the matter.                *)
THEOREM OnlyOvertakenIsOrphan ==
  ASSUME OutlivesStuckAfter = {} PROVE Spec => []NoOrphanCharge
<1>1. ChargeInv => NoOrphanCharge
  BY DEF ChargeInv, ChargeParts, NoOrphanCharge, OverIsNotCharged, Chargeable,
         WorkerHoldsTheSale, Carrying
<1> QED
  BY <1>1, ChargeInvariant, OutlivesStuckAfter = {}, PTL

(* What an approved sale charged is only given back on request. *)
THEOREM NobodyGetsGoodsForFree ==
  ASSUME OutlivesStuckAfter = {} PROVE Spec => []ApprovedIsCharged
<1>1. ChargeInv => ApprovedIsCharged
  BY DEF ChargeInv, ChargeParts, ApprovedIsCharged, ApprovedByTheHost
<1> QED
  BY <1>1, ChargeInvariant, OutlivesStuckAfter = {}, PTL

------------------------------------------------------------------------------
(* What is asked of the acquirer and what is kept of its answers. Nothing  *)
(* is assumed of how long a worker lives. First, what one step does to the *)
(* requests and the answers.                                               *)

(* Sale t goes to a worker, by the score that let it through. *)
QueuedByScore(t) ==
  /\ state[t] = "FRAUD_CHECKING" /\ state'[t] = "PROCESSING"
  /\ \E s \in Scores : ScoreOf[s] = t /\ verdict'[s] = "APPROVE" /\ s \in processed'

(* The worker of sale t asks the acquirer to authorize it. *)
Asked(t) == sale[t] = "queued" /\ sale'[t] # "queued" /\ answer'[t] = "sent"

(* The host or the link settles what becomes of the request of sale t. *)
Answered(t) == answer[t] = "sent" /\ answer'[t] # "none"

(* A sale is only queued by its score, only asked for by its worker, and   *)
(* only answered when it was asked for.                                    *)
RequestMove ==
  \A t \in Txns :
    /\ sale'[t] = "queued" => sale[t] = "queued" \/ QueuedByScore(t)
    /\ answer'[t] = answer[t] \/ Asked(t) \/ Answered(t)

(* Scores and claims are kept, and a card is only blocked for an issuer    *)
(* that retained it.                                                       *)
KeptMove ==
  /\ \A s \in Scores : verdict[s] # "none" => verdict'[s] = verdict[s]
  /\ processed \subseteq processed'
  /\ \A c \in blocked' : c \in blocked \/ \E t \in Txns :
       CardOf[t] = c /\ answer[t] = "captured"

(* The event of a reversal request is consumed once its sale exists; the   *)
(* request is stored unless the sale can no longer be approved.            *)
ReversalMove ==
  /\ reversalRequested \subseteq reversalRequested'
  /\ \A r \in Reversals : r \in processed' \ processed =>
       \/ ReversalOf[r] \in reversalRequested'
       \/ /\ state[ReversalOf[r]] \in {"INDETERMINATE", "REJECTED", "REVERSED"}
          /\ UNCHANGED state

(* Every step is of this kind. The ids of events are apart by kind. *)
LEMMA AcquirerSteps ==
  ASSUME Reversals \cap (Received \cup Scores) = {}, TypeOK, [Next]_vars
  PROVE  RequestMove /\ KeptMove /\ ReversalMove
<1> USE AuthorizationAssumption
<1> USE DEF db, goroutines, bus, acquirer
<1> DEFINE Moves == RequestMove /\ KeptMove /\ ReversalMove
<1>t. /\ state \in [Txns -> States]
      /\ sale \in [Txns -> SalePC]
      /\ answer \in [Txns -> Answers]
      /\ verdict \in [Scores -> {"none", "APPROVE", "REJECT"}]
  BY DEF TypeOK
<1>0. ASSUME UNCHANGED <<sale, answer, verdict, processed, blocked, reversalRequested>>
      PROVE  Moves
  BY <1>0 DEF RequestMove, KeptMove, ReversalMove
<1>1. ASSUME NEW e \in Received, ReceiveTransaction(e) \/ RejectBlockedCard(e)
      PROVE  Moves
  <2>1. /\ UNCHANGED <<answer, verdict, blocked, reversalRequested>>
        /\ processed' = processed \cup {e}
    BY <1>1 DEF ReceiveTransaction, RejectBlockedCard, TryMarkAsProcessed
  <2>2. \A t \in Txns : sale'[t] = sale[t] \/ sale'[t] # "queued"
    BY <1>1, <1>t DEF ReceiveTransaction, RejectBlockedCard, InsertTx
  <2>3. RequestMove /\ KeptMove
    BY <2>1, <2>2 DEF RequestMove, KeptMove
  <2>4. ReversalMove
    BY <2>1, Reversals \cap (Received \cup Scores) = {} DEF ReversalMove
  <2> QED
    BY <2>3, <2>4
<1>2. ASSUME NEW e \in Malformed,
             RejectInvalid(e) \/ PublishInvalidRejected(e) \/ AbandonInvalid(e)
      PROVE  Moves
  BY <1>2, <1>0 DEF RejectInvalid, PublishInvalidRejected, AbandonInvalid
<1>3. CASE PurgeInvalidRejections
  BY <1>3, <1>0 DEF PurgeInvalidRejections
<1>4. ASSUME NEW s \in Scores, FraudAnswers(s) PROVE Moves
  BY <1>4, <1>t DEF FraudAnswers, RequestMove, KeptMove, ReversalMove
<1>5. ASSUME NEW s \in Scores, ApplyFraudScore(s) PROVE Moves
  <2>1. /\ UNCHANGED <<answer, verdict, blocked, reversalRequested>>
        /\ processed' = processed \cup {s}
    BY <1>5 DEF ApplyFraudScore, TryMarkAsProcessed
  <2>2. \A t \in Txns : sale'[t] = "queued" => sale[t] = "queued" \/ QueuedByScore(t)
    <3> SUFFICES ASSUME NEW t \in Txns, sale'[t] = "queued", sale[t] # "queued"
                 PROVE  QueuedByScore(t)
      OBVIOUS
    <3>1. /\ t = ScoreOf[s] /\ state[t] = "FRAUD_CHECKING" /\ verdict[s] = "APPROVE"
          /\ SaveIfState(t, "FRAUD_CHECKING", "PROCESSING")
      BY <1>5, <1>t DEF ApplyFraudScore
    <3>2. state'[t] = "PROCESSING"
      BY <3>1, <1>t, SaveIfStateRows
    <3> QED
      BY <2>1, <3>1, <3>2 DEF QueuedByScore
  <2>3. RequestMove /\ KeptMove
    BY <2>1, <2>2 DEF RequestMove, KeptMove
  <2>4. ReversalMove
    BY <2>1, Reversals \cap (Received \cup Scores) = {} DEF ReversalMove
  <2> QED
    BY <2>3, <2>4
<1>6. ASSUME NEW t \in Txns, SendAuthorization(t) PROVE Moves
  BY <1>6, <1>t DEF SendAuthorization, RequestMove, KeptMove, ReversalMove, Asked
<1>7. ASSUME NEW t \in Txns, HostDecides(t) PROVE Moves
  <2>1. /\ UNCHANGED <<sale, verdict, processed, blocked, reversalRequested>>
        /\ answer[t] = "sent"
        /\ \E a \in {"approved", "declined", "captured", "lost"} :
             answer' = [answer EXCEPT ![t] = a]
    BY <1>7 DEF HostDecides
  <2> QED
    BY <2>1, <1>t DEF RequestMove, KeptMove, ReversalMove, Answered
<1>8. ASSUME NEW t \in Txns, ReceiveRejection(t) PROVE Moves
  <2>1. /\ UNCHANGED <<answer, verdict, processed, reversalRequested>>
        /\ sale' = [sale EXCEPT ![t] = "rejected"]
        /\ \A c \in blocked' : c \in blocked \/ (c = CardOf[t] /\ answer[t] = "captured")
    BY <1>8 DEF ReceiveRejection
  <2> QED
    BY <2>1, <1>t DEF RequestMove, KeptMove, ReversalMove
<1>9. ASSUME NEW t \in Txns, SaleStep(t) \/ AbandonSale(t) PROVE Moves
  <2>1. CASE SendAuthorization(t) \/ ReceiveRejection(t)
    BY <2>1, <1>6, <1>8
  <2>2. CASE \/ PublishFraudCheckRequested(t) \/ AuthorizationNotSent(t)
             \/ ReceiveApproval(t) \/ CallFails(t) \/ SaveResult(t)
             \/ PublishOutcome(t) \/ AbandonSale(t)
    <3>1. /\ UNCHANGED <<answer, verdict, processed, blocked, reversalRequested>>
          /\ \E pc \in SalePC \ {"queued"} : sale' = [sale EXCEPT ![t] = pc]
      BY <2>2 DEF PublishFraudCheckRequested, AuthorizationNotSent, ReceiveApproval,
         CallFails, SaveResult, PublishOutcome, AbandonSale, SalePC
    <3> QED
      BY <3>1, <1>t DEF RequestMove, KeptMove, ReversalMove
  <2> QED
    BY <1>9, <2>1, <2>2 DEF SaleStep
<1>10. ASSUME NEW r \in Reversals, ProcessReversal(r) PROVE Moves
  <2>1. /\ UNCHANGED <<sale, answer, verdict, blocked, state>>
        /\ processed' = processed \cup {r}
    BY <1>10 DEF ProcessReversal, TryMarkAsProcessed
  <2>2. \/ reversalRequested' = reversalRequested \cup {ReversalOf[r]}
        \/ /\ state[ReversalOf[r]] \in {"INDETERMINATE", "REJECTED", "REVERSED"}
           /\ UNCHANGED reversalRequested
    BY <1>10 DEF ProcessReversal
  <2> QED
    BY <2>1, <2>2 DEF RequestMove, KeptMove, ReversalMove
<1>11. ASSUME NEW r \in Reversals, ReversalStep(r) \/ AbandonReversal(r) PROVE Moves
  BY <1>11, <1>0 DEF ReversalStep, ReverseAtHost, SaveReversed,
     PublishReversalCompleted, AbandonReversal
<1>12. ASSUME NEW i \in Reconcilers,
              FindUnresolved(i) \/ FindPendingReversals(i) \/ ReconcilerStops(i)
       PROVE  Moves
  BY <1>12, <1>0 DEF FindUnresolved, FindPendingReversals, ReconcilerStops
<1>13. ASSUME NEW i \in Reconcilers, NEW t \in Txns,
              ReconcileStep(i, t) \/ SkipSale(i, t)
       PROVE  Moves
  BY <1>13, <1>0 DEF ReconcileStep, LoadListed, TakeOver, ReverseUnresolved,
     SaveRejection, PublishRejection, RetryReversal, SaveRetriedReversal,
     PublishRetriedReversal, SkipSale
<1>14. CASE UNCHANGED vars
  BY <1>14, <1>0 DEF vars
<1> QED
  BY <1>1, <1>2, <1>3, <1>4, <1>5, <1>7, <1>9, <1>10, <1>11, <1>12, <1>13, <1>14
  DEF Next

(* A sale never comes back to the fraud check, and one whose outcome is    *)
(* not known any more is never approved.                                   *)
LEMMA NoWayBack ==
  ASSUME TypeOK, [Next]_vars, NEW t \in Txns
  PROVE  /\ state[t] \notin {"NONE", "FRAUD_CHECKING"} =>
              state'[t] \notin {"NONE", "FRAUD_CHECKING"}
         /\ state[t] \in {"INDETERMINATE", "REJECTED", "REVERSED"} =>
              state'[t] \in {"INDETERMINATE", "REJECTED", "REVERSED"}
<1>1. CASE UNCHANGED state
  BY <1>1
<1>2. ASSUME NEW u \in Txns, NEW new, RowMove(u, new)
      PROVE  /\ state[t] \notin {"NONE", "FRAUD_CHECKING"} =>
                  state'[t] \notin {"NONE", "FRAUD_CHECKING"}
             /\ state[t] \in {"INDETERMINATE", "REJECTED", "REVERSED"} =>
                  state'[t] \in {"INDETERMINATE", "REJECTED", "REVERSED"}
  BY <1>2 DEF RowMove, TypeOK
<1> QED
  BY <1>1, <1>2, RowSteps

------------------------------------------------------------------------------
(* The inductive invariant.                                                *)

(* Nothing was asked for a sale that is not scored yet, or that waits for  *)
(* a worker.                                                               *)
NotAskedYet ==
  \A t \in Txns :
    /\ state[t] \in {"NONE", "FRAUD_CHECKING"} => answer[t] = "none"
    /\ sale[t] = "queued" =>
         answer[t] = "none" /\ state[t] \notin {"NONE", "FRAUD_CHECKING"}

(* A sale that waits for a worker, or had one, was let through by a score. *)
LetThrough ==
  \A t \in Txns : sale[t] = "queued" \/ answer[t] # "none" =>
    \E s \in Scores : ScoreOf[s] = t /\ verdict[s] = "APPROVE" /\ s \in processed

(* A request that was consumed without being stored is of a sale that will *)
(* not be approved.                                                        *)
UnstoredIsOver ==
  \A r \in Reversals : r \in processed /\ ReversalOf[r] \notin reversalRequested =>
    state[ReversalOf[r]] \in {"INDETERMINATE", "REJECTED", "REVERSED"}

AcquirerParts ==
  /\ NotAskedYet
  /\ LetThrough
  /\ BlockedByIssuer
  /\ UnstoredIsOver

AcquirerInv == TypeOK /\ AcquirerParts

(* The invariant holds from the start. *)
LEMMA AcquirerInit == Init => AcquirerParts
  BY AuthorizationAssumption
  DEF Init, AcquirerParts, NotAskedYet, LetThrough, BlockedByIssuer, UnstoredIsOver

(* Every step preserves it. *)
LEMMA AcquirerStep ==
  ASSUME Reversals \cap (Received \cup Scores) = {}, AcquirerInv, [Next]_vars
  PROVE  AcquirerParts'
<1> USE AuthorizationAssumption
<1>1. RequestMove /\ KeptMove /\ ReversalMove
  BY AcquirerSteps, Reversals \cap (Received \cup Scores) = {} DEF AcquirerInv
<1>2. \A t \in Txns :
        /\ state[t] \notin {"NONE", "FRAUD_CHECKING"} =>
             state'[t] \notin {"NONE", "FRAUD_CHECKING"}
        /\ state[t] \in {"INDETERMINATE", "REJECTED", "REVERSED"} =>
             state'[t] \in {"INDETERMINATE", "REJECTED", "REVERSED"}
  BY NoWayBack DEF AcquirerInv
<1>i. NotAskedYet /\ LetThrough /\ BlockedByIssuer /\ UnstoredIsOver
  BY DEF AcquirerInv, AcquirerParts
<1>3. NotAskedYet'
  BY <1>1, <1>2, <1>i DEF NotAskedYet, RequestMove, QueuedByScore, Asked, Answered
<1>4. LetThrough'
  <2> SUFFICES ASSUME NEW t \in Txns, sale'[t] = "queued" \/ answer'[t] # "none"
               PROVE  \E s \in Scores :
                        ScoreOf[s] = t /\ verdict'[s] = "APPROVE" /\ s \in processed'
    BY DEF LetThrough
  <2>1. QueuedByScore(t) \/ sale[t] = "queued" \/ answer[t] # "none"
    BY <1>1 DEF RequestMove, Asked, Answered
  <2> QED
    BY <2>1, <1>1, <1>i DEF QueuedByScore, LetThrough, KeptMove
<1>5. BlockedByIssuer'
  <2> SUFFICES ASSUME NEW c \in blocked'
               PROVE  \E t \in Txns : CardOf[t] = c /\ answer'[t] = "captured"
    BY DEF BlockedByIssuer
  <2>1. PICK t \in Txns : CardOf[t] = c /\ answer[t] = "captured"
    BY <1>1, <1>i DEF KeptMove, BlockedByIssuer
  <2>2. answer'[t] = "captured"
    BY <2>1, <1>1, <1>i DEF RequestMove, Asked, Answered, NotAskedYet
  <2> QED
    BY <2>1, <2>2
<1>6. UnstoredIsOver'
  BY <1>1, <1>2, <1>i DEF UnstoredIsOver, ReversalMove
<1> QED
  BY <1>3, <1>4, <1>5, <1>6 DEF AcquirerParts

(* It is an invariant. *)
LEMMA AcquirerInvariant ==
  ASSUME Reversals \cap (Received \cup Scores) = {}
  PROVE  Spec => []AcquirerInv
<1>1. Init => AcquirerInv
  BY AcquirerInit, InitTypeOK DEF AcquirerInv
<1>2. AcquirerInv /\ TypeOK' /\ [Next]_vars => AcquirerInv'
  BY Reversals \cap (Received \cup Scores) = {}, AcquirerStep DEF AcquirerInv
<1> QED
  BY <1>1, <1>2, TypeCorrect, PTL DEF Spec

------------------------------------------------------------------------------
(* No authorization leaves for the acquirer without a fraud score that let *)
(* the sale through and whose event was claimed for it.                    *)
THEOREM AskedAfterFraudCheck ==
  ASSUME Reversals \cap (Received \cup Scores) = {}
  PROVE  Spec => []AuthorizedAfterFraudCheck
<1>1. AcquirerInv => AuthorizedAfterFraudCheck
  BY DEF AcquirerInv, AcquirerParts, LetThrough, AuthorizedAfterFraudCheck
<1> QED
  BY <1>1, AcquirerInvariant, Reversals \cap (Received \cup Scores) = {}, PTL

(* A card is blocked only if its issuer retained it. *)
THEOREM OnlyIssuersBlock ==
  ASSUME Reversals \cap (Received \cup Scores) = {}
  PROVE  Spec => []BlockedByIssuer
<1>1. AcquirerInv => BlockedByIssuer
  BY DEF AcquirerInv, AcquirerParts
<1> QED
  BY <1>1, AcquirerInvariant, Reversals \cap (Received \cup Scores) = {}, PTL

(* A reversal request whose event was consumed is stored with its sale if  *)
(* that is approved, then or later.                                        *)
THEOREM RequestsAreKept ==
  ASSUME Reversals \cap (Received \cup Scores) = {}
  PROVE  Spec => []ReversalNotForgotten
<1>1. AcquirerInv => ReversalNotForgotten
  BY AuthorizationAssumption
  DEF AcquirerInv, AcquirerParts, UnstoredIsOver, ReversalNotForgotten
<1> QED
  BY <1>1, AcquirerInvariant, Reversals \cap (Received \cup Scores) = {}, PTL

(* The acquirer is asked to authorize a sale at most once. *)
THEOREM AskedOnce ==
  ASSUME Reversals \cap (Received \cup Scores) = {}
  PROVE  Spec => AuthorizedOnce
<1>1. AcquirerInv /\ [Next]_vars =>
        [\A t \in Txns : answer'[t] = "sent" => answer[t] \in {"none", "sent"}]_answer
  BY Reversals \cap (Received \cup Scores) = {}, AcquirerSteps
  DEF AcquirerInv, AcquirerParts, NotAskedYet, RequestMove, Asked, Answered
<1> QED
  BY <1>1, AcquirerInvariant, Reversals \cap (Received \cup Scores) = {}, PTL
  DEF Spec, AuthorizedOnce
=============================================================================
