---------------------------- MODULE Authorization ----------------------------
(***************************************************************************)
(* The Authorization context: the saga that takes a sale from its          *)
(* transaction.received event to an outcome, the workers that call the     *)
(* acquirer outside the NATS handlers, the reversal requests, and the      *)
(* reconciler that settles what was left without a known result.           *)
(*                                                                         *)
(* One step is one access to something shared: a database transaction, a   *)
(* conditional UPDATE, a message handed to the acquirer link, a            *)
(* publication. Everything between two such accesses is local to a         *)
(* goroutine and is kept in its program counter. A goroutine may stop      *)
(* between any two steps: a crash, a database error and a failed           *)
(* publication all end it, and none of them is retried by the code that    *)
(* failed. Handlers that fail before their transaction commits leave no    *)
(* trace, and their message is delivered again: delivery is a step that    *)
(* can be taken as long as the event is not in processed_events.           *)
(*                                                                         *)
(* The definitions marked as variants are not part of the specification:   *)
(* each is the definition that follows it with a plausible mistake, and    *)
(* stands in for it in the mutants that show what each property catches.   *)
(***************************************************************************)

CONSTANTS
  Txns,                \* transaction ids
  Received, TxOf,      \* transaction.received events, and the sale of each
  Malformed,           \* those whose data do not pass the validation
  Scores, ScoreOf,     \* fraud.score-calculated events, and the sale of each
  Reversals, ReversalOf, \* reversal-requested events, and the sale of each
  Cards, CardOf,       \* card tokens, and the card of each sale
  Reconcilers,         \* the instances that run the reconciler
  OutlivesStuckAfter   \* where a live worker can still be when the sale has
                       \* been PROCESSING for longer than ACQUIRER_STUCK_AFTER

States == {"NONE", "FRAUD_CHECKING", "PROCESSING", "INDETERMINATE",
           "APPROVED", "REJECTED", "REVERSED"}

SalePC == {"idle", "requestFraud", "queued", "waiting",
           "approved", "rejected", "unknown",
           "announceApproved", "announceRejected"}

ReversalPC == {"idle", "queued", "save", "announce"}

InvalidPC == {"idle", "announce", "done"}

ReconcilePC == {"idle", "listed", "loaded", "reverse", "save", "announce",
                "reversalListed", "reversalLoaded", "reversalSave",
                "reversalAnnounce"}

Answers == {"none", "sent", "lost", "approved", "declined", "captured"}

ASSUME AuthorizationAssumption ==
  /\ TxOf \in [Received -> Txns]
  /\ Malformed \subseteq Received
  /\ ScoreOf \in [Scores -> Txns]
  /\ ReversalOf \in [Reversals -> Txns]
  /\ CardOf \in [Txns -> Cards]
  /\ OutlivesStuckAfter \subseteq SalePC

(* TransactionState.CanTransitionTo. A sale is RECEIVED only in memory: its *)
(* row starts where it moved to before the INSERT.                         *)
CanTransitionTo(s) ==
  CASE s = "NONE"           -> {"FRAUD_CHECKING", "REJECTED"}
    [] s = "FRAUD_CHECKING" -> {"PROCESSING", "REJECTED"}
    [] s = "PROCESSING"     -> {"APPROVED", "REJECTED", "INDETERMINATE"}
    [] s = "INDETERMINATE"  -> {"REVERSED", "APPROVED", "REJECTED"}
    [] s = "APPROVED"       -> {"REVERSED"}
    [] OTHER                -> {}

VARIABLES
  state,             \* transactions.state; NONE while there is no row
  reversalRequested, \* sales with transactions.reversal_requested_at
  processed,         \* processed_events
  invalid,           \* invalid_transactions
  blocked,           \* blocked_cards
  sale,              \* the goroutine that carries each sale forward
  rejecting,         \* the handler of each malformed event
  reversal,          \* the goroutine of each reversal request
  reconciling,       \* each reconciler's copy of each sale of its run
  fraudRequested,    \* sales whose fraud.check-requested was published
  verdict,           \* what each fraud.score-calculated says
  published,         \* outcomes of each sale published to POSNET_AUTH
  answer,            \* the authorization request of each sale at the acquirer
  charge,            \* what the issuer holds against the card
  overtaken          \* sales of which the host answered a reversal while their
                     \* authorization request was still on its way (a history
                     \* of the link, which no code reads)

db == <<state, reversalRequested, processed, invalid, blocked>>
goroutines == <<sale, rejecting, reversal, reconciling>>
bus == <<fraudRequested, verdict, published>>
acquirer == <<answer, charge, overtaken>>
vars == <<state, reversalRequested, processed, invalid, blocked,
          sale, rejecting, reversal, reconciling,
          fraudRequested, verdict, published, answer, charge, overtaken>>

(* A reconciler's copy of a sale: where it is with it, and the state the   *)
(* sale had when it was loaded.                                            *)
Copies == [pc : ReconcilePC, mem : States]
Unlisted == [pc |-> "idle", mem |-> "NONE"]

TypeOK ==
  /\ state \in [Txns -> States]
  /\ reversalRequested \subseteq Txns
  /\ processed \subseteq Received \cup Scores \cup Reversals
  /\ invalid \subseteq Txns
  /\ blocked \subseteq Cards
  /\ sale \in [Txns -> SalePC]
  /\ rejecting \in [Malformed -> InvalidPC]
  /\ reversal \in [Reversals -> ReversalPC]
  /\ reconciling \in [Reconcilers -> [Txns -> Copies]]
  /\ fraudRequested \subseteq Txns
  /\ verdict \in [Scores -> {"none", "APPROVE", "REJECT"}]
  /\ published \in [Txns -> SUBSET {"approved", "rejected", "reversed"}]
  /\ answer \in [Txns -> Answers]
  /\ charge \in [Txns -> {"none", "approved", "reversed"}]
  /\ overtaken \subseteq Txns

Init ==
  /\ state = [t \in Txns |-> "NONE"]
  /\ reversalRequested = {}
  /\ processed = {}
  /\ invalid = {}
  /\ blocked = {}
  /\ sale = [t \in Txns |-> "idle"]
  /\ rejecting = [e \in Malformed |-> "idle"]
  /\ reversal = [r \in Reversals |-> "idle"]
  /\ reconciling = [i \in Reconcilers |-> [t \in Txns |-> Unlisted]]
  /\ fraudRequested = {}
  /\ verdict = [s \in Scores |-> "none"]
  /\ published = [t \in Txns |-> {}]
  /\ answer = [t \in Txns |-> "none"]
  /\ charge = [t \in Txns |-> "none"]
  /\ overtaken = {}

------------------------------------------------------------------------------
(* The database.                                                           *)

(* INSERT INTO processed_events ... ON CONFLICT DO NOTHING: an event is    *)
(* claimed by one database transaction, together with what it changes.     *)
TryMarkAsProcessed(event) ==
  /\ event \notin processed
  /\ processed' = processed \cup {event}

(* Variant: the aggregate is inserted before it leaves RECEIVED. *)
InsertReceived(t, new, pc) ==
  /\ state' = [state EXCEPT ![t] = IF @ = "NONE" THEN "RECEIVED" ELSE @]
  /\ sale' = [sale EXCEPT ![t] = IF state[t] = "NONE" THEN pc ELSE @]

(* INSERT INTO transactions ... ON CONFLICT (id) DO NOTHING. The handler   *)
(* continues at pc only if the row is new.                                 *)
InsertTx(t, new, pc) ==
  \/ /\ state[t] = "NONE"
     /\ state' = [state EXCEPT ![t] = new]
     /\ sale' = [sale EXCEPT ![t] = pc]
  \/ /\ state[t] # "NONE"
     /\ UNCHANGED <<state, sale>>

(* Variant: the UPDATE does not look at the state of the row. *)
SaveAlways(t, expected, new) ==
  state' = [state EXCEPT ![t] = new]

(* UPDATE transactions ... WHERE id = $1 AND state = $2. *)
SaveIfState(t, expected, new) ==
  state' = [state EXCEPT ![t] = IF @ = expected THEN new ELSE @]

------------------------------------------------------------------------------
(* A sale, up to the fraud check.                                          *)

(* AuthorizeTransaction on valid data. The blocklist is read before the    *)
(* database transaction and a failed lookup lets the sale through, so this *)
(* step does not depend on it.                                             *)
ReceiveTransaction(e) ==
  /\ e \in Received \ Malformed
  /\ TryMarkAsProcessed(e)
  /\ InsertTx(TxOf[e], "FRAUD_CHECKING", "requestFraud")
  /\ UNCHANGED <<reversalRequested, invalid, blocked, rejecting, reversal,
                 reconciling, bus, acquirer>>

(* rejectBlockedCard: the card is on the blocklist. *)
RejectBlockedCard(e) ==
  /\ e \in Received \ Malformed
  /\ CardOf[TxOf[e]] \in blocked
  /\ TryMarkAsProcessed(e)
  /\ InsertTx(TxOf[e], "REJECTED", "announceRejected")
  /\ UNCHANGED <<reversalRequested, invalid, blocked, rejecting, reversal,
                 reconciling, bus, acquirer>>

(* rejectInvalid: the data do not pass the validation. If the sale exists, *)
(* the message is dropped; otherwise its rejection is recorded, which may  *)
(* fail and does not matter, and goes on to be published.                  *)
RejectInvalid(e) ==
  LET t == TxOf[e] IN
  /\ rejecting[e] = "idle"
  /\ \/ /\ state[t] # "NONE"
        /\ rejecting' = [rejecting EXCEPT ![e] = "done"]
        /\ UNCHANGED invalid
     \/ /\ state[t] = "NONE"
        /\ rejecting' = [rejecting EXCEPT ![e] = "announce"]
        /\ invalid' \in {invalid, invalid \cup {t}}
  /\ UNCHANGED <<state, reversalRequested, processed, blocked, sale, reversal,
                 reconciling, bus, acquirer>>

(* The rejection of a malformed event is published and its message is      *)
(* terminated, or delivered again if the process dies in between: this     *)
(* path does not claim the event.                                          *)
PublishInvalidRejected(e) ==
  /\ rejecting[e] = "announce"
  /\ published' = [published EXCEPT ![TxOf[e]] = @ \cup {"rejected"}]
  /\ \E next \in {"idle", "done"} : rejecting' = [rejecting EXCEPT ![e] = next]
  /\ UNCHANGED <<db, sale, reversal, reconciling, fraudRequested, verdict,
                 acquirer>>

(* The handler ends before publishing; the message is delivered again. *)
AbandonInvalid(e) ==
  /\ rejecting[e] = "announce"
  /\ rejecting' = [rejecting EXCEPT ![e] = "idle"]
  /\ UNCHANGED <<db, sale, reversal, reconciling, bus, acquirer>>

(* The hourly purge of invalid_transactions. *)
PurgeInvalidRejections ==
  /\ invalid # {}
  /\ \E old \in SUBSET invalid \ {{}} : invalid' = invalid \ old
  /\ UNCHANGED <<state, reversalRequested, processed, blocked, goroutines, bus,
                 acquirer>>

(* The fraud check is requested after the commit, outside the transaction. *)
PublishFraudCheckRequested(t) ==
  /\ sale[t] = "requestFraud"
  /\ fraudRequested' = fraudRequested \cup {t}
  /\ sale' = [sale EXCEPT ![t] = "idle"]
  /\ UNCHANGED <<db, rejecting, reversal, reconciling, verdict, published,
                 acquirer>>

(* EvaluateTransaction of Fraud Detection answers a request. It may answer *)
(* twice, under two event ids: a neutral score is published without        *)
(* claiming the event. The host and the issuer below are external; what    *)
(* they do is what the repository's host simulator does.                   *)
FraudAnswers(s) ==
  /\ verdict[s] = "none"
  /\ ScoreOf[s] \in fraudRequested
  /\ \E d \in {"APPROVE", "REJECT"} : verdict' = [verdict EXCEPT ![s] = d]
  /\ UNCHANGED <<db, goroutines, fraudRequested, published, acquirer>>

(* Variant: the row is not looked at, so a second score counts again. *)
ApplyFraudScoreAgain(s) ==
  LET t == ScoreOf[s] IN
  /\ verdict[s] = "APPROVE"
  /\ TryMarkAsProcessed(s)
  /\ state' = [state EXCEPT ![t] = "PROCESSING"]
  /\ sale' = [sale EXCEPT ![t] = "queued"]
  /\ UNCHANGED <<reversalRequested, invalid, blocked, rejecting, reversal,
                 reconciling, bus, acquirer>>

(* Variant: the decision of the score is not looked at. *)
ApplyAnyScore(s) ==
  LET t == ScoreOf[s] IN
  /\ verdict[s] # "none" /\ state[t] = "FRAUD_CHECKING"
  /\ TryMarkAsProcessed(s)
  /\ SaveIfState(t, "FRAUD_CHECKING", "PROCESSING")
  /\ sale' = [sale EXCEPT ![t] = "queued"]
  /\ UNCHANGED <<reversalRequested, invalid, blocked, rejecting, reversal,
                 reconciling, bus, acquirer>>

(* ApplyFraudScore, up to its commit. Only a sale in FRAUD_CHECKING moves; *)
(* the event is claimed in any case.                                       *)
ApplyFraudScore(s) ==
  LET t == ScoreOf[s] IN
  /\ verdict[s] # "none"
  /\ TryMarkAsProcessed(s)
  /\ \/ /\ state[t] # "FRAUD_CHECKING"
        /\ UNCHANGED <<state, sale>>
     \/ /\ state[t] = "FRAUD_CHECKING" /\ verdict[s] = "REJECT"
        /\ SaveIfState(t, "FRAUD_CHECKING", "REJECTED")
        /\ sale' = [sale EXCEPT ![t] = "announceRejected"]
     \/ /\ state[t] = "FRAUD_CHECKING" /\ verdict[s] = "APPROVE"
        /\ SaveIfState(t, "FRAUD_CHECKING", "PROCESSING")
        /\ sale' = [sale EXCEPT ![t] = "queued"]
  /\ UNCHANGED <<reversalRequested, invalid, blocked, rejecting, reversal,
                 reconciling, bus, acquirer>>

------------------------------------------------------------------------------
(* The call to the acquirer, in a worker.                                  *)

(* The worker hands the authorization request to the acquirer link. *)
SendAuthorization(t) ==
  /\ sale[t] = "queued"
  /\ answer' = [answer EXCEPT ![t] = "sent"]
  /\ sale' = [sale EXCEPT ![t] = "waiting"]
  /\ UNCHANGED <<db, rejecting, reversal, reconciling, bus, charge, overtaken>>

(* ErrNotSent: nothing left this host, the sale is rejected as 91 or 14. *)
AuthorizationNotSent(t) ==
  /\ sale[t] = "queued"
  /\ sale' = [sale EXCEPT ![t] = "rejected"]
  /\ UNCHANGED <<db, rejecting, reversal, reconciling, bus, acquirer>>

(* External: the host decides on a request that reached it, or the request *)
(* is lost with its connection. It may reach the host long after the call  *)
(* ended, and after a reversal sent on another connection: the host then   *)
(* decides as if it had never heard of the reversal.                       *)
HostDecides(t) ==
  /\ answer[t] = "sent"
  /\ \E a \in {"approved", "declined", "captured", "lost"} :
       /\ answer' = [answer EXCEPT ![t] = a]
       /\ charge' = [charge EXCEPT ![t] = IF a = "approved" THEN a ELSE @]
  /\ UNCHANGED <<db, goroutines, bus, overtaken>>

(* The answer is an approval with a valid authorization code. *)
ReceiveApproval(t) ==
  /\ sale[t] = "waiting" /\ answer[t] = "approved"
  /\ sale' = [sale EXCEPT ![t] = "approved"]
  /\ UNCHANGED <<db, rejecting, reversal, reconciling, bus, acquirer>>

(* Variant: any rejection blocks the card. *)
ReceiveRejectionAndBlock(t) ==
  /\ sale[t] = "waiting" /\ answer[t] \in {"declined", "captured"}
  /\ sale' = [sale EXCEPT ![t] = "rejected"]
  /\ blocked' = blocked \cup {CardOf[t]}
  /\ UNCHANGED <<state, reversalRequested, processed, invalid, rejecting,
                 reversal, reconciling, bus, acquirer>>

(* The answer is a rejection. blockCard comes before the result is saved,  *)
(* and only logs its own failure.                                          *)
ReceiveRejection(t) ==
  /\ sale[t] = "waiting" /\ answer[t] \in {"declined", "captured"}
  /\ sale' = [sale EXCEPT ![t] = "rejected"]
  /\ \/ UNCHANGED blocked
     \/ /\ answer[t] = "captured"
        /\ blocked' = blocked \cup {CardOf[t]}
  /\ UNCHANGED <<state, reversalRequested, processed, invalid, rejecting,
                 reversal, reconciling, bus, acquirer>>

(* The call ends without an answer: timeout or connection lost. *)
CallFails(t) ==
  /\ sale[t] = "waiting"
  /\ sale' = [sale EXCEPT ![t] = "unknown"]
  /\ UNCHANGED <<db, rejecting, reversal, reconciling, bus, acquirer>>

(* Variant: the worker announces its answer although it was not saved. *)
SaveResultAndAnnounce(t) ==
  /\ \/ /\ sale[t] = "approved"
        /\ SaveIfState(t, "PROCESSING", "APPROVED")
        /\ sale' = [sale EXCEPT ![t] = "announceApproved"]
     \/ /\ sale[t] = "rejected"
        /\ SaveIfState(t, "PROCESSING", "REJECTED")
        /\ sale' = [sale EXCEPT ![t] = "announceRejected"]
  /\ UNCHANGED <<reversalRequested, processed, invalid, blocked, rejecting,
                 reversal, reconciling, bus, acquirer>>

(* The worker saves what it knows, if the sale is still in PROCESSING. If  *)
(* the reconciler took it, the answer is ignored.                          *)
SaveResult(t) ==
  /\ \/ /\ sale[t] = "approved"
        /\ SaveIfState(t, "PROCESSING", "APPROVED")
        /\ sale' = [sale EXCEPT ![t] = IF state[t] = "PROCESSING"
                                       THEN "announceApproved" ELSE "idle"]
     \/ /\ sale[t] = "rejected"
        /\ SaveIfState(t, "PROCESSING", "REJECTED")
        /\ sale' = [sale EXCEPT ![t] = IF state[t] = "PROCESSING"
                                       THEN "announceRejected" ELSE "idle"]
     \/ /\ sale[t] = "unknown"
        /\ SaveIfState(t, "PROCESSING", "INDETERMINATE")
        /\ sale' = [sale EXCEPT ![t] = "idle"]
  /\ UNCHANGED <<reversalRequested, processed, invalid, blocked, rejecting,
                 reversal, reconciling, bus, acquirer>>

(* The outcome is published after the commit. *)
PublishOutcome(t) ==
  /\ \/ /\ sale[t] = "announceApproved"
        /\ published' = [published EXCEPT ![t] = @ \cup {"approved"}]
     \/ /\ sale[t] = "announceRejected"
        /\ published' = [published EXCEPT ![t] = @ \cup {"rejected"}]
  /\ sale' = [sale EXCEPT ![t] = "idle"]
  /\ UNCHANGED <<db, rejecting, reversal, reconciling, fraudRequested, verdict,
                 acquirer>>

(* The goroutine of the sale ends wherever it is: the process stops, the   *)
(* approval carries an invalid authorization code, the UPDATE fails, or    *)
(* the publication fails and is only logged.                               *)
AbandonSale(t) ==
  /\ sale[t] # "idle"
  /\ sale' = [sale EXCEPT ![t] = "idle"]
  /\ UNCHANGED <<db, rejecting, reversal, reconciling, bus, acquirer>>

------------------------------------------------------------------------------
(* Reversals requested by a terminal.                                      *)

(* The host undoes what it holds. "Original not found" is a success too.   *)
(* Only one connection keeps the order of what it carries. The request may *)
(* still be unread on one that the link has left, or on another instance's *)
(* own: the reversal then finds nothing and overtakes it.                  *)
HostReverses(t) ==
  /\ charge' = [charge EXCEPT ![t] = IF @ = "approved" THEN "reversed" ELSE @]
  /\ overtaken' = IF answer[t] = "sent" THEN overtaken \cup {t} ELSE overtaken

(* Variant: the request of a sale that is already approved is not stored. *)
ProcessReversalUnmarked(r) ==
  LET t == ReversalOf[r] IN
  /\ state[t] # "NONE"
  /\ TryMarkAsProcessed(r)
  /\ reversal' = [reversal EXCEPT ![r] = IF state[t] = "APPROVED" THEN "queued" ELSE @]
  /\ UNCHANGED <<state, reversalRequested, invalid, blocked, sale, rejecting,
                 reconciling, bus, acquirer>>

(* Variant: a request that finds the sale without an outcome is dropped. *)
ProcessReversalOfApproved(r) ==
  LET t == ReversalOf[r] IN
  /\ state[t] # "NONE"
  /\ TryMarkAsProcessed(r)
  /\ \/ /\ state[t] = "APPROVED"
        /\ reversalRequested' = reversalRequested \cup {t}
        /\ reversal' = [reversal EXCEPT ![r] = "queued"]
     \/ /\ state[t] # "APPROVED"
        /\ UNCHANGED <<reversalRequested, reversal>>
  /\ UNCHANGED <<state, invalid, blocked, sale, rejecting, reconciling, bus,
                 acquirer>>

(* ProcessReversal, up to its commit. A sale that does not exist yet is a  *)
(* transient error and changes nothing.                                    *)
ProcessReversal(r) ==
  LET t == ReversalOf[r] IN
  /\ state[t] # "NONE"
  /\ TryMarkAsProcessed(r)
  /\ \/ /\ state[t] = "APPROVED"
        /\ reversalRequested' = reversalRequested \cup {t}
        /\ reversal' = [reversal EXCEPT ![r] = "queued"]
     \/ /\ state[t] \in {"FRAUD_CHECKING", "PROCESSING"}
        /\ reversalRequested' = reversalRequested \cup {t}
        /\ UNCHANGED reversal
     \/ /\ state[t] \in {"INDETERMINATE", "REJECTED", "REVERSED"}
        /\ UNCHANGED <<reversalRequested, reversal>>
  /\ UNCHANGED <<state, invalid, blocked, sale, rejecting, reconciling, bus,
                 acquirer>>

(* completeReversal in a worker: the acquirer is called first; its answer  *)
(* may be lost after the host reversed the charge.                         *)
ReverseAtHost(r) ==
  /\ reversal[r] = "queued"
  /\ HostReverses(ReversalOf[r])
  /\ \E next \in {"save", "idle"} : reversal' = [reversal EXCEPT ![r] = next]
  /\ UNCHANGED <<db, sale, rejecting, reconciling, bus, answer>>

SaveReversed(r) ==
  LET t == ReversalOf[r] IN
  /\ reversal[r] = "save"
  /\ SaveIfState(t, "APPROVED", "REVERSED")
  /\ reversal' = [reversal EXCEPT ![r] = IF state[t] = "APPROVED"
                                         THEN "announce" ELSE "idle"]
  /\ UNCHANGED <<reversalRequested, processed, invalid, blocked, sale,
                 rejecting, reconciling, bus, acquirer>>

PublishReversalCompleted(r) ==
  /\ reversal[r] = "announce"
  /\ published' = [published EXCEPT ![ReversalOf[r]] = @ \cup {"reversed"}]
  /\ reversal' = [reversal EXCEPT ![r] = "idle"]
  /\ UNCHANGED <<db, sale, rejecting, reconciling, fraudRequested, verdict,
                 acquirer>>

AbandonReversal(r) ==
  /\ reversal[r] # "idle"
  /\ reversal' = [reversal EXCEPT ![r] = "idle"]
  /\ UNCHANGED <<db, sale, rejecting, reconciling, bus, acquirer>>

------------------------------------------------------------------------------
(* The reconciler.                                                         *)

(* The copy of sale t in the run of reconciler i moves to pc. *)
MoveTo(i, t, pc) ==
  reconciling' = [reconciling EXCEPT ![i][t] = [pc |-> pc, mem |-> @.mem]]

Drop(i, t) ==
  reconciling' = [reconciling EXCEPT ![i][t] = Unlisted]

(* Sales are taken one at a time, after the whole list was loaded. *)
BetweenSales(i) ==
  \A t \in Txns : reconciling[i][t].pc \in {"idle", "loaded", "reversalLoaded"}

StartRun(i, sales, pc) ==
  /\ \A t \in Txns : reconciling[i][t].pc = "idle"
  /\ reconciling' = [reconciling EXCEPT ![i] = [t \in Txns |->
       IF t \in sales THEN [pc |-> pc, mem |-> "NONE"] ELSE Unlisted]]

(* Variant: processing_started_at is not looked at. *)
StuckAtOnce(t) == state[t] = "PROCESSING"

(* PROCESSING for longer than ACQUIRER_STUCK_AFTER. *)
Stuck(t) ==
  /\ state[t] = "PROCESSING"
  /\ sale[t] \in {"idle"} \cup OutlivesStuckAfter

(* Variant: only the sales stuck in PROCESSING are listed. *)
FindStuck(i) ==
  /\ \E stuck \in SUBSET {t \in Txns : Stuck(t)} :
       stuck # {} /\ StartRun(i, stuck, "listed")
  /\ UNCHANGED <<db, sale, rejecting, reversal, bus, acquirer>>

(* FindUnresolved lists the ids. When a sale gets stuck is up to the clock. *)
FindUnresolved(i) ==
  /\ \E stuck \in SUBSET {t \in Txns : Stuck(t)} :
       LET unresolved == {t \in Txns : state[t] = "INDETERMINATE"} \cup stuck
       IN  unresolved # {} /\ StartRun(i, unresolved, "listed")
  /\ UNCHANGED <<db, sale, rejecting, reversal, bus, acquirer>>

(* FindPendingReversals lists the ids of those requested long enough ago. *)
FindPendingReversals(i) ==
  /\ \E pending \in SUBSET {t \in reversalRequested : state[t] = "APPROVED"} :
       pending # {} /\ StartRun(i, pending, "reversalListed")
  /\ UNCHANGED <<db, sale, rejecting, reversal, bus, acquirer>>

(* loadByIDs then loads each listed sale in a query of its own. *)
LoadListed(i, t) ==
  /\ \/ /\ reconciling[i][t].pc = "listed"
        /\ reconciling' = [reconciling EXCEPT ![i][t] =
                             [pc |-> "loaded", mem |-> state[t]]]
     \/ /\ reconciling[i][t].pc = "reversalListed"
        /\ reconciling' = [reconciling EXCEPT ![i][t] =
                             [pc |-> "reversalLoaded", mem |-> state[t]]]
  /\ UNCHANGED <<db, sale, rejecting, reversal, bus, acquirer>>

(* reconcile, first part: a sale loaded in PROCESSING becomes              *)
(* INDETERMINATE, so that a late answer can no longer be saved.            *)
TakeOver(i, t) ==
  /\ BetweenSales(i)
  /\ reconciling[i][t] = [pc |-> "loaded", mem |-> "PROCESSING"]
  /\ SaveIfState(t, "PROCESSING", "INDETERMINATE")
  /\ \/ /\ state[t] = "PROCESSING"
        /\ reconciling' = [reconciling EXCEPT ![i][t] =
                             [pc |-> "reverse", mem |-> "INDETERMINATE"]]
     \/ state[t] # "PROCESSING" /\ Drop(i, t)
  /\ UNCHANGED <<reversalRequested, processed, invalid, blocked, sale,
                 rejecting, reversal, bus, acquirer>>

(* reconcile, second part: the charge is reversed at the host. Afterwards  *)
(* the loaded copy must be able to become REJECTED; the answer may be lost.*)
ReverseUnresolved(i, t) ==
  /\ \/ reconciling[i][t].pc = "reverse"
     \/ /\ BetweenSales(i)
        /\ reconciling[i][t].pc = "loaded" /\ reconciling[i][t].mem # "PROCESSING"
  /\ HostReverses(t)
  /\ \/ /\ "REJECTED" \in CanTransitionTo(reconciling[i][t].mem)
        /\ MoveTo(i, t, "save")
     \/ Drop(i, t)
  /\ UNCHANGED <<db, sale, rejecting, reversal, bus, answer>>

(* Variant: the rejection is announced although it was not saved. *)
SaveRejectionAndAnnounce(i, t) ==
  /\ reconciling[i][t].pc = "save"
  /\ SaveIfState(t, "INDETERMINATE", "REJECTED")
  /\ MoveTo(i, t, "announce")
  /\ UNCHANGED <<reversalRequested, processed, invalid, blocked, sale,
                 rejecting, reversal, bus, acquirer>>

(* reconcile, third part: the sale is rejected with code TIMEOUT. *)
SaveRejection(i, t) ==
  /\ reconciling[i][t].pc = "save"
  /\ SaveIfState(t, "INDETERMINATE", "REJECTED")
  /\ \/ state[t] = "INDETERMINATE" /\ MoveTo(i, t, "announce")
     \/ state[t] # "INDETERMINATE" /\ Drop(i, t)
  /\ UNCHANGED <<reversalRequested, processed, invalid, blocked, sale,
                 rejecting, reversal, bus, acquirer>>

PublishRejection(i, t) ==
  /\ reconciling[i][t].pc = "announce"
  /\ published' = [published EXCEPT ![t] = @ \cup {"rejected"}]
  /\ Drop(i, t)
  /\ UNCHANGED <<db, sale, rejecting, reversal, fraudRequested, verdict,
                 acquirer>>

(* Variant: the reconciler reverses at the host and does not save it. *)
RetryReversalUnsaved(i, t) ==
  /\ BetweenSales(i)
  /\ reconciling[i][t].pc = "reversalLoaded"
  /\ HostReverses(t)
  /\ Drop(i, t)
  /\ UNCHANGED <<db, sale, rejecting, reversal, bus, answer>>

(* completeReversal, from the reconciler, on the copy it loaded.           *)
RetryReversal(i, t) ==
  /\ BetweenSales(i)
  /\ reconciling[i][t].pc = "reversalLoaded"
  /\ HostReverses(t)
  /\ \/ /\ "REVERSED" \in CanTransitionTo(reconciling[i][t].mem)
        /\ MoveTo(i, t, "reversalSave")
     \/ Drop(i, t)
  /\ UNCHANGED <<db, sale, rejecting, reversal, bus, answer>>

SaveRetriedReversal(i, t) ==
  /\ reconciling[i][t].pc = "reversalSave"
  /\ SaveIfState(t, "APPROVED", "REVERSED")
  /\ \/ state[t] = "APPROVED" /\ MoveTo(i, t, "reversalAnnounce")
     \/ state[t] # "APPROVED" /\ Drop(i, t)
  /\ UNCHANGED <<reversalRequested, processed, invalid, blocked, sale,
                 rejecting, reversal, bus, acquirer>>

PublishRetriedReversal(i, t) ==
  /\ reconciling[i][t].pc = "reversalAnnounce"
  /\ published' = [published EXCEPT ![t] = @ \cup {"reversed"}]
  /\ Drop(i, t)
  /\ UNCHANGED <<db, sale, rejecting, reversal, fraudRequested, verdict,
                 acquirer>>

(* One sale of the run fails and is left for the next run. *)
SkipSale(i, t) ==
  /\ reconciling[i][t].pc # "idle"
  /\ Drop(i, t)
  /\ UNCHANGED <<db, sale, rejecting, reversal, bus, acquirer>>

(* The process of reconciler i stops in the middle of a run. *)
ReconcilerStops(i) ==
  /\ \E t \in Txns : reconciling[i][t].pc # "idle"
  /\ reconciling' = [reconciling EXCEPT ![i] = [t \in Txns |-> Unlisted]]
  /\ UNCHANGED <<db, sale, rejecting, reversal, bus, acquirer>>

------------------------------------------------------------------------------
SaleStep(t) ==
  \/ PublishFraudCheckRequested(t) \/ SendAuthorization(t)
  \/ AuthorizationNotSent(t) \/ ReceiveApproval(t) \/ ReceiveRejection(t)
  \/ CallFails(t) \/ SaveResult(t) \/ PublishOutcome(t)

ReconcileStep(i, t) ==
  \/ LoadListed(i, t) \/ TakeOver(i, t) \/ ReverseUnresolved(i, t)
  \/ SaveRejection(i, t) \/ PublishRejection(i, t)
  \/ RetryReversal(i, t) \/ SaveRetriedReversal(i, t)
  \/ PublishRetriedReversal(i, t)

ReversalStep(r) ==
  ReverseAtHost(r) \/ SaveReversed(r) \/ PublishReversalCompleted(r)

Next ==
  \/ \E e \in Received : ReceiveTransaction(e) \/ RejectBlockedCard(e)
  \/ \E e \in Malformed :
       RejectInvalid(e) \/ PublishInvalidRejected(e) \/ AbandonInvalid(e)
  \/ PurgeInvalidRejections
  \/ \E s \in Scores : FraudAnswers(s) \/ ApplyFraudScore(s)
  \/ \E t \in Txns : SaleStep(t) \/ HostDecides(t) \/ AbandonSale(t)
  \/ \E r \in Reversals :
       ProcessReversal(r) \/ ReversalStep(r) \/ AbandonReversal(r)
  \/ \E i \in Reconcilers :
       \/ FindUnresolved(i) \/ FindPendingReversals(i) \/ ReconcilerStops(i)
       \/ \E t \in Txns : ReconcileStep(i, t) \/ SkipSale(i, t)

Spec == Init /\ [][Next]_vars
------------------------------------------------------------------------------
(* Safety.                                                                 *)

(* A malformed event and a well-formed one never carry the same sale. The  *)
(* terminal gateway can break this with two concurrent payments of one     *)
(* session: the malformed one may then be announced as rejected although   *)
(* the sale exists.                                                        *)
Unmixed == \A e \in Malformed, f \in Received \ Malformed : TxOf[e] # TxOf[f]

(* What the bus says of a sale is what the database holds: a sale          *)
(* announced as approved is APPROVED or was REVERSED afterwards, one       *)
(* announced as rejected is REJECTED (or never existed, its data being     *)
(* invalid), one announced as reversed is REVERSED. In particular no sale  *)
(* is announced both as approved and as rejected, whoever of the worker    *)
(* and the reconcilers wins the race for it.                               *)
PublishedOutcomeIsStored ==
  \A t \in Txns :
    /\ "approved" \in published[t] => state[t] \in {"APPROVED", "REVERSED"}
    /\ "rejected" \in published[t] =>
         \/ state[t] = "REJECTED"
         \/ state[t] = "NONE" /\ \E e \in Malformed : TxOf[e] = t
    /\ "reversed" \in published[t] => state[t] = "REVERSED"

(* The goroutines about to publish that sale t was approved, rejected or   *)
(* reversed.                                                               *)
Announcers(t, o) ==
  {<<"sale", u>> : u \in {v \in {t} :
     \/ o = "approved" /\ sale[v] = "announceApproved"
     \/ o = "rejected" /\ sale[v] = "announceRejected"}}
  \cup {<<"request", r>> : r \in {q \in Reversals :
     o = "reversed" /\ ReversalOf[q] = t /\ reversal[q] = "announce"}}
  \cup {<<"run", i>> : i \in {j \in Reconcilers :
     \/ o = "rejected" /\ reconciling[j][t].pc = "announce"
     \/ o = "reversed" /\ reconciling[j][t].pc = "reversalAnnounce"}}

(* Each outcome of a sale is published by one goroutine only, and never    *)
(* again once published, although several workers and reconcilers reverse  *)
(* the same sale at the host. Every publication has an event id of its     *)
(* own, so the idempotency of the consumers would not catch a second one.  *)
(* (The rejection of a malformed event is the exception, and no part of    *)
(* this: it is published again when its message is delivered again.)       *)
AnnouncedOnce ==
  \A t \in Txns, o \in {"approved", "rejected", "reversed"} :
    /\ \A a, b \in Announcers(t, o) : a = b
    /\ o \in published[t] => Announcers(t, o) = {}

(* Whom the issuer can charge for a sale that the system holds as rejected *)
(* or reversed. No worker is left that could still ask for it, and the     *)
(* issuer holds nothing, nor can a request on its way make it hold         *)
(* anything, except in one case: the sale was REJECTED after the host      *)
(* answered a reversal before it had read the request it was to undo. That *)
(* case is real, for the link does not wait for what it sent on another    *)
(* connection (NothingLeftToReverse of Iso8583Client); the property says   *)
(* that it is the only one, and that no announced reversal is of that      *)
(* kind. Holds as long as ACQUIRER_STUCK_AFTER outlasts the worker that    *)
(* carries the sale.                                                       *)
NoOrphanCharge ==
  \A t \in Txns : state[t] \in {"REJECTED", "REVERSED"} =>
    /\ sale[t] \notin {"queued", "waiting"}
    /\ charge[t] = "approved" \/ answer[t] = "sent" =>
         state[t] = "REJECTED" /\ t \in overtaken

(* Nobody gets goods for free: what an APPROVED sale charged is only given *)
(* back when the terminal asked for the reversal.                          *)
ApprovedIsCharged ==
  \A t \in Txns : state[t] = "APPROVED" =>
    charge[t] = "approved" \/ (charge[t] = "reversed" /\ t \in reversalRequested)

(* A reversal request whose event was consumed is not forgotten: if its    *)
(* sale is approved, then or later, the request is stored with it and the  *)
(* reconciler can find it, although requests that find the sale            *)
(* INDETERMINATE are consumed without storing anything.                    *)
ReversalNotForgotten ==
  \A r \in Reversals :
    r \in processed /\ state[ReversalOf[r]] = "APPROVED" =>
      ReversalOf[r] \in reversalRequested

(* No authorization leaves for the acquirer without a fraud score that let *)
(* the sale through and whose event was claimed for it.                    *)
AuthorizedAfterFraudCheck ==
  \A t \in Txns : answer[t] # "none" =>
    \E s \in Scores : ScoreOf[s] = t /\ verdict[s] = "APPROVE" /\ s \in processed

(* A card is on the blocklist only if its issuer ordered to retain it in   *)
(* answer to a sale: rejections of fraud, of the blocklist itself or of    *)
(* the reconciler never block a card.                                      *)
BlockedByIssuer ==
  \A c \in blocked : \E t \in Txns : CardOf[t] = c /\ answer[t] = "captured"

(* The acquirer is asked to authorize a sale at most once, whatever is     *)
(* delivered twice, scored twice or restarted.                             *)
AuthorizedOnce ==
  [][\A t \in Txns : answer'[t] = "sent" => answer[t] \in {"none", "sent"}]_answer

(* The rows follow the aggregate's state machine, although every goroutine *)
(* checks a transition on a copy that it loaded earlier: in particular an  *)
(* outcome is final, except that an approved sale can be reversed.         *)
RowsFollowStateMachine ==
  [][\A t \in Txns : state'[t] # state[t] =>
       state'[t] \in CanTransitionTo(state[t])]_state

(* The reconciler's reversals are of sales that were never announced as    *)
(* approved: the charge of a sale announced as approved is reversed only   *)
(* if a reversal was requested for it.                                     *)
ReconciledWasNeverApproved ==
  \A t \in Txns : "approved" \in published[t] /\ charge[t] = "reversed" =>
    t \in reversalRequested

(* The abstract specification of the context and how it is implemented. *)
OutcomeOf(s) ==
  CASE s \in {"FRAUD_CHECKING", "PROCESSING", "INDETERMINATE"} -> "open"
    [] s = "APPROVED" -> "approved"
    [] s = "REJECTED" -> "rejected"
    [] s = "REVERSED" -> "reversed"
    [] OTHER -> "none"

outcomeBar == [t \in Txns |-> OutcomeOf(state[t])]

SaleOutcome == INSTANCE SaleOutcome WITH outcome <- outcomeBar,
                                         announced <- published

(* Every step of the saga is a step of the abstract life of a sale. *)
ImplementsSaleOutcome == SaleOutcome!OutcomeSpec

------------------------------------------------------------------------------
(* Liveness.                                                               *)

(* What the code's scheduling gives. A goroutine that can take its next    *)
(* step takes it or ends: HostDecides and CallFails stand for the          *)
(* transport and for the timeout of the call. The reconciler is a ticker   *)
(* that never stops and starts again from the database, so it is assumed   *)
(* strongly fair: a host that is reachable again and again ends up         *)
(* answering one of its attempts, and runs are not interrupted for ever at *)
(* the same place. Deliveries are fair for NATS redelivers what was not    *)
(* acknowledged. Nothing is assumed of failures.                           *)
Fairness ==
  /\ \A e \in Received : WF_vars(ReceiveTransaction(e) \/ RejectBlockedCard(e))
  /\ \A s \in Scores : WF_vars(FraudAnswers(s)) /\ WF_vars(ApplyFraudScore(s))
  /\ \A t \in Txns : WF_vars(SaleStep(t)) /\ WF_vars(HostDecides(t))
  /\ \A r \in Reversals : WF_vars(ReversalStep(r))
  /\ \A i \in Reconcilers :
       /\ SF_vars(FindUnresolved(i)) /\ SF_vars(FindPendingReversals(i))
       /\ \A t \in Txns :
            /\ SF_vars(LoadListed(i, t)) /\ SF_vars(TakeOver(i, t))
            /\ SF_vars(ReverseUnresolved(i, t) /\ reconciling'[i][t].pc = "save")
            /\ SF_vars(ReverseUnresolved(i, t))
            /\ SF_vars(SaveRejection(i, t)) /\ SF_vars(PublishRejection(i, t))
            /\ SF_vars(RetryReversal(i, t) /\ reconciling'[i][t].pc = "reversalSave")
            /\ SF_vars(RetryReversal(i, t))
            /\ SF_vars(SaveRetriedReversal(i, t))
            /\ SF_vars(PublishRetriedReversal(i, t))

FairSpec == Spec /\ Fairness

(* No sale stays without a known result once it was sent to a worker, no   *)
(* matter where the worker died or what was lost.                          *)
UnresolvedIsResolved ==
  \A t \in Txns : state[t] \in {"PROCESSING", "INDETERMINATE"} ~>
                    state[t] \in {"APPROVED", "REJECTED", "REVERSED"}

(* A stored reversal request of an approved sale is carried out. *)
RequestedReversalIsDone ==
  \A t \in Txns : t \in reversalRequested /\ state[t] = "APPROVED" ~>
                    state[t] = "REVERSED"
==============================================================================
