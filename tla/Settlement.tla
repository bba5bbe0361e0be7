----------------------------- MODULE Settlement -----------------------------
(***************************************************************************)
(* The Settlement context: the batches of a terminal's day, the purchases  *)
(* and reversals registered in them, the reviews of the reversals that do  *)
(* not match their purchase, and the ways in which a batch is closed, sent *)
(* to the processor, disputed and settled.                                 *)
(*                                                                         *)
(* A batch is loaded, changed in memory and saved only if its version is   *)
(* still the loaded one. One step is one access to the database that       *)
(* another goroutine may see or be made to wait by: a query, the write     *)
(* that takes a row lock, the advisory lock that comes after it, the       *)
(* commit. What a transaction has written is seen by the others at its     *)
(* commit; its locks are read off the program counters. A goroutine may    *)
(* stop between any two steps, and its transaction is then rolled back.    *)
(*                                                                         *)
(* The processor is the external system that takes the batches: it accepts *)
(* what it is sent, or fails.                                              *)
(***************************************************************************)
EXTENDS Integers, FiniteSets, FiniteSetsExt

CONSTANTS
  Sales,                \* transaction ids
  Keys,                 \* a terminal, a business day and a currency
  MerchantOf, DayOf, CurrencyOf, \* of each key
  Batches, KeyOfBatch,  \* the ids the batches get, and the key of each
  Approvals,            \* auth.approved events
  Reversals,            \* reversal.completed events
  Recoveries,           \* the event ids of settlement-recover-reversals
  SaleOf, KeyOf, AmountOf, \* of each of those events
  Closes, KeyOfClose, TerminalTotals, \* batch.close-requested events
  Runs, RunDate,        \* auto-close jobs, and the day each runs for
  Operators,            \* operator requests that may be in course at a time
  MaxVersion            \* bound: nobody but the sales saves a batch beyond it

Registrations == Approvals \cup Reversals \cup Recoveries
Tasks == Closes \cup Runs \cup Operators

ASSUME SettlementAssumption ==
  /\ "none" \notin Batches
  /\ KeyOfBatch \in [Batches -> Keys]
  /\ SaleOf \in [Registrations -> Sales]
  /\ KeyOf \in [Registrations -> Keys]
  /\ AmountOf \in [Registrations -> Nat \ {0}]
  /\ KeyOfClose \in [Closes -> Keys]
  /\ TerminalTotals \in [Closes -> [count : Nat, amount : Int]]
  /\ MaxVersion \in Nat

BatchStates == {"NONE", "OPEN", "CLOSED", "SUBMITTED", "SETTLED", "DISPUTED"}

(* BatchState.CanTransitionTo. PENDING_CLOSE is only passed through in     *)
(* memory: RequestClose and Close follow each other.                       *)
CanTransitionTo(s) ==
  CASE s = "OPEN"      -> {"CLOSED"}
    [] s = "CLOSED"    -> {"SUBMITTED", "DISPUTED"}
    [] s = "SUBMITTED" -> {"SETTLED", "DISPUTED"}
    [] s = "DISPUTED"  -> {"SUBMITTED", "OPEN", "CLOSED"}
    [] OTHER           -> {}

Reasons == {"none", "PURCHASE_NOT_FOUND", "MERCHANT_MISMATCH",
            "CURRENCY_MISMATCH", "AMOUNT_MISMATCH"}

RegistrationPC == {"unlisted", "idle", "loaded", "saved", "reviewed"}

TaskPC == {"idle", "row", "loaded", "submit", "accepted",
           "settleSaved", "settleRead", "reviewLocked", "done"}

Operations == {"Close", "AutoClose", "ForceClose", "Resubmit", "Reopen",
               "ResolveDispute", "Settle", "ResolveReview"}

VARIABLES
  batch,      \* settlement_batches; state NONE while there is no row
  rows,       \* batch_transactions
  review,     \* reversal_reviews, by sale
  processed,  \* processed_events
  outbox,     \* every event put in the outbox
  audit,      \* batch_audit_log: what operators decided about each review
  accepted,   \* what the processor accepted: batch and totals
  reg,        \* the goroutine of each registration
  task        \* the goroutine of each close, auto-close and operator request

db == <<batch, rows, review, processed, outbox, audit>>
vars == <<batch, rows, review, processed, outbox, audit, accepted, reg, task>>

Types == {"PURCHASE", "REVERSAL"}
NoSummary == [count |-> -1, amount |-> 0]
Summaries == [count : Nat \cup {-1}, amount : Int]
Rows == [batch : Batches, sale : Sales, type : Types, amount : Nat]

(* What a goroutine holds of a batch it loaded: the row, its transactions, *)
(* whether reviews were open and whether the terminal's totals differ.     *)
Copies == [version : Nat, state : BatchStates, summary : Summaries,
           disputed : BOOLEAN, rows : SUBSET Rows, held : BOOLEAN,
           differs : BOOLEAN]
NoCopy == [version |-> 0, state |-> "NONE", summary |-> NoSummary,
           disputed |-> FALSE, rows |-> {}, held |-> FALSE, differs |-> FALSE]

NoBatch == [state |-> "NONE", version |-> 0, summary |-> NoSummary,
            disputed |-> FALSE]
NoReview == [status |-> "none", batch |-> "none", reason |-> "none",
             event |-> "none"]
Idle == [pc |-> "idle", op |-> "none", b |-> "none", sale |-> "none",
         copy |-> NoCopy]

TypeOK ==
  /\ batch \in [Batches -> [state : BatchStates, version : Nat,
                            summary : Summaries, disputed : BOOLEAN]]
  /\ \A r \in rows : r \in Rows
  /\ \A s \in Sales :
       /\ review[s].status \in {"none", "open", "resolved"}
       /\ review[s].batch \in Batches \cup {"none"}
       /\ review[s].reason \in Reasons
       /\ review[s].event \in Registrations \cup {"none"}
  /\ processed \subseteq Registrations \cup Closes \cup
                         (Batches \X {RunDate[t] : t \in Runs})
  /\ \A e \in Registrations :
       /\ reg[e].pc \in RegistrationPC
       /\ reg[e].b \in Batches \cup {"none"}
       /\ reg[e].seen \in Reasons
       /\ reg[e].copy.version \in Nat
  /\ \A t \in Tasks :
       /\ task[t].pc \in TaskPC
       /\ task[t].op \in Operations \cup {"none"}
       /\ task[t].b \in Batches \cup {"none"}
       /\ task[t].copy.version \in Nat
       /\ task[t].copy.state \in BatchStates

Init ==
  /\ batch = [b \in Batches |-> NoBatch]
  /\ rows = {}
  /\ review = [s \in Sales |-> NoReview]
  /\ processed = {}
  /\ outbox = {}
  /\ audit = {}
  /\ accepted = {}
  /\ reg = [e \in Registrations |->
              [pc |-> IF e \in Recoveries THEN "unlisted" ELSE "idle",
               b |-> "none", seen |-> "none", copy |-> NoCopy]]
  /\ task = [t \in Tasks |-> Idle]

------------------------------------------------------------------------------
(* The tables.                                                             *)

RowsOf(b) == {r \in rows : r.batch = b}

(* calculateSummary: a reversal counts as a transaction and its amount is  *)
(* taken off.                                                              *)
calculateSummary(rs) ==
  [count  |-> Cardinality(rs),
   amount |-> MapThenSumSet(LAMBDA r : IF r.type = "PURCHASE"
                                       THEN r.amount ELSE -r.amount, rs)]

OpenOf(k) == {b \in Batches : KeyOfBatch[b] = k /\ batch[b].state = "OPEN"}

(* CountOpenReversalReviews > 0. *)
openReviews(b) == \E s \in Sales : review[s].status = "open" /\ review[s].batch = b

(* ClosedTotalsForTerminalDay: what the other batches of the terminal, day *)
(* and currency were closed with. A disputed batch does not count.         *)
ClosedTotalsForTerminalDay(b) ==
  LET closed == {c \in Batches \ {b} :
                   /\ KeyOfBatch[c] = KeyOfBatch[b]
                   /\ batch[c].state \in {"CLOSED", "SUBMITTED", "SETTLED"}}
  IN [count  |-> MapThenSumSet(LAMBDA c : batch[c].summary.count, closed),
      amount |-> MapThenSumSet(LAMBDA c : batch[c].summary.amount, closed)]

(* The row of a batch, as a query reads it before its transactions.        *)
RowCopy(b) == [NoCopy EXCEPT !.version = batch[b].version,
                             !.state = batch[b].state,
                             !.summary = batch[b].summary,
                             !.disputed = batch[b].disputed]

FullCopy(b) == [RowCopy(b) EXCEPT !.rows = RowsOf(b)]

(* A transaction holds the row of the batch from its UPDATE or its FOR     *)
(* UPDATE until it ends.                                                   *)
Unlocked(b) ==
  /\ \A e \in Registrations :
       ~(reg[e].pc \in {"saved", "reviewed"} /\ reg[e].b = b)
  /\ \A t \in Tasks :
       ~(task[t].pc \in {"settleSaved", "settleRead", "reviewLocked"} /\ task[t].b = b)

(* INSERT ... ON CONFLICT (transaction_id, tx_type) DO NOTHING, for every  *)
(* transaction the goroutine has in memory.                                *)
InsertMissing(rs) ==
  rows \cup {r \in rs : ~\E q \in rows : q.sale = r.sale /\ q.type = r.type}

(* Variant: the UPDATE does not compare the version. *)
AnyVersion(b, copy) == TRUE

(* WHERE settlement_batches.version = EXCLUDED.version - 1. *)
VersionMatches(b, copy) == batch[b].version = copy.version

(* SaveTx: the UPDATE applies only to the version that was loaded, and the *)
(* transactions in memory that the table does not have are inserted.       *)
SaveTx(b, copy, new, rs) ==
  /\ VersionMatches(b, copy)
  /\ batch' = [batch EXCEPT ![b] =
       [state |-> new.state, version |-> copy.version + 1,
        summary |-> new.summary, disputed |-> new.disputed]]
  /\ rows' = InsertMissing(rs)

------------------------------------------------------------------------------
(* Purchases and reversals.                                                *)

(* The handlers of auth.approved and reversal.completed: the transaction   *)
(* an event asks to register in batch b.                                   *)
TransactionOf(e, b) ==
  [batch |-> b, sale |-> SaleOf[e], amount |-> AmountOf[e],
   type |-> IF e \in Approvals THEN "PURCHASE" ELSE "REVERSAL"]

(* What two rows are compared by: the merchant, the currency, the amount.   *)
TermsOf(e) == [merchant |-> MerchantOf[KeyOf[e]],
               currency |-> CurrencyOf[KeyOf[e]],
               amount   |-> AmountOf[e]]

TermsOfRow(r) == [merchant |-> MerchantOf[KeyOfBatch[r.batch]],
                  currency |-> CurrencyOf[KeyOfBatch[r.batch]],
                  amount   |-> r.amount]

(* reversalMismatch. *)
reversalMismatch(purchase, reversal) ==
  IF purchase.merchant # reversal.merchant THEN "MERCHANT_MISMATCH"
  ELSE IF purchase.currency # reversal.currency THEN "CURRENCY_MISMATCH"
  ELSE IF purchase.amount # reversal.amount THEN "AMOUNT_MISMATCH"
  ELSE "none"

Recorded(s, type) == {r \in rows : r.sale = s /\ r.type = type}

(* FindUnrecordedReversals: of the sales that Authorization reversed, the   *)
(* ones that have a purchase and no reversal here.                         *)
FindUnrecordedReversals ==
  {s \in Sales : Recorded(s, "PURCHASE") # {} /\ Recorded(s, "REVERSAL") = {}}

(* The recovery command lists them once and registers them one by one.     *)
RecoverReversals(e) ==
  /\ reg[e].pc = "unlisted"
  /\ SaleOf[e] \in FindUnrecordedReversals
  /\ reg' = [reg EXCEPT ![e].pc = "idle"]
  /\ UNCHANGED <<db, accepted, task>>

(* FindOrCreateOpen, in a transaction of its own that commits before the   *)
(* one of the handler goes on. It locks the row while it loads the batch,  *)
(* so row and transactions are of the same moment.                         *)
FindOrCreateOpen(e) ==
  /\ reg[e].pc = "idle"
  /\ e \notin processed
  /\ \/ \E b \in OpenOf(KeyOf[e]) :
          /\ Unlocked(b)
          /\ reg' = [reg EXCEPT ![e].pc = "loaded", ![e].b = b,
                                ![e].copy = FullCopy(b)]
          /\ UNCHANGED batch
     \/ /\ OpenOf(KeyOf[e]) = {}
        /\ \E b \in Batches :
             /\ KeyOfBatch[b] = KeyOf[e]
             /\ batch[b].state = "NONE"
             /\ batch' = [batch EXCEPT ![b].state = "OPEN"]
             /\ reg' = [reg EXCEPT ![e].pc = "loaded", ![e].b = b,
                          ![e].copy = [NoCopy EXCEPT !.state = "OPEN"]]
  /\ UNCHANGED <<rows, review, processed, outbox, audit, accepted, task>>

Restarted(e) == [reg[e] EXCEPT !.pc = "idle", !.b = "none", !.seen = "none",
                               !.copy = NoCopy]

(* The UPDATE of SaveTx takes the row. With another version, the handler   *)
(* rolls back and starts again: retryOnStale.                              *)
SaveRegistration(e) ==
  /\ reg[e].pc = "loaded"
  /\ Unlocked(reg[e].b)
  /\ reg' = [reg EXCEPT ![e] =
               IF VersionMatches(reg[e].b, reg[e].copy)
               THEN [@ EXCEPT !.pc = "saved"] ELSE Restarted(e)]
  /\ UNCHANGED <<db, accepted, task>>

(* Variant: the purchase and the reversal of a sale do not exclude each    *)
(* other.                                                                  *)
PairNeverLocked(s) == FALSE

(* The advisory lock of a sale is held by one transaction at a time. *)
PairLocked(s) == \E e \in Registrations : reg[e].pc = "reviewed" /\ SaleOf[e] = s

(* Who registers a purchase looks for the open review of a reversal that   *)
(* was waiting for it; who registers a reversal looks for its purchase.    *)
(* Each sees what was committed when it looks.                             *)
SeenBy(e) ==
  LET s == SaleOf[e]
      purchases == Recorded(s, "PURCHASE")
  IN IF e \in Approvals
     THEN IF review[s].status = "open" /\ review[s].reason = "PURCHASE_NOT_FOUND"
          THEN "PURCHASE_NOT_FOUND" ELSE "none"
     ELSE IF purchases = {} THEN "PURCHASE_NOT_FOUND"
     ELSE LET p == CHOOSE r \in purchases : TRUE
          IN reversalMismatch(TermsOfRow(p), TermsOf(e))

(* lockReversalPair, and the query of ReconcileReversalReviewTx or of      *)
(* FindPurchaseTx.                                                         *)
LockReversalPair(e) ==
  /\ reg[e].pc = "saved"
  /\ ~PairLocked(SaleOf[e])
  /\ reg' = [reg EXCEPT ![e].pc = "reviewed", ![e].seen = SeenBy(e)]
  /\ UNCHANGED <<db, accepted, task>>

(* Variant: the purchase that arrives late closes the review whatever it   *)
(* says.                                                                   *)
ReconcileWithoutComparing(e) ==
  IF reg[e].seen = "none" THEN review
  ELSE [review EXCEPT ![SaleOf[e]].status = "resolved"]

(* ReconcileReversalReviewTx: the purchase arrived after its reversal. If  *)
(* they match, the review is closed; if not, it stays open with the reason.*)
(* The row to update was found when the query began: an operator who was   *)
(* closing the review at that moment is waited for, and overwritten.       *)
ReconcileReversalReview(e) ==
  LET s == SaleOf[e]
      mismatch == reversalMismatch(TermsOf(e), TermsOf(review[s].event))
  IN IF reg[e].seen = "none" THEN review
     ELSE IF mismatch = "none" THEN [review EXCEPT ![s].status = "resolved"]
     ELSE [review EXCEPT ![s].status = "open", ![s].reason = mismatch]

(* InsertReversalReviewTx: ON CONFLICT (transaction_id) DO NOTHING. *)
InsertReversalReview(e) ==
  LET s == SaleOf[e]
  IN IF reg[e].seen = "none" \/ review[s].status # "none" THEN review
     ELSE [review EXCEPT ![s] = [status |-> "open", batch |-> reg[e].b,
                                 reason |-> reg[e].seen, event |-> e]]

(* An operator holds the row of a review from LockReversalReviewTx on. *)
ReviewLocked(s) ==
  \E o \in Operators : task[o].pc = "reviewLocked" /\ task[o].sale = s

(* RegisterApproval and RegisterReversal commit: the claim of the event,   *)
(* the batch, the transaction and the review, together.                    *)
CommitRegistration(e) ==
  LET b == reg[e].b IN
  /\ reg[e].pc = "reviewed"
  /\ e \in Approvals /\ reg[e].seen # "none" => ~ReviewLocked(SaleOf[e])
  /\ SaveTx(b, reg[e].copy, reg[e].copy, reg[e].copy.rows \cup {TransactionOf(e, b)})
  /\ review' = IF e \in Approvals THEN ReconcileReversalReview(e)
                                  ELSE InsertReversalReview(e)
  /\ processed' = processed \cup {e}
  /\ reg' = [reg EXCEPT ![e] = Restarted(e)]
  /\ UNCHANGED <<outbox, audit, accepted, task>>

(* The handler ends and its transaction is rolled back; its message is     *)
(* delivered again, or not.                                                *)
AbandonRegistration(e) ==
  /\ reg[e].pc \in {"loaded", "saved", "reviewed"}
  /\ reg' = [reg EXCEPT ![e] = Restarted(e)]
  /\ UNCHANGED <<db, accepted, task>>

------------------------------------------------------------------------------
(* Loading a batch to change it: FindByID and FindOpenByTerminal read the  *)
(* row and then, in another query, its transactions.                       *)

Batch(t) == task[t].b
Copy(t) == task[t].copy

ReadRow(t, op, b) ==
  task' = [task EXCEPT ![t] = [Idle EXCEPT !.pc = "row", !.op = op, !.b = b,
                                           !.copy = RowCopy(b)]]

Ended(t) == task' = [task EXCEPT ![t] = [Idle EXCEPT !.pc = IF t \in Operators
                                                            THEN "idle" ELSE "done"]]

Restart(t) == task' = [task EXCEPT ![t] = Idle]

(* FindOpenByTerminal for a batch.close-requested. Without an open batch   *)
(* the message is acknowledged and nothing is claimed.                     *)
FindOpenByTerminal(c) ==
  /\ task[c].pc = "idle"
  /\ \/ \E b \in OpenOf(KeyOfClose[c]) : ReadRow(c, "Close", b)
     \/ OpenOf(KeyOfClose[c]) = {} /\ Ended(c)
  /\ UNCHANGED <<db, accepted, reg>>

(* CloseStaleBatches goes over the open batches it listed: by the time it  *)
(* loads one, the batch may no longer be open.                             *)
FindStaleOpen(t) ==
  /\ task[t].pc = "idle"
  /\ \/ \E b \in Batches : batch[b].state = "OPEN" /\ ReadRow(t, "AutoClose", b)
     \/ Ended(t)
  /\ UNCHANGED <<db, accepted, reg>>

(* The state in which an operator's request finds the batch, or is         *)
(* refused.                                                                *)
RequiredState(op) ==
  CASE op = "ForceClose"                   -> "OPEN"
    [] op = "Resubmit"                     -> "CLOSED"
    [] op \in {"Reopen", "ResolveDispute"} -> "DISPUTED"
    [] op = "Settle"                       -> "SUBMITTED"

(* An operator's request reads the row of its batch. *)
FindByID(o) ==
  /\ task[o].pc = "idle"
  /\ \E b \in Batches, op \in {"ForceClose", "Resubmit", "Reopen",
                               "ResolveDispute", "Settle"} :
       /\ batch[b].version < MaxVersion
       /\ batch[b].state = RequiredState(op)
       /\ ReadRow(o, op, b)
  /\ UNCHANGED <<db, accepted, reg>>

(* pendingTerminalTotals and the comparison of Close: the terminal says    *)
(* what this batch has, or that and what the batches already closed have.  *)
TerminalDiffers(c, rs) ==
  LET own   == calculateSummary(rs)
      prior == ClosedTotalsForTerminalDay(Batch(c))
      said  == TerminalTotals[c]
  IN /\ said # own
     /\ ~(/\ prior.count > 0
          /\ said = [count  |-> own.count + prior.count,
                     amount |-> own.amount + prior.amount])

(* loadTransactions, then the totals of the day for a close, then the      *)
(* reviews. They are three queries and one step: what they read of this    *)
(* batch cannot change unless its version does.                            *)
LoadTransactions(t) ==
  /\ task[t].pc = "row"
  /\ task' = [task EXCEPT ![t].pc = "loaded",
               ![t].copy.rows = RowsOf(Batch(t)),
               ![t].copy.held = openReviews(Batch(t)),
               ![t].copy.differs = task[t].op = "Close"
                                   /\ TerminalDiffers(t, RowsOf(Batch(t)))]
  /\ UNCHANGED <<db, accepted, reg>>

(* The save failed because the version is another: a close starts again,   *)
(* an automatic close leaves the batch for the next run, an operator gets  *)
(* an error. So does a goroutine that ends.                                *)
Stale(t) ==
  /\ task[t].pc = "loaded"
  /\ Unlocked(Batch(t))
  /\ ~VersionMatches(Batch(t), Copy(t))
  /\ IF t \in Closes THEN Restart(t) ELSE Ended(t)
  /\ UNCHANGED <<db, accepted, reg>>

(* A goroutine ends where it is. A close request that had not committed is *)
(* delivered again; one that had is delivered again if the processor or    *)
(* the save after it failed, and finds its event claimed.                  *)
AbandonTask(t) ==
  /\ task[t].pc \notin {"idle", "done"}
  /\ IF t \in Closes THEN Restart(t) ELSE Ended(t)
  /\ UNCHANGED <<db, accepted, reg>>

------------------------------------------------------------------------------
(* Closing a batch.                                                        *)

(* Variant: the batch is saved between RequestClose and Close. *)
ClosePending(copy, disputed) ==
  [state |-> "PENDING_CLOSE", summary |-> copy.summary, disputed |-> disputed]

(* What Close and MarkDisputed leave of a batch. *)
Closed(copy, disputed) ==
  [state    |-> IF disputed \/ copy.held THEN "DISPUTED" ELSE "CLOSED",
   summary  |-> calculateSummary(copy.rows),
   disputed |-> disputed]

(* enqueueBatchClosed. *)
BatchClosed(b, summary) == [type |-> "batch-closed", about |-> b, totals |-> summary]

(* After the commit, a closed batch goes on to the processor. The version  *)
(* in memory is the one just written: MarkPersisted.                       *)
Saved(t, new, pc) ==
  task' = [task EXCEPT ![t].pc = pc, ![t].copy =
            [Copy(t) EXCEPT !.version = Copy(t).version + 1, !.state = new.state,
                            !.summary = new.summary, !.disputed = new.disputed]]

(* ProcessBatchClose commits: the claim of the request, the batch and the  *)
(* event that announces it.                                                *)
CommitClose(c) ==
  LET new == Closed(Copy(c), Copy(c).differs) IN
  /\ task[c].pc = "loaded" /\ task[c].op = "Close"
  /\ c \notin processed
  /\ Unlocked(Batch(c))
  /\ SaveTx(Batch(c), Copy(c), new, Copy(c).rows)
  /\ processed' = processed \cup {c}
  /\ outbox' = outbox \cup {BatchClosed(Batch(c), new.summary)}
  /\ IF new.state = "CLOSED" THEN Saved(c, new, "submit") ELSE Ended(c)
  /\ UNCHANGED <<review, audit, accepted, reg>>

(* The request was claimed by an earlier delivery. *)
CloseAlreadyProcessed(c) ==
  /\ task[c].pc = "loaded"
  /\ c \in processed
  /\ Ended(c)
  /\ UNCHANGED <<db, accepted, reg>>

AutoCloseEvent(t) == <<Batch(t), RunDate[t]>>

(* Variant: the automatic close does not look at the reviews. *)
CommitAutoCloseUnreviewed(t) ==
  LET new == [Closed(Copy(t), FALSE) EXCEPT !.state = "CLOSED"] IN
  /\ task[t].pc = "loaded" /\ task[t].op = "AutoClose"
  /\ AutoCloseEvent(t) \notin processed
  /\ Unlocked(Batch(t))
  /\ SaveTx(Batch(t), Copy(t), new, Copy(t).rows)
  /\ processed' = processed \cup {AutoCloseEvent(t)}
  /\ outbox' = outbox \cup {BatchClosed(Batch(t), new.summary)}
  /\ Saved(t, new, "submit")
  /\ UNCHANGED <<review, audit, accepted, reg>>

(* autoCloseBatch commits: with the totals of the backend, under an event  *)
(* id that is the same for every instance that runs the job that day. An   *)
(* empty batch is neither announced nor sent.                              *)
CommitAutoClose(t) ==
  LET new == Closed(Copy(t), FALSE) IN
  /\ task[t].pc = "loaded" /\ task[t].op = "AutoClose"
  /\ AutoCloseEvent(t) \notin processed
  /\ Unlocked(Batch(t))
  /\ SaveTx(Batch(t), Copy(t), new, Copy(t).rows)
  /\ processed' = processed \cup {AutoCloseEvent(t)}
  /\ outbox' = outbox \cup {BatchClosed(Batch(t), new.summary) : r \in Copy(t).rows}
  /\ IF new.state = "CLOSED" /\ Copy(t).rows # {} THEN Saved(t, new, "submit") ELSE Ended(t)
  /\ UNCHANGED <<review, audit, accepted, reg>>

(* The batch was closed that day and reopened: this run does not touch it. *)
AutoCloseAlreadyProcessed(t) ==
  /\ task[t].pc = "loaded"
  /\ AutoCloseEvent(t) \in processed
  /\ Ended(t)
  /\ UNCHANGED <<db, accepted, reg>>

------------------------------------------------------------------------------
(* The processor.                                                          *)

(* submitToProcessor: the batch is accepted. An error, or no processor,    *)
(* is AbandonTask.                                                         *)
SubmitToProcessor(t) ==
  /\ task[t].pc = "submit"
  /\ accepted' = accepted \cup {[batch |-> Batch(t), totals |-> Copy(t).summary]}
  /\ task' = [task EXCEPT ![t].pc = "accepted"]
  /\ UNCHANGED <<db, reg>>

(* Submit and the save that follows, which may find another version: the   *)
(* batch stays CLOSED although the processor has it.                       *)
SaveSubmitted(t) ==
  LET new == [Copy(t) EXCEPT !.state = "SUBMITTED"] IN
  /\ task[t].pc = "accepted"
  /\ Unlocked(Batch(t))
  /\ IF VersionMatches(Batch(t), Copy(t))
     THEN SaveTx(Batch(t), Copy(t), new, Copy(t).rows)
     ELSE UNCHANGED <<batch, rows>>
  /\ Ended(t)
  /\ UNCHANGED <<review, processed, outbox, audit, accepted, reg>>

------------------------------------------------------------------------------
(* The operators.                                                          *)

(* persist, for a request that ends with it: the batch and its audit in    *)
(* one transaction.                                                        *)
Persist(o, op, new) ==
  /\ task[o].pc = "loaded" /\ task[o].op = op
  /\ Unlocked(Batch(o))
  /\ SaveTx(Batch(o), Copy(o), new, Copy(o).rows)
  /\ UNCHANGED <<review, processed, audit, accepted, reg>>

(* ForceClose: the totals of the backend, whatever the reviews say. It     *)
(* does not send the batch.                                                *)
ForceClose(o) ==
  LET new == [Closed(Copy(o), FALSE) EXCEPT !.state = "CLOSED"] IN
  /\ Persist(o, "ForceClose", new)
  /\ outbox' = outbox \cup {BatchClosed(Batch(o), new.summary) : r \in Copy(o).rows}
  /\ Ended(o)

(* ResubmitBatch with discrepancies or reversals under review. *)
BlockResubmit(o) ==
  /\ Copy(o).disputed \/ Copy(o).held
  /\ Persist(o, "Resubmit", [Copy(o) EXCEPT !.state = "DISPUTED"])
  /\ Ended(o)
  /\ UNCHANGED outbox

(* ResubmitBatch otherwise: it goes to the processor without saving. *)
ResubmitBatch(o) ==
  /\ task[o].pc = "loaded" /\ task[o].op = "Resubmit"
  /\ ~Copy(o).disputed /\ ~Copy(o).held
  /\ task' = [task EXCEPT ![o].pc = "submit"]
  /\ UNCHANGED <<db, accepted, reg>>

(* ReopenBatch: refused if the terminal has another open batch, by the     *)
(* query or by the unique index.                                           *)
ReopenBatch(o) ==
  /\ Persist(o, "Reopen", [state |-> "OPEN", summary |-> NoSummary, disputed |-> FALSE])
  /\ OpenOf(KeyOfBatch[Batch(o)]) = {}
  /\ Ended(o)
  /\ UNCHANGED outbox

(* ResolveDispute: the totals of the backend are accepted, calculated      *)
(* again, unless a reversal is under review. Nothing is announced.         *)
ResolveDispute(o) ==
  /\ ~Copy(o).held
  /\ Persist(o, "ResolveDispute",
             [state |-> "CLOSED", summary |-> calculateSummary(Copy(o).rows),
              disputed |-> FALSE])
  /\ Ended(o)
  /\ UNCHANGED outbox

(* SettleBatch takes the row of the batch. *)
SaveSettled(o) ==
  /\ task[o].pc = "loaded" /\ task[o].op = "Settle"
  /\ Unlocked(Batch(o))
  /\ VersionMatches(Batch(o), Copy(o))
  /\ task' = [task EXCEPT ![o].pc = "settleSaved"]
  /\ UNCHANGED <<db, accepted, reg>>

MerchantDay(b) == <<MerchantOf[KeyOfBatch[b]], DayOf[KeyOfBatch[b]]>>

(* Variant: those who settle the same merchant and day do not wait for     *)
(* each other.                                                             *)
MerchantDayNeverLocked(b) == FALSE

(* The advisory lock of a merchant and day. *)
MerchantDayLocked(b) ==
  \E o \in Operators : task[o].pc = "settleRead" /\ MerchantDay(task[o].b) = MerchantDay(b)

(* MerchantDayBatchesTx: the batches with transactions of the merchant and *)
(* the day, as this transaction sees them: its own batch is settled. What  *)
(* it takes of them is whether all are settled.                            *)
MerchantDayBatches(o) ==
  {b \in Batches : MerchantDay(b) = MerchantDay(Batch(o)) /\ RowsOf(b) # {}}

LockMerchantDay(o) ==
  /\ task[o].pc = "settleSaved"
  /\ ~MerchantDayLocked(Batch(o))
  /\ task' = [task EXCEPT ![o].pc = "settleRead", ![o].copy.held =
               \A b \in MerchantDayBatches(o) \ {Batch(o)} : batch[b].state = "SETTLED"]
  /\ UNCHANGED <<db, accepted, reg>>

(* enqueueCompletedIfDone: one event for each currency, with how many      *)
(* batches it covers and what they add up to: here, the batches. They were *)
(* settled when they were read and do not change any more.                 *)
SettlementCompleted(o) ==
  LET settled == {b \in MerchantDayBatches(o) :
                    b = Batch(o) \/ batch[b].state = "SETTLED"}
      InCurrency(cur) == {b \in settled : CurrencyOf[KeyOfBatch[b]] = cur}
  IN {[type |-> "settlement-completed", about |-> MerchantDay(Batch(o)),
       batches |-> InCurrency(CurrencyOf[KeyOfBatch[b]])] : b \in settled}

(* SettleBatch commits. *)
CommitSettled(o) ==
  /\ task[o].pc = "settleRead"
  /\ SaveTx(Batch(o), Copy(o), [Copy(o) EXCEPT !.state = "SETTLED"], Copy(o).rows)
  /\ outbox' = IF Copy(o).held THEN outbox \cup SettlementCompleted(o) ELSE outbox
  /\ Ended(o)
  /\ UNCHANGED <<review, processed, audit, accepted, reg>>

------------------------------------------------------------------------------
(* The reviews.                                                            *)

(* LockReversalReviewTx: the batch of the review, then the review, which   *)
(* must be open. A purchase that found the review open holds its row.      *)
LockReversalReview(o) ==
  /\ task[o].pc = "idle"
  /\ \E s \in Sales :
       /\ review[s].status = "open"
       /\ Unlocked(review[s].batch)
       /\ ~\E e \in Approvals : SaleOf[e] = s /\ reg[e].pc = "reviewed"
                                /\ reg[e].seen # "none"
       /\ batch[review[s].batch].version < MaxVersion
       /\ task' = [task EXCEPT ![o] = [Idle EXCEPT !.pc = "reviewLocked",
                     !.op = "ResolveReview", !.b = review[s].batch, !.sale = s]]
  /\ UNCHANGED <<db, accepted, reg>>

ReversalOf(o) == {r \in RowsOf(Batch(o)) : r.sale = task[o].sale /\ r.type = "REVERSAL"}

(* CloseReversalReviewTx and InsertAuditTx. *)
CloseReversalReview(o, action) ==
  /\ review' = [review EXCEPT ![task[o].sale].status = "resolved"]
  /\ audit' = audit \cup {[sale |-> task[o].sale, action |-> action]}

AcceptReversal(o) ==
  /\ task[o].pc = "reviewLocked"
  /\ CloseReversalReview(o, "ACCEPT")
  /\ Ended(o)
  /\ UNCHANGED <<batch, rows, processed, outbox, accepted, reg>>

(* bumpBatchVersion. *)
BumpBatchVersion(b) == batch' = [batch EXCEPT ![b].version = @ + 1]

(* DeleteReversalTx, for a batch that was not sent. *)
ExcludeReversal(o) ==
  /\ task[o].pc = "reviewLocked"
  /\ batch[Batch(o)].state \in {"OPEN", "DISPUTED"}
  /\ ReversalOf(o) # {}
  /\ rows' = rows \ ReversalOf(o)
  /\ BumpBatchVersion(Batch(o))
  /\ CloseReversalReview(o, "EXCLUDE")
  /\ Ended(o)
  /\ UNCHANGED <<processed, outbox, accepted, reg>>

(* UpdateReversalAmountTx: the reversal takes the amount of its purchase.  *)
UsePurchaseAmount(o) ==
  /\ task[o].pc = "reviewLocked"
  /\ batch[Batch(o)].state \in {"OPEN", "DISPUTED"}
  /\ review[task[o].sale].reason = "AMOUNT_MISMATCH"
  /\ ReversalOf(o) # {}
  /\ \E p \in Recorded(task[o].sale, "PURCHASE") :
       rows' = (rows \ ReversalOf(o)) \cup
                 {[r EXCEPT !.amount = p.amount] : r \in ReversalOf(o)}
  /\ BumpBatchVersion(Batch(o))
  /\ CloseReversalReview(o, "USE_PURCHASE_AMOUNT")
  /\ Ended(o)
  /\ UNCHANGED <<processed, outbox, accepted, reg>>

------------------------------------------------------------------------------
Register ==
  \/ \E e \in Recoveries : RecoverReversals(e)
  \/ \E e \in Registrations :
       \/ FindOrCreateOpen(e) \/ SaveRegistration(e) \/ LockReversalPair(e)
       \/ CommitRegistration(e) \/ AbandonRegistration(e)

Close ==
  \/ \E c \in Closes :
       FindOpenByTerminal(c) \/ CommitClose(c) \/ CloseAlreadyProcessed(c)
  \/ \E t \in Runs :
       FindStaleOpen(t) \/ CommitAutoClose(t) \/ AutoCloseAlreadyProcessed(t)

Operate ==
  \E o \in Operators :
    \/ FindByID(o) \/ ForceClose(o) \/ BlockResubmit(o) \/ ResubmitBatch(o)
    \/ ReopenBatch(o) \/ ResolveDispute(o)
    \/ SaveSettled(o) \/ LockMerchantDay(o) \/ CommitSettled(o)
    \/ LockReversalReview(o) \/ AcceptReversal(o) \/ ExcludeReversal(o)
    \/ UsePurchaseAmount(o)

Proceed ==
  \E t \in Tasks :
    LoadTransactions(t) \/ Stale(t) \/ SubmitToProcessor(t) \/ SaveSubmitted(t)
    \/ AbandonTask(t)

Next == Register \/ Close \/ Operate \/ Proceed

Spec == Init /\ [][Next]_vars

------------------------------------------------------------------------------
(* Properties.                                                             *)

(* A batch that was closed has the totals of its transactions: a sale or a *)
(* correction that gets in while it is being closed is either in both or   *)
(* in neither. The processor accepted those totals of a batch that says it *)
(* was sent, whatever was sent before or again; and who is about to send a *)
(* batch, or has sent it, has them, unless the batch was saved since.      *)
TotalsAreOfTheRows ==
  /\ \A b \in Batches :
       LET totals == calculateSummary(RowsOf(b))
       IN  /\ batch[b].state \in {"CLOSED", "SUBMITTED", "SETTLED"} =>
                batch[b].summary = totals
           /\ batch[b].state \in {"SUBMITTED", "SETTLED"} =>
                [batch |-> b, totals |-> totals] \in accepted
  /\ \A t \in Tasks :
       /\ task[t].pc \in {"submit", "accepted"}
       /\ batch[Batch(t)].version = Copy(t).version
       => Copy(t).summary = calculateSummary(RowsOf(Batch(t)))

(* A reversal does not go on waiting for a purchase that is registered.    *)
NoReversalWaitsForItsPurchase ==
  \A s \in Sales :
    review[s].status = "open" /\ review[s].reason = "PURCHASE_NOT_FOUND" =>
      Recorded(s, "PURCHASE") = {}

(* A reversal that does not match its purchase is under review, or an      *)
(* operator decided about it.                                              *)
MismatchIsReviewed ==
  \A p, r \in rows :
    /\ p.type = "PURCHASE" /\ r.type = "REVERSAL" /\ p.sale = r.sale
    /\ TermsOfRow(p) # TermsOfRow(r)
    => \/ review[r.sale].status = "open"
       \/ \E a \in audit : a.sale = r.sale

(* What the processor takes has no reversal under review, except those     *)
(* about which an operator had already decided; unless the batch was saved *)
(* after who sends it had read it.                                         *)
OnlyReviewedIsSent ==
  [][\A t \in Tasks, s \in Sales :
       /\ task[t].pc = "submit" /\ task'[t].pc = "accepted"
       /\ batch[Batch(t)].version = Copy(t).version
       /\ review[s].status = "open" /\ review[s].batch = Batch(t)
       => \E a \in audit : a.sale = s]_vars

(* Once every batch of a merchant's day is settled, or never had a         *)
(* transaction, the day was announced with all of them: the last two       *)
(* batches that are settled at once do not each leave it to the other.     *)
SettledDayIsAnnounced ==
  \A b \in Batches :
    /\ batch[b].state = "SETTLED" /\ RowsOf(b) # {}
    /\ \A c \in Batches :
         MerchantDay(c) = MerchantDay(b) =>
           \/ batch[c].state = "SETTLED"
           \/ RowsOf(c) = {} /\ \A s \in Sales : review[s].batch # c
    => [type |-> "settlement-completed", about |-> MerchantDay(b),
        batches |-> {c \in Batches : /\ MerchantDay(c) = MerchantDay(b)
                                     /\ CurrencyOf[KeyOfBatch[c]] = CurrencyOf[KeyOfBatch[b]]
                                     /\ RowsOf(c) # {}}] \in outbox
==============================================================================
