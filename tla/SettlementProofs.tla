--------------------------- MODULE SettlementProofs ---------------------------
(***************************************************************************)
(* A reversal and its purchase are matched whichever of them is registered *)
(* first; a batch is closed, sent and settled with the totals of its       *)
(* transactions and without a reversal under review; and the day of a      *)
(* merchant is announced when the last of its batches is settled: for any  *)
(* number of sales, batches, events, deliveries, recoveries, closes and    *)
(* operators, and any amounts. The first part needs no versions; the       *)
(* second rests on what a goroutine that holds the last version of a batch *)
(* knows of it, and the totals play no part in it. The last part is the    *)
(* types, which need that a sum over finitely many transactions is an      *)
(* integer.                                                                *)
(***************************************************************************)
EXTENDS Settlement, FiniteSetTheorems, TLAPS

------------------------------------------------------------------------------
(* What the goroutines hold.                                               *)

(* An operator has decided about the reversal of sale s. *)
Decided(s) == \E a \in audit : a.sale = s

(* A row that some goroutine has in memory: it is in the table, or it is a *)
(* reversal that an operator excluded or corrected.                        *)
Kept(r) == r \in rows \/ (r.type = "REVERSAL" /\ Decided(r.sale))

(* The goroutine of a registration keeps its form, and the batch it works  *)
(* on is of its terminal, day and currency.                                *)
RegShape ==
  /\ DOMAIN reg = Registrations
  /\ \A e \in Registrations :
       /\ DOMAIN reg[e] = {"pc", "b", "seen", "copy"}
       /\ reg[e].seen \in Reasons
       /\ reg[e].copy.rows \subseteq Rows
       /\ reg[e].pc \in {"loaded", "saved", "reviewed"} =>
            reg[e].b \in Batches /\ KeyOfBatch[reg[e].b] = KeyOf[e]

(* So does the goroutine of a close or of an operator. *)
TaskShape ==
  /\ DOMAIN task = Tasks
  /\ \A t \in Tasks :
       /\ DOMAIN task[t] = DOMAIN Idle
       /\ DOMAIN task[t].copy = DOMAIN NoCopy
       /\ task[t].copy.rows \subseteq Rows
       /\ task[t].pc = "reviewLocked" => task[t].sale \in Sales

(* And a review. *)
ReviewShape ==
  /\ DOMAIN review = Sales
  /\ \A s \in Sales :
       /\ DOMAIN review[s] = DOMAIN NoReview
       /\ review[s].status \in {"none", "open", "resolved"}

(* What is held in memory was not lost from the table. *)
CopiesAreKept ==
  /\ \A e \in Registrations : \A r \in reg[e].copy.rows : Kept(r)
  /\ \A t \in Tasks : \A r \in task[t].copy.rows : Kept(r)

Shape ==
  /\ rows \subseteq Rows
  /\ RegShape
  /\ TaskShape
  /\ ReviewShape
  /\ CopiesAreKept

(* At the start nobody holds anything. *)
LEMMA InitShape == Init => Shape
<1> SUFFICES ASSUME Init PROVE Shape
  OBVIOUS
<1> USE SettlementAssumption DEF Init
<1>1. RegShape
  BY DEF RegShape, NoCopy, Reasons
<1>2. TaskShape
  BY DEF TaskShape, Idle, NoCopy
<1>3. ReviewShape
  BY DEF ReviewShape, NoReview
<1>4. CopiesAreKept
  BY DEF CopiesAreKept, Idle, NoCopy
<1> QED
  BY <1>1, <1>2, <1>3, <1>4 DEF Shape

------------------------------------------------------------------------------
(* The steps, by what they do to the table and to the reviews.             *)

(* A step that leaves reviews and decisions alone, and inserts nothing but *)
(* reversals that an operator had excluded.                                *)
Quiet ==
  /\ UNCHANGED <<review, audit>>
  /\ rows \subseteq rows'
  /\ \A r \in rows' :
       r \in rows \/ (r \in Rows /\ r.type = "REVERSAL" /\ Decided(r.sale))

(* Saving what is in memory is such a step. *)
LEMMA SavedIsQuiet ==
  ASSUME NEW rs, rs \subseteq Rows, \A r \in rs : Kept(r),
         rows' = InsertMissing(rs), UNCHANGED <<review, audit>>
  PROVE  Quiet
  BY DEF Quiet, InsertMissing, Kept

(* One goroutine of a task went on; what it has in memory it had before,   *)
(* or took from the table.                                                 *)
TaskMoves(t) ==
  /\ DOMAIN task' = Tasks
  /\ \A u \in Tasks \ {t} : task'[u] = task[u]
  /\ DOMAIN task'[t] = DOMAIN Idle
  /\ DOMAIN task'[t].copy = DOMAIN NoCopy
  /\ task'[t].copy.rows \in {{}, task[t].copy.rows, RowsOf(Batch(t))}
  /\ task'[t].pc = "reviewLocked" => task'[t].sale \in Sales

(* A goroutine that ends or starts again has nothing in memory. *)
LEMMA EndedMoves ==
  ASSUME TaskShape, NEW t \in Tasks, Ended(t) \/ Restart(t)
  PROVE  TaskMoves(t)
  BY DEF TaskShape, TaskMoves, Ended, Restart, Idle, NoCopy

(* A goroutine that goes on, with the same batch in memory. *)
LEMMA PcMoves ==
  ASSUME TaskShape, NEW t \in Tasks, NEW pc, pc # "reviewLocked",
         task' = [task EXCEPT ![t].pc = pc]
  PROVE  TaskMoves(t)
  BY DEF TaskShape, TaskMoves, Idle, NoCopy

(* A goroutine that saved the batch it holds. *)
LEMMA SavedMoves ==
  ASSUME TaskShape, NEW t \in Tasks, NEW new, NEW pc, pc # "reviewLocked",
         Saved(t, new, pc)
  PROVE  TaskMoves(t)
<1>1. /\ DOMAIN task = Tasks /\ DOMAIN task[t] = DOMAIN Idle
      /\ DOMAIN task[t].copy = DOMAIN NoCopy
  BY DEF TaskShape
<1>2. /\ task'[t].pc = pc /\ DOMAIN task'[t] = DOMAIN Idle
      /\ DOMAIN task' = Tasks /\ \A u \in Tasks \ {t} : task'[u] = task[u]
      /\ task'[t].copy = [Copy(t) EXCEPT !.version = Copy(t).version + 1,
                            !.state = new.state, !.summary = new.summary,
                            !.disputed = new.disputed]
  BY <1>1 DEF Saved, Idle
<1>3. DOMAIN task'[t].copy = DOMAIN NoCopy /\ task'[t].copy.rows = task[t].copy.rows
  BY <1>1, <1>2 DEF NoCopy, Copy
<1> QED
  BY <1>2, <1>3 DEF TaskMoves

(* A goroutine that reads the row of a batch. *)
LEMMA ReadMoves ==
  ASSUME TaskShape, NEW t \in Tasks, NEW op, NEW b, ReadRow(t, op, b)
  PROVE  TaskMoves(t)
  BY DEF TaskShape, TaskMoves, ReadRow, RowCopy, Idle, NoCopy

(* The steps of the tasks except those that decide about a review.         *)
LEMMA TasksAreQuiet ==
  ASSUME Shape, Close \/ Proceed \/
         \E o \in Operators :
           \/ FindByID(o) \/ ForceClose(o) \/ BlockResubmit(o) \/ ResubmitBatch(o)
           \/ ReopenBatch(o) \/ ResolveDispute(o)
           \/ SaveSettled(o) \/ LockMerchantDay(o) \/ CommitSettled(o)
           \/ LockReversalReview(o)
  PROVE  Quiet /\ UNCHANGED reg /\ \E t \in Tasks : TaskMoves(t)
<1> DEFINE Goal == Quiet /\ UNCHANGED reg /\ \E t \in Tasks : TaskMoves(t)
<1>s. TaskShape /\ \A t \in Tasks : /\ Copy(t).rows \subseteq Rows
                                    /\ \A r \in Copy(t).rows : Kept(r)
  BY DEF Shape, TaskShape, CopiesAreKept, Copy
<1>0. ASSUME UNCHANGED <<rows, review, audit>> PROVE Quiet
  BY <1>0 DEF Quiet
<1>c. Closes \subseteq Tasks /\ Runs \subseteq Tasks /\ Operators \subseteq Tasks
  BY DEF Tasks
<1>a. ASSUME NEW t \in Tasks, rows' = InsertMissing(Copy(t).rows),
             UNCHANGED <<review, audit>>
      PROVE  Quiet
  BY <1>a, <1>s, SavedIsQuiet
<1>1. ASSUME NEW c \in Closes, FindOpenByTerminal(c) PROVE Goal
  BY <1>1, <1>0, <1>c, <1>s, ReadMoves, EndedMoves DEF FindOpenByTerminal, db
<1>2. ASSUME NEW c \in Closes, CommitClose(c) PROVE Goal
  <2>1. \/ Ended(c) \/ \E new : Saved(c, new, "submit")
    BY <1>2 DEF CommitClose
  <2>2. /\ rows' = InsertMissing(Copy(c).rows)
        /\ UNCHANGED <<review, audit, reg>>
    BY <1>2 DEF CommitClose, SaveTx
  <2> QED
    BY <2>1, <2>2, <1>a, <1>c, <1>s, EndedMoves, SavedMoves
<1>3. ASSUME NEW c \in Closes, CloseAlreadyProcessed(c) PROVE Goal
  BY <1>3, <1>0, <1>c, <1>s, EndedMoves DEF CloseAlreadyProcessed, db
<1>4. ASSUME NEW t \in Runs, FindStaleOpen(t) PROVE Goal
  BY <1>4, <1>0, <1>c, <1>s, ReadMoves, EndedMoves DEF FindStaleOpen, db
<1>5. ASSUME NEW t \in Runs, CommitAutoClose(t) PROVE Goal
  <2>1. \/ Ended(t) \/ \E new : Saved(t, new, "submit")
    BY <1>5 DEF CommitAutoClose
  <2>2. /\ rows' = InsertMissing(Copy(t).rows)
        /\ UNCHANGED <<review, audit, reg>>
    BY <1>5 DEF CommitAutoClose, SaveTx
  <2> QED
    BY <2>1, <2>2, <1>a, <1>c, <1>s, EndedMoves, SavedMoves
<1>6. ASSUME NEW t \in Runs, AutoCloseAlreadyProcessed(t) PROVE Goal
  BY <1>6, <1>0, <1>c, <1>s, EndedMoves DEF AutoCloseAlreadyProcessed, db
<1>7. ASSUME NEW t \in Tasks, LoadTransactions(t) PROVE Goal
  <2>1. task' = [task EXCEPT ![t].pc = "loaded",
                  ![t].copy.rows = RowsOf(Batch(t)),
                  ![t].copy.held = openReviews(Batch(t)),
                  ![t].copy.differs = task[t].op = "Close"
                                      /\ TerminalDiffers(t, RowsOf(Batch(t)))]
    BY <1>7 DEF LoadTransactions
  <2>2. TaskMoves(t)
    BY <2>1, <1>s DEF TaskMoves, TaskShape, Idle, NoCopy
  <2> QED
    BY <1>7, <2>2, <1>0 DEF LoadTransactions, db
<1>8. ASSUME NEW t \in Tasks, Stale(t) \/ AbandonTask(t) PROVE Goal
  BY <1>8, <1>0, <1>s, EndedMoves DEF Stale, AbandonTask, db
<1>9. ASSUME NEW t \in Tasks, SubmitToProcessor(t) PROVE Goal
  BY <1>9, <1>0, <1>s, PcMoves DEF SubmitToProcessor, db
<1>10. ASSUME NEW t \in Tasks, SaveSubmitted(t) PROVE Goal
  <2>1. Ended(t) /\ UNCHANGED <<review, audit, reg>>
    BY <1>10 DEF SaveSubmitted
  <2>2. rows' = InsertMissing(Copy(t).rows) \/ UNCHANGED rows
    BY <1>10 DEF SaveSubmitted, SaveTx
  <2> QED
    BY <2>1, <2>2, <1>0, <1>a, <1>s, EndedMoves
<1>11. ASSUME NEW o \in Operators, FindByID(o) PROVE Goal
  BY <1>11, <1>0, <1>c, <1>s, ReadMoves DEF FindByID, db
<1>12. ASSUME NEW o \in Operators,
              ForceClose(o) \/ BlockResubmit(o) \/ ReopenBatch(o) \/ ResolveDispute(o)
       PROVE  Goal
  <2>1. /\ rows' = InsertMissing(Copy(o).rows)
        /\ UNCHANGED <<review, audit, reg>>
        /\ Ended(o)
    BY <1>12 DEF ForceClose, BlockResubmit, ReopenBatch, ResolveDispute, Persist, SaveTx
  <2> QED
    BY <2>1, <1>a, <1>c, <1>s, EndedMoves
<1>13. ASSUME NEW o \in Operators, ResubmitBatch(o) \/ SaveSettled(o) PROVE Goal
  BY <1>13, <1>0, <1>c, <1>s, PcMoves DEF ResubmitBatch, SaveSettled, db
<1>14. ASSUME NEW o \in Operators, LockMerchantDay(o) PROVE Goal
  <2>1. \E h : task' = [task EXCEPT ![o].pc = "settleRead", ![o].copy.held = h]
    BY <1>14 DEF LockMerchantDay
  <2>2. TaskMoves(o)
    BY <2>1, <1>c, <1>s DEF TaskMoves, TaskShape, Idle, NoCopy
  <2> QED
    BY <1>14, <2>2, <1>0, <1>c DEF LockMerchantDay, db
<1>15. ASSUME NEW o \in Operators, CommitSettled(o) PROVE Goal
  BY <1>15, <1>a, <1>c, <1>s, EndedMoves DEF CommitSettled, SaveTx
<1>16. ASSUME NEW o \in Operators, LockReversalReview(o) PROVE Goal
  <2>1. PICK s \in Sales :
          task' = [task EXCEPT ![o] = [Idle EXCEPT !.pc = "reviewLocked",
                     !.op = "ResolveReview", !.b = review[s].batch, !.sale = s]]
    BY <1>16 DEF LockReversalReview
  <2>2. TaskMoves(o)
    BY <2>1, <1>c, <1>s DEF TaskMoves, TaskShape, Idle, NoCopy
  <2> QED
    BY <1>16, <2>2, <1>0, <1>c DEF LockReversalReview, db
<1> QED
  BY <1>1, <1>2, <1>3, <1>4, <1>5, <1>6, <1>7, <1>8, <1>9, <1>10, <1>11, <1>12,
     <1>13, <1>14, <1>15, <1>16 DEF Close, Proceed

(* An operator decides about the reversal of sale s: its review is closed, *)
(* and no row but that reversal changes.                                   *)
DecidesAbout(s) ==
  /\ UNCHANGED reg
  /\ audit \subseteq audit' /\ \E a \in audit' : a.sale = s
  /\ \E x : /\ review' = [review EXCEPT ![s] = x]
            /\ x.status = "resolved" /\ DOMAIN x = DOMAIN NoReview
  /\ rows' \subseteq Rows
  /\ \A r \in rows : r \in rows' \/ (r.type = "REVERSAL" /\ r.sale = s)
  /\ \A r \in rows' : r \in rows \/ (r.type = "REVERSAL" /\ r.sale = s)

(* Each of the operator's three decisions is of this kind. *)
LEMMA DecisionSteps ==
  ASSUME Shape, NEW o \in Operators,
         AcceptReversal(o) \/ ExcludeReversal(o) \/ UsePurchaseAmount(o)
  PROVE  (\E s \in Sales : DecidesAbout(s)) /\ TaskMoves(o)
<1> DEFINE s == task[o].sale
<1>0. /\ TaskShape /\ ReviewShape /\ rows \subseteq Rows /\ o \in Tasks
      /\ UNCHANGED reg /\ Ended(o)
  BY DEF Shape, Tasks, AcceptReversal, ExcludeReversal, UsePurchaseAmount
<1>1. s \in Sales
  BY <1>0 DEF TaskShape, AcceptReversal, ExcludeReversal, UsePurchaseAmount
<1>2. \E action : CloseReversalReview(o, action)
  BY DEF AcceptReversal, ExcludeReversal, UsePurchaseAmount
<1>3. /\ audit \subseteq audit' /\ \E a \in audit' : a.sale = s
      /\ review' = [review EXCEPT ![s].status = "resolved"]
  <2>1. PICK action : CloseReversalReview(o, action)
    BY <1>2
  <2> DEFINE a == [sale |-> s, action |-> action]
  <2>2. audit' = audit \cup {a} /\ review' = [review EXCEPT ![s].status = "resolved"]
    BY <2>1 DEF CloseReversalReview
  <2>3. a.sale = s
    OBVIOUS
  <2> HIDE DEF a
  <2> QED
    BY <2>2, <2>3
<1>4. \A r \in ReversalOf(o) : r \in Rows /\ r.type = "REVERSAL" /\ r.sale = s
  BY <1>0 DEF ReversalOf, RowsOf
<1>5. /\ rows' \subseteq Rows
      /\ \A r \in rows : r \in rows' \/ (r.type = "REVERSAL" /\ r.sale = s)
      /\ \A r \in rows' : r \in rows \/ (r.type = "REVERSAL" /\ r.sale = s)
  <2>1. CASE AcceptReversal(o)
    BY <2>1, <1>0 DEF AcceptReversal
  <2>2. CASE ExcludeReversal(o)
    BY <2>2, <1>0, <1>4 DEF ExcludeReversal
  <2>3. CASE UsePurchaseAmount(o)
    <3>1. PICK p \in Recorded(s, "PURCHASE") :
            rows' = (rows \ ReversalOf(o)) \cup
                      {[r EXCEPT !.amount = p.amount] : r \in ReversalOf(o)}
      BY <2>3 DEF UsePurchaseAmount
    <3>2. p.amount \in Nat
      BY <1>0 DEF Recorded, Rows
    <3>3. \A r \in ReversalOf(o) :
            LET q == [r EXCEPT !.amount = p.amount]
            IN q \in Rows /\ q.type = "REVERSAL" /\ q.sale = s
      BY <1>4, <3>2 DEF Rows
    <3> QED
      BY <1>0, <1>4, <3>1, <3>3
  <2> QED
    BY <2>1, <2>2, <2>3
<1>6. \E x : /\ review' = [review EXCEPT ![s] = x]
             /\ x.status = "resolved" /\ DOMAIN x = DOMAIN NoReview
  <2> DEFINE x == [review[s] EXCEPT !.status = "resolved"]
  <2>1. review' = [review EXCEPT ![s] = x]
    BY <1>3
  <2>2. x.status = "resolved" /\ DOMAIN x = DOMAIN NoReview
    BY <1>0, <1>1 DEF ReviewShape, NoReview
  <2> QED
    BY <2>1, <2>2
<1> QED
  BY <1>0, <1>1, <1>3, <1>5, <1>6, EndedMoves DEF DecidesAbout

------------------------------------------------------------------------------
(* The registrations.                                                      *)

(* The goroutine of a registration went on, alone.                         *)
RegMoves(e) ==
  /\ DOMAIN reg' = Registrations
  /\ \A f \in Registrations \ {e} : reg'[f] = reg[f]
  /\ DOMAIN reg'[e] = {"pc", "b", "seen", "copy"}
  /\ reg'[e].copy.rows \in {{}, reg[e].copy.rows, RowsOf(reg'[e].b)}

(* It is before the advisory lock of its sale.                             *)
BeforeTheLock(e) ==
  /\ RegMoves(e)
  /\ reg'[e].pc \in {"idle", "loaded", "saved"}
  /\ reg'[e].seen = reg[e].seen \/ reg'[e].seen = "none"
  /\ reg'[e].pc # "idle" =>
       reg'[e].b \in Batches /\ KeyOfBatch[reg'[e].b] = KeyOf[e]

(* What it sees is one of the reasons of a review.                         *)
LEMMA SeenIsAReason == ASSUME NEW e PROVE SeenBy(e) \in Reasons
  BY DEF SeenBy, reversalMismatch, Reasons

(* A registration that starts again holds nothing.                         *)
LEMMA RestartedMoves ==
  ASSUME RegShape, NEW e \in Registrations, reg' = [reg EXCEPT ![e] = Restarted(e)]
  PROVE  BeforeTheLock(e)
<1>1. reg'[e] = Restarted(e)
  BY DEF RegShape
<1>2. /\ DOMAIN Restarted(e) = {"pc", "b", "seen", "copy"}
      /\ Restarted(e).pc = "idle" /\ Restarted(e).seen = "none"
      /\ Restarted(e).copy = NoCopy
  BY DEF Restarted, RegShape
<1>3. NoCopy.rows = {}
  BY DEF NoCopy
<1>4. DOMAIN reg' = Registrations /\ \A f \in Registrations \ {e} : reg'[f] = reg[f]
  BY DEF RegShape
<1> QED
  BY <1>1, <1>2, <1>3, <1>4 DEF BeforeTheLock, RegMoves

(* The steps of a registration up to the lock, and its end.                *)
LEMMA RegistrationSteps ==
  ASSUME Shape, NEW e \in Registrations,
         \/ e \in Recoveries /\ RecoverReversals(e)
         \/ FindOrCreateOpen(e) \/ SaveRegistration(e) \/ AbandonRegistration(e)
  PROVE  UNCHANGED <<rows, review, audit, task>> /\ BeforeTheLock(e)
<1>s. RegShape
  BY DEF Shape
<1>1. ASSUME RecoverReversals(e) PROVE BeforeTheLock(e)
  BY <1>1, <1>s DEF RecoverReversals, RegShape, BeforeTheLock, RegMoves
<1>2. ASSUME FindOrCreateOpen(e) PROVE BeforeTheLock(e)
  <2>1. ASSUME NEW b \in OpenOf(KeyOf[e]),
               reg' = [reg EXCEPT ![e].pc = "loaded", ![e].b = b,
                                  ![e].copy = FullCopy(b)]
        PROVE  BeforeTheLock(e)
    <3>1. FullCopy(b).rows = RowsOf(b)
      BY DEF FullCopy, RowCopy, NoCopy
    <3>2. b \in Batches /\ KeyOfBatch[b] = KeyOf[e]
      BY DEF OpenOf
    <3> HIDE DEF FullCopy
    <3> QED
      BY <2>1, <3>1, <3>2, <1>s DEF RegShape, BeforeTheLock, RegMoves
  <2>2. ASSUME NEW b \in Batches, KeyOfBatch[b] = KeyOf[e],
               reg' = [reg EXCEPT ![e].pc = "loaded", ![e].b = b,
                          ![e].copy = [NoCopy EXCEPT !.state = "OPEN"]]
        PROVE  BeforeTheLock(e)
    <3>1. [NoCopy EXCEPT !.state = "OPEN"].rows = {}
      BY DEF NoCopy
    <3> QED
      BY <2>2, <3>1, <1>s DEF RegShape, BeforeTheLock, RegMoves
  <2> QED
    BY <1>2, <2>1, <2>2 DEF FindOrCreateOpen
<1>3. ASSUME SaveRegistration(e) PROVE BeforeTheLock(e)
  <2>1. CASE VersionMatches(reg[e].b, reg[e].copy)
    <3>1. reg[e].pc = "loaded" /\ reg' = [reg EXCEPT ![e].pc = "saved"]
      BY <1>3, <2>1 DEF SaveRegistration
    <3> QED
      BY <3>1, <1>s DEF RegShape, BeforeTheLock, RegMoves
  <2>2. CASE ~VersionMatches(reg[e].b, reg[e].copy)
    BY <1>3, <2>2, <1>s, RestartedMoves DEF SaveRegistration
  <2> QED
    BY <2>1, <2>2
<1>4. ASSUME AbandonRegistration(e) PROVE BeforeTheLock(e)
  BY <1>4, <1>s, RestartedMoves DEF AbandonRegistration
<1>5. UNCHANGED <<rows, review, audit, task>>
  BY DEF RecoverReversals, FindOrCreateOpen, SaveRegistration, AbandonRegistration, db
<1> QED
  BY <1>1, <1>2, <1>3, <1>4, <1>5

(* A registration takes the lock of its sale and looks.                    *)
LEMMA LockSteps ==
  ASSUME Shape, NEW e \in Registrations, LockReversalPair(e)
  PROVE  /\ UNCHANGED <<rows, review, audit, task>>
         /\ RegMoves(e) /\ ~PairLocked(SaleOf[e])
         /\ reg'[e].pc = "reviewed" /\ reg'[e].seen = SeenBy(e)
         /\ reg'[e].b \in Batches /\ KeyOfBatch[reg'[e].b] = KeyOf[e]
<1>1. /\ UNCHANGED <<rows, review, audit, task>> /\ ~PairLocked(SaleOf[e])
      /\ reg[e].pc = "saved"
      /\ reg' = [reg EXCEPT ![e].pc = "reviewed", ![e].seen = SeenBy(e)]
  BY DEF LockReversalPair, db
<1> QED
  BY <1>1 DEF Shape, RegShape, RegMoves

(* A registration commits: its transaction is in the table afterwards, or  *)
(* another of its sale and type was there before.                          *)
LEMMA CommitSteps ==
  ASSUME Shape, NEW e \in Registrations, CommitRegistration(e)
  PROVE  LET t == TransactionOf(e, reg[e].b) IN
         /\ UNCHANGED <<audit, task>> /\ BeforeTheLock(e) /\ reg'[e].pc = "idle"
         /\ reg[e].pc = "reviewed"
         /\ t \in Rows /\ TermsOfRow(t) = TermsOf(e) /\ t.sale = SaleOf[e]
         /\ rows \subseteq rows'
         /\ \A r \in rows' : \/ r \in rows
                             \/ r = t /\ Recorded(t.sale, t.type) = {}
                             \/ r \in Rows /\ r.type = "REVERSAL" /\ Decided(r.sale)
         /\ Recorded(t.sale, t.type) = {} => t \in rows'
<1> DEFINE t == TransactionOf(e, reg[e].b)
<1>1. /\ UNCHANGED <<audit, task>> /\ reg[e].pc = "reviewed"
      /\ reg' = [reg EXCEPT ![e] = Restarted(e)]
      /\ rows' = InsertMissing(reg[e].copy.rows \cup {t})
  BY DEF CommitRegistration, SaveTx
<1>2. BeforeTheLock(e) /\ reg'[e].pc = "idle"
  BY <1>1, RestartedMoves DEF Shape, RegShape, Restarted
<1>3. reg[e].b \in Batches /\ KeyOfBatch[reg[e].b] = KeyOf[e]
  BY <1>1 DEF Shape, RegShape
<1>4. t \in Rows /\ TermsOfRow(t) = TermsOf(e) /\ t.sale = SaleOf[e]
  BY <1>3, SettlementAssumption DEF TransactionOf, Rows, Types, TermsOf, TermsOfRow
<1>5. \A r \in reg[e].copy.rows : r \in Rows /\ Kept(r)
  BY DEF Shape, RegShape, CopiesAreKept
<1> HIDE DEF t
<1>6. rows' = rows \cup {r \in reg[e].copy.rows \cup {t} :
                           ~\E q \in rows : q.sale = r.sale /\ q.type = r.type}
  BY <1>1 DEF InsertMissing
<1>7. \A r \in rows' : \/ r \in rows
                       \/ r = t /\ Recorded(t.sale, t.type) = {}
                       \/ r \in Rows /\ r.type = "REVERSAL" /\ Decided(r.sale)
  BY <1>5, <1>6 DEF Recorded, Kept
<1>8. Recorded(t.sale, t.type) = {} => t \in rows'
  BY <1>6 DEF Recorded
<1> QED
  BY <1>1, <1>2, <1>4, <1>6, <1>7, <1>8 DEF t

------------------------------------------------------------------------------
(* The forms are kept.                                                     *)

(* What holds of every step. *)
LEMMA Steps ==
  ASSUME Shape, [Next]_vars
  PROVE  \/ Quiet /\ UNCHANGED reg /\ \E t \in Tasks : TaskMoves(t)
         \/ Quiet /\ UNCHANGED <<reg, task>>
         \/ \E e \in Registrations :
              UNCHANGED <<rows, review, audit, task>> /\ BeforeTheLock(e)
         \/ \E e \in Registrations : LockReversalPair(e) \/ CommitRegistration(e)
         \/ \E s \in Sales, o \in Tasks : DecidesAbout(s) /\ TaskMoves(o)
<1>1. CASE Register
  <2>1. Recoveries \subseteq Registrations
    BY DEF Registrations
  <2> QED
    BY <1>1, <2>1, RegistrationSteps DEF Register
<1>2. CASE Close \/ Proceed
  BY <1>2, TasksAreQuiet
<1>3. CASE Operate
  <2>1. PICK o \in Operators :
          \/ FindByID(o) \/ ForceClose(o) \/ BlockResubmit(o) \/ ResubmitBatch(o)
          \/ ReopenBatch(o) \/ ResolveDispute(o)
          \/ SaveSettled(o) \/ LockMerchantDay(o) \/ CommitSettled(o)
          \/ LockReversalReview(o)
          \/ AcceptReversal(o) \/ ExcludeReversal(o) \/ UsePurchaseAmount(o)
    BY <1>3 DEF Operate
  <2>2. CASE AcceptReversal(o) \/ ExcludeReversal(o) \/ UsePurchaseAmount(o)
    BY <2>2, DecisionSteps DEF Tasks
  <2>3. CASE ~(AcceptReversal(o) \/ ExcludeReversal(o) \/ UsePurchaseAmount(o))
    BY <2>1, <2>3, TasksAreQuiet
  <2> QED
    BY <2>2, <2>3
<1>4. CASE UNCHANGED vars
  BY <1>4 DEF vars, Quiet
<1> QED
  BY <1>1, <1>2, <1>3, <1>4 DEF Next

(* What was kept stays kept. *)
LEMMA KeptStays ==
  ASSUME audit \subseteq audit',
         \A r \in rows : r \in rows' \/ (r.type = "REVERSAL" /\ \E a \in audit' : a.sale = r.sale)
  PROVE  \A r : Kept(r) => Kept(r)'
  BY DEF Kept, Decided

(* The goroutines of the registrations keep their form. *)
LEMMA RegKept ==
  ASSUME Shape, NEW e \in Registrations, RegMoves(e), reg'[e].seen \in Reasons,
         reg'[e].pc \in {"loaded", "saved", "reviewed"} =>
           reg'[e].b \in Batches /\ KeyOfBatch[reg'[e].b] = KeyOf[e]
  PROVE  /\ RegShape'
         /\ \A f \in Registrations : \A r \in reg'[f].copy.rows : Kept(r)
<1>1. RowsOf(reg'[e].b) \subseteq Rows /\ \A r \in RowsOf(reg'[e].b) : Kept(r)
  BY DEF Shape, RowsOf, Kept
<1>2. reg'[e].copy.rows \subseteq Rows /\ \A r \in reg'[e].copy.rows : Kept(r)
  BY <1>1 DEF Shape, RegShape, CopiesAreKept, RegMoves
<1>3. RegShape'
  BY <1>2 DEF Shape, RegShape, RegMoves
<1> QED
  BY <1>2, <1>3 DEF Shape, CopiesAreKept, RegMoves

(* And those of the tasks. *)
LEMMA TaskKept ==
  ASSUME Shape, NEW t \in Tasks, TaskMoves(t)
  PROVE  /\ TaskShape'
         /\ \A u \in Tasks : \A r \in task'[u].copy.rows : Kept(r)
<1>1. RowsOf(Batch(t)) \subseteq Rows /\ \A r \in RowsOf(Batch(t)) : Kept(r)
  BY DEF Shape, RowsOf, Kept
<1>2. task'[t].copy.rows \subseteq Rows /\ \A r \in task'[t].copy.rows : Kept(r)
  BY <1>1 DEF Shape, TaskShape, CopiesAreKept, TaskMoves
<1>3. TaskShape'
  BY <1>2 DEF Shape, TaskShape, TaskMoves
<1> QED
  BY <1>2, <1>3 DEF Shape, CopiesAreKept, TaskMoves

(* The review of a commit keeps its form, and no other review changes.     *)
LEMMA CommitReviews ==
  ASSUME Shape, NEW e \in Registrations, CommitRegistration(e)
  PROVE  /\ ReviewShape'
         /\ \A s \in Sales \ {SaleOf[e]} : review'[s] = review[s]
<1> DEFINE s == SaleOf[e]
<1>1. s \in Sales /\ ReviewShape
  BY SettlementAssumption DEF Shape
<1>2. review' \in {ReconcileReversalReview(e), InsertReversalReview(e)}
  BY DEF CommitRegistration
<1> DEFINE m == reversalMismatch(TermsOf(e), TermsOf(review[s].event))
           n == [status |-> "open", batch |-> reg[e].b, reason |-> reg[e].seen,
                 event |-> e]
<1>3. \/ review' = review
      \/ review' = [review EXCEPT ![s].status = "resolved"]
      \/ review' = [review EXCEPT ![s].status = "open", ![s].reason = m]
      \/ review' = [review EXCEPT ![s] = n]
  BY <1>2 DEF ReconcileReversalReview, InsertReversalReview
<1>n. n.status = "open" /\ DOMAIN n = DOMAIN NoReview
  BY DEF NoReview
<1> HIDE DEF s, m, n
<1>4. \A u \in Sales \ {s} : review'[u] = review[u]
  BY <1>1, <1>3 DEF ReviewShape
<1>5. ReviewShape'
  BY <1>1, <1>3, <1>n DEF ReviewShape, NoReview
<1> QED
  BY <1>4, <1>5 DEF s

(* Every step keeps the forms. *)
LEMMA NextShape == Shape /\ [Next]_vars => Shape'
<1> SUFFICES ASSUME Shape, [Next]_vars PROVE Shape'
  OBVIOUS
<1>0. rows \subseteq Rows /\ RegShape /\ TaskShape /\ ReviewShape /\ CopiesAreKept
  BY DEF Shape
<1>1. ASSUME Quiet, UNCHANGED reg, NEW t \in Tasks, TaskMoves(t) PROVE Shape'
  <2>1. rows' \subseteq Rows /\ ReviewShape' /\ RegShape'
    BY <1>0, <1>1 DEF Quiet, ReviewShape, RegShape
  <2>2. \A r : Kept(r) => Kept(r)'
    BY <1>1, KeptStays DEF Quiet
  <2> QED
    BY <1>0, <1>1, <2>1, <2>2, TaskKept DEF Shape, CopiesAreKept
<1>2. ASSUME Quiet, UNCHANGED <<reg, task>> PROVE Shape'
  <2>1. rows' \subseteq Rows /\ ReviewShape' /\ RegShape' /\ TaskShape'
    BY <1>0, <1>2 DEF Quiet, ReviewShape, RegShape, TaskShape
  <2>2. \A r : Kept(r) => Kept(r)'
    BY <1>2, KeptStays DEF Quiet
  <2> QED
    BY <1>0, <1>2, <2>1, <2>2 DEF Shape, CopiesAreKept
<1>3. ASSUME NEW e \in Registrations, UNCHANGED <<rows, review, audit, task>>,
             RegMoves(e), reg'[e].seen \in Reasons,
             reg'[e].pc \in {"loaded", "saved", "reviewed"} =>
               reg'[e].b \in Batches /\ KeyOfBatch[reg'[e].b] = KeyOf[e]
      PROVE  Shape'
  <2>1. rows' \subseteq Rows /\ ReviewShape' /\ TaskShape'
    BY <1>0, <1>3 DEF ReviewShape, TaskShape
  <2>2. \A r : Kept(r) => Kept(r)'
    BY <1>3 DEF Kept, Decided
  <2> QED
    BY <1>0, <1>3, <2>1, <2>2, RegKept DEF Shape, CopiesAreKept
<1>4. ASSUME NEW e \in Registrations, BeforeTheLock(e)
      PROVE  /\ RegMoves(e) /\ reg'[e].seen \in Reasons
             /\ reg'[e].pc \in {"loaded", "saved", "reviewed"} =>
                  reg'[e].b \in Batches /\ KeyOfBatch[reg'[e].b] = KeyOf[e]
  BY <1>0, <1>4 DEF BeforeTheLock, RegShape, Reasons
<1>5. ASSUME NEW e \in Registrations, LockReversalPair(e) PROVE Shape'
  BY <1>3, <1>5, LockSteps, SeenIsAReason
<1>6. ASSUME NEW e \in Registrations, CommitRegistration(e) PROVE Shape'
  <2>1. /\ UNCHANGED <<audit, task>> /\ BeforeTheLock(e)
        /\ rows \subseteq rows' /\ rows' \subseteq Rows
    BY <1>0, <1>6, CommitSteps
  <2>2. \A r : Kept(r) => Kept(r)'
    BY <2>1, KeptStays
  <2>3. RegShape' /\ \A f \in Registrations : \A r \in reg'[f].copy.rows : Kept(r)
    BY <2>1, <1>4, RegKept
  <2>4. TaskShape'
    BY <1>0, <2>1 DEF TaskShape
  <2> QED
    BY <1>0, <1>6, <2>1, <2>2, <2>3, <2>4, CommitReviews DEF Shape, CopiesAreKept
<1>7. ASSUME NEW s \in Sales, NEW o \in Tasks, DecidesAbout(s), TaskMoves(o)
      PROVE  Shape'
  <2>1. rows' \subseteq Rows /\ RegShape'
    BY <1>0, <1>7 DEF DecidesAbout, RegShape
  <2>2. ReviewShape'
    BY <1>0, <1>7 DEF DecidesAbout, ReviewShape
  <2>3. \A r : Kept(r) => Kept(r)'
    BY <1>7, KeptStays DEF DecidesAbout
  <2>4. UNCHANGED reg
    BY <1>7 DEF DecidesAbout
  <2> QED
    BY <1>0, <1>7, <2>1, <2>2, <2>3, <2>4, TaskKept DEF Shape, CopiesAreKept
<1> QED
  BY <1>1, <1>2, <1>3, <1>4, <1>5, <1>6, <1>7, Steps

------------------------------------------------------------------------------
(* The invariant.                                                          *)

(* The reversal of sale s waits for its purchase. *)
Waiting(s) == review[s].status = "open" /\ review[s].reason = "PURCHASE_NOT_FOUND"

(* A sale has one purchase. *)
OnePurchase ==
  \A p, q \in rows : p.type = "PURCHASE" /\ q.type = "PURCHASE" /\ p.sale = q.sale => p = q

(* One registration of a sale is between the lock and its commit. *)
OneInPair ==
  \A e, f \in Registrations :
    reg[e].pc = "reviewed" /\ reg[f].pc = "reviewed" /\ SaleOf[e] = SaleOf[f] => e = f

(* What a registration saw when it took the lock still holds: of who       *)
(* registers a purchase,                                                   *)
PurchaseSees ==
  \A e \in Approvals : reg[e].pc = "reviewed" =>
    IF reg[e].seen = "none" THEN ~Waiting(SaleOf[e])
    ELSE Waiting(SaleOf[e]) \/ Decided(SaleOf[e])

(* and of who registers a reversal.                                        *)
ReversalSees ==
  \A e \in Registrations \ Approvals : reg[e].pc = "reviewed" =>
    /\ reg[e].seen = "PURCHASE_NOT_FOUND" <=> Recorded(SaleOf[e], "PURCHASE") = {}
    /\ reg[e].seen = "none" =>
         \A p \in Recorded(SaleOf[e], "PURCHASE") : TermsOfRow(p) = TermsOf(e)

(* A reversal about which nobody decided: if it has no review, it matches  *)
(* its purchase; if it waits, its review says what is in its row; if its   *)
(* review was closed, by its purchase, they match.                         *)
Matched ==
  \A s \in Sales : ~Decided(s) =>
    LET purchases == Recorded(s, "PURCHASE")
        reversals == Recorded(s, "REVERSAL")
    IN /\ review[s].status = "none" =>
            \A r \in reversals : /\ purchases # {}
                                 /\ \A p \in purchases : TermsOfRow(p) = TermsOfRow(r)
       /\ review[s].status # "none" => reversals # {}
       /\ Waiting(s) => \A r \in reversals : TermsOfRow(r) = TermsOf(review[s].event)
       /\ review[s].status = "resolved" =>
            /\ purchases # {}
            /\ \A p \in purchases, r \in reversals : TermsOfRow(p) = TermsOfRow(r)

PairParts ==
  /\ OnePurchase
  /\ OneInPair
  /\ PurchaseSees
  /\ ReversalSees
  /\ NoReversalWaitsForItsPurchase
  /\ Matched

PairInv == Shape /\ PairParts

(* It holds from the start. *)
LEMMA InitPair == Init => PairParts
  BY SettlementAssumption
  DEF Init, PairParts, OnePurchase, OneInPair, PurchaseSees, ReversalSees,
      NoReversalWaitsForItsPurchase, Matched, NoReview, Recorded, Waiting,
      Registrations

(* What a registration sees when it takes the lock.                        *)
LEMMA SeenHolds ==
  ASSUME OnePurchase, NEW e \in Registrations
  PROVE  LET s == SaleOf[e] IN
         /\ e \in Approvals =>
              (SeenBy(e) = "none" /\ ~Waiting(s)) \/ (SeenBy(e) # "none" /\ Waiting(s))
         /\ e \notin Approvals =>
              /\ SeenBy(e) = "PURCHASE_NOT_FOUND" <=> Recorded(s, "PURCHASE") = {}
              /\ SeenBy(e) = "none" =>
                   \A p \in Recorded(s, "PURCHASE") : TermsOfRow(p) = TermsOf(e)
<1> DEFINE s == SaleOf[e]
           P == Recorded(s, "PURCHASE")
<1>1. CASE e \in Approvals
  BY <1>1 DEF SeenBy, Waiting
<1>2. CASE e \notin Approvals /\ P = {}
  BY <1>2 DEF SeenBy
<1>3. CASE e \notin Approvals /\ P # {}
  <2>1. PICK p \in P : p = CHOOSE r \in P : TRUE
    BY <1>3
  <2>2. \A q \in P : q = p
    BY <2>1 DEF OnePurchase, Recorded
  <2>3. SeenBy(e) = reversalMismatch(TermsOfRow(p), TermsOf(e))
    BY <1>3, <2>1 DEF SeenBy
  <2>4. SeenBy(e) # "PURCHASE_NOT_FOUND"
    BY <2>3 DEF reversalMismatch
  <2>5. SeenBy(e) = "none" => TermsOfRow(p) = TermsOf(e)
    BY <2>3 DEF reversalMismatch, TermsOfRow, TermsOf
  <2> QED
    BY <1>3, <2>2, <2>4, <2>5
<1> QED
  BY <1>1, <1>2, <1>3

(* The steps that do not register or decide anything.                      *)
LEMMA PairQuiet ==
  ASSUME PairInv, Quiet,
         \/ UNCHANGED reg
         \/ \E e \in Registrations : BeforeTheLock(e)
  PROVE  PairParts'
<1> USE DEF PairInv, PairParts
<1>1. \A f \in Registrations : reg'[f].pc = "reviewed" => reg'[f] = reg[f]
  BY DEF BeforeTheLock, RegMoves
<1>2. UNCHANGED <<review, audit>>
  BY DEF Quiet
<1>3. /\ \A s \in Sales : Decided(s)' <=> Decided(s)
      /\ \A s \in Sales : Waiting(s)' <=> Waiting(s)
      /\ \A r : TermsOfRow(r)' = TermsOfRow(r)
      /\ \A e : TermsOf(e)' = TermsOf(e)
  BY <1>2 DEF Decided, Waiting, TermsOfRow, TermsOf
<1>4. \A s : Recorded(s, "PURCHASE")' = Recorded(s, "PURCHASE")
  BY DEF Quiet, Recorded
<1>5. \A s : ~Decided(s) => Recorded(s, "REVERSAL")' = Recorded(s, "REVERSAL")
  BY DEF Quiet, Recorded
<1>6. OnePurchase'
  BY DEF Quiet, OnePurchase
<1>7. OneInPair'
  BY <1>1 DEF OneInPair
<1>8. \A e \in Registrations : SaleOf[e] \in Sales
  BY SettlementAssumption
<1>9. PurchaseSees'
  BY <1>1, <1>3, <1>8 DEF PurchaseSees, Registrations
<1>10. ReversalSees'
  BY <1>1, <1>3, <1>4, <1>8 DEF ReversalSees
<1>11. NoReversalWaitsForItsPurchase'
  BY <1>2, <1>4 DEF NoReversalWaitsForItsPurchase
<1>12. Matched'
  BY <1>2, <1>3, <1>4, <1>5 DEF Matched
<1> QED
  BY <1>6, <1>7, <1>9, <1>10, <1>11, <1>12

(* A registration takes the lock of its sale.                              *)
LEMMA PairLock ==
  ASSUME PairInv, NEW e \in Registrations, LockReversalPair(e)
  PROVE  PairParts'
<1> USE DEF PairInv, PairParts
<1>1. /\ UNCHANGED <<rows, review, audit, task>>
      /\ RegMoves(e) /\ ~PairLocked(SaleOf[e])
      /\ reg'[e].pc = "reviewed" /\ reg'[e].seen = SeenBy(e)
  BY LockSteps
<1>2. \A f \in Registrations \ {e} : reg'[f] = reg[f]
  BY <1>1 DEF RegMoves
<1>3. /\ \A s : Decided(s)' <=> Decided(s)
      /\ \A s : Waiting(s)' <=> Waiting(s)
      /\ \A r : TermsOfRow(r)' = TermsOfRow(r)
      /\ \A f : TermsOf(f)' = TermsOf(f)
      /\ \A s, type : Recorded(s, type)' = Recorded(s, type)
  BY <1>1 DEF Decided, Waiting, TermsOfRow, TermsOf, Recorded
<1>4. OnePurchase'
  BY <1>1 DEF OnePurchase
<1>5. OneInPair'
  BY <1>1, <1>2 DEF OneInPair, PairLocked
<1>6. PurchaseSees'
  BY <1>1, <1>2, <1>3, SeenHolds DEF PurchaseSees, Registrations
<1>7. ReversalSees'
  BY <1>1, <1>2, <1>3, SeenHolds DEF ReversalSees
<1>8. NoReversalWaitsForItsPurchase' /\ Matched'
  BY <1>1, <1>3 DEF NoReversalWaitsForItsPurchase, Matched
<1> QED
  BY <1>4, <1>5, <1>6, <1>7, <1>8

(* An operator decides about a reversal.                                   *)
LEMMA PairDecide ==
  ASSUME PairInv, NEW s \in Sales, DecidesAbout(s)
  PROVE  PairParts'
<1> USE DEF PairInv, PairParts
<1>1. UNCHANGED reg /\ Decided(s)' /\ \A u : Decided(u) => Decided(u)'
  BY DEF DecidesAbout, Decided
<1>2. review'[s].status = "resolved" /\ \A u \in Sales \ {s} : review'[u] = review[u]
  BY DEF DecidesAbout, Shape, ReviewShape
<1>3. /\ ~Waiting(s)'
      /\ \A u \in Sales \ {s} : Waiting(u)' <=> Waiting(u)
      /\ \A r : TermsOfRow(r)' = TermsOfRow(r)
      /\ \A e : TermsOf(e)' = TermsOf(e)
  BY <1>2 DEF Waiting, TermsOfRow, TermsOf
<1>4. \A u : Recorded(u, "PURCHASE")' = Recorded(u, "PURCHASE")
  BY DEF DecidesAbout, Recorded
<1>5. \A u \in Sales \ {s} : Recorded(u, "REVERSAL")' = Recorded(u, "REVERSAL")
  BY DEF DecidesAbout, Recorded
<1>6. \A e \in Registrations : SaleOf[e] \in Sales
  BY SettlementAssumption
<1>7. OnePurchase'
  BY DEF DecidesAbout, OnePurchase
<1>8. OneInPair'
  BY <1>1 DEF OneInPair
<1>9. PurchaseSees'
  BY <1>1, <1>3, <1>6 DEF PurchaseSees, Registrations
<1>10. ReversalSees'
  BY <1>1, <1>3, <1>4 DEF ReversalSees
<1>11. NoReversalWaitsForItsPurchase'
  BY <1>2, <1>4 DEF NoReversalWaitsForItsPurchase
<1>12. Matched'
  <2> SUFFICES ASSUME NEW u \in Sales, ~Decided(u)' PROVE
        LET purchases == Recorded(u, "PURCHASE")'
            reversals == Recorded(u, "REVERSAL")'
        IN /\ review'[u].status = "none" =>
                \A r \in reversals : /\ purchases # {}
                                     /\ \A p \in purchases : TermsOfRow(p) = TermsOfRow(r)
           /\ review'[u].status # "none" => reversals # {}
           /\ Waiting(u)' => \A r \in reversals : TermsOfRow(r) = TermsOf(review'[u].event)
           /\ review'[u].status = "resolved" =>
                /\ purchases # {}
                /\ \A p \in purchases, r \in reversals : TermsOfRow(p) = TermsOfRow(r)
    BY <1>3 DEF Matched
  <2>1. u # s /\ ~Decided(u)
    BY <1>1
  <2> QED
    BY <2>1, <1>2, <1>3, <1>4, <1>5 DEF Matched
<1> QED
  BY <1>7, <1>8, <1>9, <1>10, <1>11, <1>12

(* A registration commits, under the lock of its sale. Only the goroutine  *)
(* that commits was there, so what the others saw is of other sales.       *)
LEMMA PairCommit ==
  ASSUME PairInv, NEW e \in Registrations, CommitRegistration(e)
  PROVE  PairParts'
<1> USE DEF PairInv, PairParts
<1> DEFINE s == SaleOf[e]
           t == TransactionOf(e, reg[e].b)
<1>1. /\ UNCHANGED audit /\ BeforeTheLock(e) /\ reg'[e].pc = "idle"
      /\ reg[e].pc = "reviewed"
      /\ t \in Rows /\ TermsOfRow(t) = TermsOf(e) /\ t.sale = s
      /\ rows \subseteq rows'
      /\ \A r \in rows' : \/ r \in rows
                          \/ r = t /\ Recorded(t.sale, t.type) = {}
                          \/ r \in Rows /\ r.type = "REVERSAL" /\ Decided(r.sale)
      /\ Recorded(t.sale, t.type) = {} => t \in rows'
  BY CommitSteps
<1>2. t.type = IF e \in Approvals THEN "PURCHASE" ELSE "REVERSAL"
  BY DEF TransactionOf
<1>3. s \in Sales
  BY SettlementAssumption
<1>4. review' = IF e \in Approvals THEN ReconcileReversalReview(e)
                                   ELSE InsertReversalReview(e)
  BY DEF CommitRegistration
<1>5. \A u \in Sales \ {s} : review'[u] = review[u]
  BY CommitReviews
<1>6. \A f \in Registrations :
        reg'[f].pc = "reviewed" => reg'[f] = reg[f] /\ SaleOf[f] # s
  BY <1>1 DEF BeforeTheLock, RegMoves, OneInPair
<1>7. /\ \A u : Decided(u)' <=> Decided(u)
      /\ \A u \in Sales \ {s} : Waiting(u)' <=> Waiting(u)
      /\ \A r : TermsOfRow(r)' = TermsOfRow(r)
      /\ \A f : TermsOf(f)' = TermsOf(f)
  BY <1>1, <1>5 DEF Decided, Waiting, TermsOfRow, TermsOf
<1> HIDE DEF s, t
<1>8. \A u : u # s => Recorded(u, "PURCHASE")' = Recorded(u, "PURCHASE")
  BY <1>1 DEF Recorded
<1>9. \A u : u # s /\ ~Decided(u) => Recorded(u, "REVERSAL")' = Recorded(u, "REVERSAL")
  BY <1>1 DEF Recorded
<1>10. OnePurchase'
  BY <1>1, <1>2 DEF OnePurchase, Recorded
<1>11. OneInPair'
  BY <1>6 DEF OneInPair
<1>12. \A f \in Registrations : SaleOf[f] \in Sales
  BY SettlementAssumption
<1>13. PurchaseSees'
  BY <1>6, <1>7, <1>12 DEF PurchaseSees, Registrations
<1>14. ReversalSees'
  BY <1>6, <1>7, <1>8, <1>12 DEF ReversalSees
<1> DEFINE P == Recorded(s, "PURCHASE")
           R == Recorded(s, "REVERSAL")
           P1 == Recorded(s, "PURCHASE")'
           R1 == Recorded(s, "REVERSAL")'
           MatchedHere ==
             ~Decided(s) =>
               /\ review'[s].status = "none" =>
                    \A r \in R1 : P1 # {} /\ \A p \in P1 : TermsOfRow(p) = TermsOfRow(r)
               /\ review'[s].status # "none" => R1 # {}
               /\ Waiting(s)' => \A r \in R1 : TermsOfRow(r) = TermsOf(review'[s].event)
               /\ review'[s].status = "resolved" =>
                    P1 # {} /\ \A p \in P1, r \in R1 : TermsOfRow(p) = TermsOfRow(r)
<1>15. (Waiting(s)' => P1 = {}) /\ MatchedHere
  <2>0. ReviewShape
    BY DEF Shape
  <2>1. CASE e \in Approvals
    <3>1. P1 = IF P = {} THEN {t} ELSE P
      BY <1>1, <1>2, <2>1 DEF Recorded
    <3>2. ~Decided(s) => R1 = R
      BY <1>1, <1>2, <2>1 DEF Recorded
    <3>3. CASE reg[e].seen = "none"
      <4>1. review' = review /\ ~Waiting(s)
        BY <1>1, <1>4, <2>1, <3>3 DEF ReconcileReversalReview, PurchaseSees, s
      <4> QED
        BY <4>1, <1>3, <3>1, <3>2 DEF Waiting, Matched
    <3>4. CASE reg[e].seen # "none"
      <4> DEFINE m == reversalMismatch(TermsOf(e), TermsOf(review[s].event))
      <4>1. Waiting(s) \/ Decided(s)
        BY <1>1, <2>1, <3>4 DEF PurchaseSees, s
      <4>2. review' = IF m = "none" THEN [review EXCEPT ![s].status = "resolved"]
                      ELSE [review EXCEPT ![s].status = "open", ![s].reason = m]
        BY <1>4, <2>1, <3>4 DEF ReconcileReversalReview, s
      <4>3. m # "PURCHASE_NOT_FOUND" /\ (m = "none" => TermsOf(e) = TermsOf(review[s].event))
        BY DEF reversalMismatch, TermsOf
      <4> HIDE DEF m
      <4>4. ~Waiting(s)'
        BY <1>3, <2>0, <4>2, <4>3 DEF Waiting, ReviewShape, NoReview
      <4>5. review'[s].status = IF m = "none" THEN "resolved" ELSE "open"
        BY <1>3, <2>0, <4>2 DEF ReviewShape, NoReview
      <4>6. ~Decided(s) => P = {} /\ R # {} /\ \A r \in R : TermsOfRow(r) = TermsOf(review[s].event)
        BY <1>3, <4>1 DEF Matched, Waiting, NoReversalWaitsForItsPurchase
      <4> QED
        BY <1>1, <3>1, <3>2, <4>3, <4>4, <4>5, <4>6
    <3> QED
      BY <3>3, <3>4
  <2>2. CASE e \notin Approvals
    <3>1. P1 = P
      BY <1>1, <1>2, <2>2 DEF Recorded
    <3>2. ~Decided(s) => R1 = IF R = {} THEN {t} ELSE R
      BY <1>1, <1>2, <2>2 DEF Recorded
    <3>3. /\ reg[e].seen = "PURCHASE_NOT_FOUND" <=> P = {}
          /\ reg[e].seen = "none" => \A p \in P : TermsOfRow(p) = TermsOf(e)
      BY <1>1, <2>2 DEF ReversalSees, s
    <3>4. CASE reg[e].seen = "none" \/ review[s].status # "none"
      <4>1. review' = review
        BY <1>4, <2>2, <3>4 DEF InsertReversalReview, s
      <4>2. Waiting(s) => P = {}
        BY <1>3 DEF Waiting, NoReversalWaitsForItsPurchase
      <4>3. CASE review[s].status = "none"
        BY <1>1, <1>3, <3>1, <3>2, <3>3, <3>4, <4>1, <4>2, <4>3 DEF Waiting, Matched
      <4>4. CASE review[s].status # "none"
        BY <1>3, <3>1, <3>2, <4>1, <4>2, <4>4 DEF Waiting, Matched
      <4> QED
        BY <4>3, <4>4
    <3>5. CASE reg[e].seen # "none" /\ review[s].status = "none"
      <4>1. /\ review'[s].status = "open" /\ review'[s].reason = reg[e].seen
            /\ review'[s].event = e
        BY <1>3, <1>4, <2>0, <2>2, <3>5 DEF InsertReversalReview, ReviewShape, s
      <4>2. Waiting(s)' => P = {}
        BY <3>3, <4>1 DEF Waiting
      <4>3. ~Decided(s) /\ P = {} => R = {}
        BY <1>3, <3>5 DEF Matched
      <4> QED
        BY <1>1, <3>1, <3>2, <4>1, <4>2, <4>3
    <3> QED
      BY <3>4, <3>5
  <2> QED
    BY <2>1, <2>2
<1>16. NoReversalWaitsForItsPurchase'
  <2> SUFFICES ASSUME NEW u \in Sales, Waiting(u)' PROVE Recorded(u, "PURCHASE")' = {}
    BY DEF NoReversalWaitsForItsPurchase, Waiting
  <2>1. CASE u = s
    BY <2>1, <1>15
  <2>2. CASE u # s
    BY <2>2, <1>5, <1>7, <1>8 DEF NoReversalWaitsForItsPurchase, Waiting
  <2> QED
    BY <2>1, <2>2
<1>17. Matched'
  <2> SUFFICES ASSUME NEW u \in Sales, ~Decided(u) PROVE
        LET purchases == Recorded(u, "PURCHASE")'
            reversals == Recorded(u, "REVERSAL")'
        IN /\ review'[u].status = "none" =>
                \A r \in reversals : /\ purchases # {}
                                     /\ \A p \in purchases : TermsOfRow(p) = TermsOfRow(r)
           /\ review'[u].status # "none" => reversals # {}
           /\ Waiting(u)' => \A r \in reversals : TermsOfRow(r) = TermsOf(review'[u].event)
           /\ review'[u].status = "resolved" =>
                /\ purchases # {}
                /\ \A p \in purchases, r \in reversals : TermsOfRow(p) = TermsOfRow(r)
    BY <1>7 DEF Matched
  <2>1. CASE u = s
    BY <2>1, <1>15
  <2>2. CASE u # s
    BY <2>2, <1>5, <1>7, <1>8, <1>9 DEF Matched
  <2> QED
    BY <2>1, <2>2
<1> QED
  BY <1>10, <1>11, <1>13, <1>14, <1>16, <1>17

(* It is an invariant. *)
LEMMA PairInvariant == Spec => []PairInv
<1>1. Init => PairInv
  BY InitShape, InitPair DEF PairInv
<1>2. PairInv /\ [Next]_vars => PairInv'
  <2> SUFFICES ASSUME PairInv, [Next]_vars PROVE PairInv'
    OBVIOUS
  <2>1. Shape /\ Shape'
    BY NextShape DEF PairInv
  <2>2. ASSUME NEW e \in Registrations, UNCHANGED <<rows, review, audit, task>>,
               BeforeTheLock(e)
        PROVE  PairParts'
    <3>1. Quiet
      BY <2>2 DEF Quiet
    <3> QED
      BY <2>2, <3>1, PairQuiet
  <2> QED
    BY <2>1, <2>2, Steps, PairQuiet, PairLock, PairDecide, PairCommit DEF PairInv
<1> QED
  BY <1>1, <1>2, PTL DEF Spec

------------------------------------------------------------------------------
(* No reversal goes on waiting for a purchase that is registered.          *)
THEOREM PurchaseIsNoticed == Spec => []NoReversalWaitsForItsPurchase
<1>1. PairInv => NoReversalWaitsForItsPurchase
  BY DEF PairInv, PairParts
<1> QED
  BY <1>1, PairInvariant, PTL

(* A reversal that does not match its purchase is under review, or an      *)
(* operator decided about it.                                              *)
THEOREM MismatchIsSeen == Spec => []MismatchIsReviewed
<1>1. PairInv => MismatchIsReviewed
  <2> SUFFICES ASSUME PairInv, NEW p \in rows, NEW r \in rows,
                      p.type = "PURCHASE", r.type = "REVERSAL", p.sale = r.sale,
                      TermsOfRow(p) # TermsOfRow(r), ~Decided(r.sale)
               PROVE  review[r.sale].status = "open"
    BY DEF MismatchIsReviewed, Decided
  <2>1. /\ r.sale \in Sales
        /\ p \in Recorded(r.sale, "PURCHASE") /\ r \in Recorded(r.sale, "REVERSAL")
    BY DEF PairInv, Shape, Rows, Recorded
  <2>2. review[r.sale].status \notin {"none", "resolved"}
    BY <2>1 DEF PairInv, PairParts, Matched
  <2> QED
    BY <2>1, <2>2 DEF PairInv, Shape, ReviewShape
<1> QED
  BY <1>1, PairInvariant, PTL


------------------------------------------------------------------------------
(* What a goroutine holds of its batch is what the database has, while the *)
(* version is the same.                                                    *)

(* The state in which a goroutine loads its batch. *)
LoadedIn(op) ==
  IF op \in {"Close", "AutoClose", "ForceClose"} THEN "OPEN"
  ELSE IF op = "Resubmit" THEN "CLOSED"
  ELSE IF op \in {"Reopen", "ResolveDispute"} THEN "DISPUTED"
  ELSE "SUBMITTED"

(* Where a task has a batch in memory. *)
Working == {"row", "loaded", "submit", "accepted", "settleSaved", "settleRead"}

(* What the task holds is what the database has. *)
Fresh(t) == Copy(t).version = batch[Batch(t)].version

(* A task that works on a batch holds a version of it, which is the last   *)
(* one only if nothing of the batch has changed.                           *)
GoodTask(t) ==
  task[t].pc \in Working =>
    /\ Batch(t) \in Batches /\ batch[Batch(t)].state # "NONE"
    /\ Copy(t).version \in Nat /\ Copy(t).version <= batch[Batch(t)].version
    /\ Copy(t).state = IF task[t].pc \in {"submit", "accepted"} THEN "CLOSED"
                       ELSE LoadedIn(task[t].op)
    /\ task[t].pc \in {"settleSaved", "settleRead"} => task[t].op = "Settle"
    /\ Fresh(t) => /\ batch[Batch(t)].state = Copy(t).state
                   /\ batch[Batch(t)].summary = Copy(t).summary
                   /\ task[t].pc # "row" => Copy(t).rows = RowsOf(Batch(t))

(* So does the goroutine of a registration, which loads open batches.      *)
GoodReg(e) ==
  reg[e].pc \in {"loaded", "saved", "reviewed"} =>
    LET b == reg[e].b
        copy == reg[e].copy
    IN  /\ b \in Batches /\ batch[b].state # "NONE"
        /\ copy.version \in Nat /\ copy.version <= batch[b].version
        /\ copy.state = "OPEN"
        /\ copy.version = batch[b].version =>
             batch[b].state = "OPEN" /\ copy.rows = RowsOf(b)

(* A batch that nobody opened has no version and no transactions. *)
BatchShape ==
  /\ DOMAIN batch = Batches
  /\ \A b \in Batches :
       /\ DOMAIN batch[b] = DOMAIN NoBatch
       /\ batch[b].version \in Nat
       /\ batch[b].state = "NONE" => batch[b].version = 0 /\ RowsOf(b) = {}

CopyParts ==
  /\ BatchShape
  /\ \A t \in Tasks : GoodTask(t)
  /\ \A e \in Registrations : GoodReg(e)

(* What was sent is recorded. *)
SentIsRecorded ==
  \A t \in Tasks : task[t].pc = "accepted" =>
    [batch |-> Batch(t), totals |-> Copy(t).summary] \in accepted

(* Who may send a batch that it holds as it is saw no reversal under       *)
(* review, and none came since.                                            *)
NoneHeld ==
  \A t \in Tasks :
    /\ task[t].pc \in {"submit", "accepted"} \/ (task[t].pc = "loaded" /\ ~Copy(t).held)
    /\ Fresh(t)
    => \A s \in Sales :
         review[s].status = "open" /\ review[s].batch = Batch(t) => Decided(s)

(* A batch is, or once was, part of what there is to settle. *)
InPlay(b) == RowsOf(b) # {} \/ \E s \in Sales : review[s].batch = b

(* Who settles a merchant's day does so alone, and did not read that the   *)
(* rest is settled only if something of it is not.                         *)
DayIsRead ==
  /\ \A o, p \in Operators :
       /\ task[o].pc = "settleRead" /\ task[p].pc = "settleRead"
       /\ MerchantDay(Batch(o)) = MerchantDay(Batch(p))
       => o = p
  /\ \A o \in Operators : task[o].pc = "settleRead" /\ ~Copy(o).held =>
       \E c \in Batches \ {Batch(o)} :
         /\ MerchantDay(c) = MerchantDay(Batch(o))
         /\ batch[c].state # "SETTLED" /\ InPlay(c)

(* A review stays with its batch, which an operator who decides holds.     *)
ReviewedBatches ==
  /\ \A s \in Sales : review[s].status = "none" => review[s].batch = "none"
  /\ \A o \in Tasks : task[o].pc = "reviewLocked" =>
       review[task[o].sale].batch = Batch(o) /\ review[task[o].sale].status # "none"

(* What a step does to a batch: nothing, *)
Untouched(b) == batch'[b] = batch[b] /\ RowsOf(b)' = RowsOf(b)

(* open it, *)
NowOpen(b) ==
  /\ batch[b].state = "NONE"
  /\ batch'[b] = [batch[b] EXCEPT !.state = "OPEN"]
  /\ RowsOf(b)' = RowsOf(b)

(* or give it another version. *)
Rewritten(b) ==
  /\ batch[b].state # "NONE" /\ batch'[b].state # "NONE"
  /\ batch'[b].version = batch[b].version + 1
  /\ DOMAIN batch'[b] = DOMAIN NoBatch

TablesMove ==
  /\ DOMAIN batch' = Batches
  /\ \A b \in Batches : Untouched(b) \/ NowOpen(b) \/ Rewritten(b)

(* A goroutine that does not move, whatever happens to its batch. *)
LEMMA TablesKeep ==
  ASSUME BatchShape, TablesMove
  PROVE  /\ BatchShape'
         /\ \A t \in Tasks : GoodTask(t) /\ task'[t] = task[t] => GoodTask(t)'
         /\ \A e \in Registrations : GoodReg(e) /\ reg'[e] = reg[e] => GoodReg(e)'
<1>1. BatchShape'
  BY DEF BatchShape, TablesMove, Untouched, NowOpen, Rewritten, NoBatch
<1>2. ASSUME NEW b \in Batches, batch[b].state # "NONE", NEW v \in Nat, v <= batch[b].version
      PROVE  /\ batch'[b].state # "NONE" /\ v <= batch'[b].version
             /\ v = batch'[b].version =>
                  v = batch[b].version /\ batch'[b] = batch[b] /\ RowsOf(b)' = RowsOf(b)
  <2>1. batch[b].version \in Nat /\ (Untouched(b) \/ Rewritten(b))
    BY <1>2 DEF BatchShape, TablesMove, NowOpen
  <2> QED
    BY <1>2, <2>1 DEF Untouched, Rewritten
<1>3. ASSUME NEW t \in Tasks, GoodTask(t), task'[t] = task[t] PROVE GoodTask(t)'
  <2> SUFFICES ASSUME task[t].pc \in Working PROVE GoodTask(t)'
    BY <1>3 DEF GoodTask
  <2>1. /\ Batch(t)' = Batch(t) /\ Copy(t)' = Copy(t)
        /\ Batch(t) \in Batches /\ batch[Batch(t)].state # "NONE"
        /\ Copy(t).version \in Nat /\ Copy(t).version <= batch[Batch(t)].version
    BY <1>3 DEF GoodTask, Batch, Copy
  <2>2. /\ batch'[Batch(t)].state # "NONE" /\ Copy(t).version <= batch'[Batch(t)].version
        /\ Copy(t).version = batch'[Batch(t)].version =>
             /\ Copy(t).version = batch[Batch(t)].version
             /\ batch'[Batch(t)] = batch[Batch(t)]
             /\ RowsOf(Batch(t))' = RowsOf(Batch(t))
    <3>1. PICK b \in Batches : b = Batch(t)
      BY <2>1
    <3>2. RowsOf(b)' = RowsOf(Batch(t))'
      BY <2>1, <3>1 DEF RowsOf
    <3> QED
      BY <1>2, <2>1, <3>1, <3>2
  <2> QED
    BY <1>3, <2>1, <2>2 DEF GoodTask, Fresh
<1>4. ASSUME NEW e \in Registrations, GoodReg(e), reg'[e] = reg[e] PROVE GoodReg(e)'
  <2> SUFFICES ASSUME reg[e].pc \in {"loaded", "saved", "reviewed"} PROVE GoodReg(e)'
    BY <1>4 DEF GoodReg
  <2>1. PICK b \in Batches : b = reg[e].b
    BY <1>4 DEF GoodReg
  <2>2. RowsOf(b)' = RowsOf(reg[e].b)'
    BY <1>4, <2>1 DEF RowsOf
  <2> QED
    BY <1>2, <1>4, <2>1, <2>2 DEF GoodReg
<1> QED
  BY <1>1, <1>3, <1>4

(* A step that leaves the tables alone does nothing to any batch.          *)
LEMMA NothingMoves ==
  ASSUME BatchShape, UNCHANGED <<batch, rows>> PROVE TablesMove
  BY DEF BatchShape, TablesMove, Untouched, RowsOf

(* So a step of the goroutine of a task keeps what the others hold.        *)
LEMMA TaskKeepsCopies ==
  ASSUME CopyParts, TablesMove, UNCHANGED reg, NEW t \in Tasks,
         \A u \in Tasks \ {t} : task'[u] = task[u], GoodTask(t)'
  PROVE  CopyParts'
<1>1. BatchShape /\ (\A u \in Tasks : GoodTask(u)) /\ \A e \in Registrations : GoodReg(e)
  BY DEF CopyParts
<1>2. \A u \in Tasks : GoodTask(u)'
  BY <1>1, TablesKeep
<1>3. \A e \in Registrations : GoodReg(e)'
  BY <1>1, TablesKeep
<1> QED
  BY <1>1, <1>2, <1>3, TablesKeep DEF CopyParts

(* And a step of the goroutine of a registration.                          *)
LEMMA RegKeepsCopies ==
  ASSUME CopyParts, TablesMove, UNCHANGED task, NEW e \in Registrations,
         \A f \in Registrations \ {e} : reg'[f] = reg[f], GoodReg(e)'
  PROVE  CopyParts'
<1>1. BatchShape /\ (\A u \in Tasks : GoodTask(u)) /\ \A f \in Registrations : GoodReg(f)
  BY DEF CopyParts
<1>2. \A u \in Tasks : GoodTask(u)'
  BY <1>1, TablesKeep
<1>3. \A f \in Registrations : GoodReg(f)'
  BY <1>1, TablesKeep
<1> QED
  BY <1>1, <1>2, <1>3, TablesKeep DEF CopyParts

------------------------------------------------------------------------------
(* Saving a batch.                                                         *)

(* The UPDATE of a goroutine that holds the last version.                  *)
LEMMA SaveTxMoves ==
  ASSUME BatchShape, NEW b \in Batches, batch[b].state # "NONE", NEW copy, NEW new,
         new.state # "NONE", NEW rs, \A r \in rs : r \in rows \/ r.batch = b,
         SaveTx(b, copy, new, rs)
  PROVE  /\ TablesMove /\ Rewritten(b)
         /\ \A c \in Batches \ {b} : Untouched(c)
         /\ batch'[b].state = new.state /\ batch'[b].summary = new.summary
         /\ batch[b].version = copy.version /\ batch'[b].version = copy.version + 1
         /\ rows \subseteq rows' /\ rows' \subseteq rows \cup rs
<1>1. /\ batch[b].version = copy.version
      /\ batch' = [batch EXCEPT ![b] =
           [state |-> new.state, version |-> copy.version + 1,
            summary |-> new.summary, disputed |-> new.disputed]]
      /\ rows' = InsertMissing(rs)
  BY DEF SaveTx, VersionMatches
<1>2. rows \subseteq rows' /\ rows' \subseteq rows \cup rs
  BY <1>1 DEF InsertMissing
<1>3. /\ DOMAIN batch' = Batches
      /\ batch'[b] = [state |-> new.state, version |-> copy.version + 1,
                      summary |-> new.summary, disputed |-> new.disputed]
      /\ \A c \in Batches \ {b} : batch'[c] = batch[c]
  BY <1>1 DEF BatchShape
<1>4. Rewritten(b)
  BY <1>1, <1>3 DEF Rewritten, BatchShape, NoBatch
<1>5. \A c \in Batches \ {b} : RowsOf(c)' = RowsOf(c)
  BY <1>2 DEF RowsOf
<1>6. \A c \in Batches \ {b} : Untouched(c)
  BY <1>3, <1>5 DEF Untouched
<1>7. TablesMove
  BY <1>3, <1>4, <1>6 DEF TablesMove
<1> QED
  BY <1>1, <1>2, <1>3, <1>4, <1>6, <1>7

(* A task saved its batch, which was as the task holds it. *)
SavesBatch(t, new) ==
  /\ Batch(t) \in Batches /\ Fresh(t)
  /\ batch[Batch(t)].state = Copy(t).state
  /\ batch[Batch(t)].summary = Copy(t).summary
  /\ Copy(t).rows = RowsOf(Batch(t))
  /\ TablesMove /\ Rewritten(Batch(t))
  /\ \A c \in Batches \ {Batch(t)} : batch'[c] = batch[c]
  /\ batch'[Batch(t)].state = new.state /\ batch'[Batch(t)].summary = new.summary
  /\ batch'[Batch(t)].version = Copy(t).version + 1
  /\ rows' = rows

(* A task whose UPDATE applies saves the batch that the database has.      *)
LEMMA TaskSaves ==
  ASSUME CopyParts, NEW t \in Tasks, task[t].pc \in Working, task[t].pc # "row",
         NEW new, new.state # "NONE", SaveTx(Batch(t), Copy(t), new, Copy(t).rows)
  PROVE  SavesBatch(t, new)
<1>1. BatchShape /\ GoodTask(t)
  BY DEF CopyParts
<1>2. Batch(t) \in Batches /\ batch[Batch(t)].state # "NONE"
  BY <1>1 DEF GoodTask
<1>3. Fresh(t)
  BY DEF SaveTx, VersionMatches, Fresh
<1>4. /\ batch[Batch(t)].state = Copy(t).state
      /\ batch[Batch(t)].summary = Copy(t).summary
      /\ Copy(t).rows = RowsOf(Batch(t))
  BY <1>1, <1>3 DEF GoodTask
<1>5. \A r \in Copy(t).rows : r \in rows
  BY <1>4 DEF RowsOf
<1>6. /\ TablesMove /\ Rewritten(Batch(t))
      /\ \A c \in Batches \ {Batch(t)} : Untouched(c)
      /\ batch'[Batch(t)].state = new.state /\ batch'[Batch(t)].summary = new.summary
      /\ batch'[Batch(t)].version = Copy(t).version + 1
      /\ rows \subseteq rows' /\ rows' \subseteq rows \cup Copy(t).rows
  BY <1>1, <1>2, <1>5, SaveTxMoves
<1>7. rows' = rows
  BY <1>5, <1>6
<1> QED
  BY <1>2, <1>3, <1>4, <1>6, <1>7 DEF SavesBatch, Untouched

------------------------------------------------------------------------------
(* The registrations.                                                      *)

(* A registration that does not commit. *)
RegReads(e) ==
  /\ UNCHANGED <<rows, review, processed, outbox, audit, accepted, task>>
  /\ TablesMove
  /\ \A b \in Batches : ~Rewritten(b)
  /\ \A f \in Registrations \ {e} : reg'[f] = reg[f]
  /\ GoodReg(e)'

(* A registration that does. *)
RegCommits(e) ==
  /\ UNCHANGED <<outbox, audit, accepted, task>>
  /\ TablesMove
  /\ \A f \in Registrations \ {e} : reg'[f] = reg[f]
  /\ GoodReg(e)'
  /\ reg[e].b \in Batches /\ Rewritten(reg[e].b)
  /\ \A c \in Batches \ {reg[e].b} : Untouched(c)
  /\ batch[reg[e].b].state = "OPEN" /\ batch'[reg[e].b].state = "OPEN"
  /\ rows \subseteq rows'

(* Every step of a registration is one of these.                           *)
LEMMA RegCopySteps ==
  ASSUME Shape, CopyParts, NEW e \in Registrations,
         \/ e \in Recoveries /\ RecoverReversals(e)
         \/ FindOrCreateOpen(e) \/ SaveRegistration(e) \/ LockReversalPair(e)
         \/ CommitRegistration(e) \/ AbandonRegistration(e)
  PROVE  RegReads(e) \/ (RegCommits(e) /\ CommitRegistration(e))
<1>0. /\ RegShape /\ BatchShape /\ GoodReg(e)
      /\ rows \subseteq Rows
  BY DEF Shape, CopyParts
<1>r. /\ DOMAIN reg = Registrations /\ DOMAIN reg[e] = {"pc", "b", "seen", "copy"}
  BY <1>0 DEF RegShape
<1>n. \A b \in Batches : batch'[b] = batch[b] => ~Rewritten(b)
  BY <1>0 DEF Rewritten, BatchShape
<1>1. ASSUME UNCHANGED <<batch, rows, review, processed, outbox, audit, accepted, task>>,
             NEW r, reg' = [reg EXCEPT ![e] = r],
             r.pc \in {"loaded", "saved", "reviewed"} =>
               /\ reg[e].pc \in {"loaded", "saved", "reviewed"}
               /\ r.b = reg[e].b /\ r.copy = reg[e].copy
      PROVE  RegReads(e)
  <2>1. reg'[e] = r /\ \A f \in Registrations \ {e} : reg'[f] = reg[f]
    BY <1>1, <1>r
  <2>2. GoodReg(e)'
    <3>1. SUFFICES ASSUME r.pc \in {"loaded", "saved", "reviewed"} PROVE GoodReg(e)'
      BY <2>1 DEF GoodReg
    <3>2. RowsOf(r.b)' = RowsOf(r.b)
      BY <1>1 DEF RowsOf
    <3> QED
      BY <1>0, <1>1, <2>1, <3>1, <3>2 DEF GoodReg
  <2> QED
    BY <1>0, <1>1, <1>n, <2>1, <2>2, NothingMoves DEF RegReads
<1>2. CASE e \in Recoveries /\ RecoverReversals(e)
  <2> DEFINE r == [reg[e] EXCEPT !.pc = "idle"]
  <2>1. reg' = [reg EXCEPT ![e] = r] /\ r.pc = "idle"
    BY <1>2, <1>r DEF RecoverReversals
  <2> QED
    BY <1>1, <1>2, <2>1 DEF RecoverReversals, db
<1>3. CASE SaveRegistration(e) /\ VersionMatches(reg[e].b, reg[e].copy)
  <2> DEFINE r == [reg[e] EXCEPT !.pc = "saved"]
  <2>1. reg' = [reg EXCEPT ![e] = r] /\ r.b = reg[e].b /\ r.copy = reg[e].copy
    BY <1>3, <1>r DEF SaveRegistration
  <2>2. reg[e].pc = "loaded"
    BY <1>3 DEF SaveRegistration
  <2> QED
    BY <1>1, <1>3, <2>1, <2>2 DEF SaveRegistration, db
<1>4. CASE \/ SaveRegistration(e) /\ ~VersionMatches(reg[e].b, reg[e].copy)
           \/ AbandonRegistration(e)
  <2>1. reg' = [reg EXCEPT ![e] = Restarted(e)] /\ Restarted(e).pc = "idle"
    BY <1>4, <1>r DEF SaveRegistration, AbandonRegistration, Restarted
  <2> QED
    BY <1>1, <1>4, <2>1 DEF SaveRegistration, AbandonRegistration, db
<1>5. CASE LockReversalPair(e)
  <2> DEFINE r == [reg[e] EXCEPT !.pc = "reviewed", !.seen = SeenBy(e)]
  <2>1. reg' = [reg EXCEPT ![e] = r] /\ r.b = reg[e].b /\ r.copy = reg[e].copy
    BY <1>5, <1>r DEF LockReversalPair
  <2>2. reg[e].pc = "saved"
    BY <1>5 DEF LockReversalPair
  <2> QED
    BY <1>1, <1>5, <2>1, <2>2 DEF LockReversalPair, db
<1>6. CASE FindOrCreateOpen(e)
  <2>1. UNCHANGED <<rows, review, processed, outbox, audit, accepted, task>>
    BY <1>6 DEF FindOrCreateOpen
  <2>2. ASSUME NEW b \in OpenOf(KeyOf[e]),
               reg' = [reg EXCEPT ![e].pc = "loaded", ![e].b = b, ![e].copy = FullCopy(b)],
               UNCHANGED batch
        PROVE  RegReads(e)
    <3>1. /\ reg'[e].pc = "loaded" /\ reg'[e].b = b /\ reg'[e].copy = FullCopy(b)
          /\ \A f \in Registrations \ {e} : reg'[f] = reg[f]
      BY <2>2, <1>r
    <3>2. b \in Batches /\ batch[b].state = "OPEN" /\ batch[b].version \in Nat
      BY <1>0, <2>2 DEF OpenOf, BatchShape
    <3>3. /\ FullCopy(b).version = batch[b].version /\ FullCopy(b).state = batch[b].state
          /\ FullCopy(b).rows = RowsOf(b)
      BY DEF FullCopy, RowCopy, NoCopy
    <3>4. RowsOf(b)' = RowsOf(b)
      BY <2>1 DEF RowsOf
    <3>5. GoodReg(e)'
      BY <2>2, <3>1, <3>2, <3>3, <3>4 DEF GoodReg
    <3> QED
      BY <1>0, <1>n, <2>1, <2>2, <3>1, <3>5, NothingMoves DEF RegReads
  <2>3. ASSUME NEW b \in Batches, batch[b].state = "NONE",
               batch' = [batch EXCEPT ![b].state = "OPEN"],
               reg' = [reg EXCEPT ![e].pc = "loaded", ![e].b = b,
                                  ![e].copy = [NoCopy EXCEPT !.state = "OPEN"]]
        PROVE  RegReads(e)
    <3> DEFINE copy == [NoCopy EXCEPT !.state = "OPEN"]
    <3>0. copy.version = 0 /\ copy.state = "OPEN" /\ copy.rows = {}
      BY DEF NoCopy
    <3> HIDE DEF copy
    <3>1. /\ reg'[e].pc = "loaded" /\ reg'[e].b = b /\ reg'[e].copy = copy
          /\ \A f \in Registrations \ {e} : reg'[f] = reg[f]
      BY <2>3, <1>r DEF copy
    <3>2. /\ DOMAIN batch' = Batches
          /\ batch'[b] = [batch[b] EXCEPT !.state = "OPEN"]
          /\ \A c \in Batches \ {b} : batch'[c] = batch[c]
      BY <1>0, <2>3 DEF BatchShape
    <3>3. /\ batch'[b].version = 0 /\ batch'[b].state = "OPEN"
          /\ RowsOf(b) = {}
      BY <1>0, <2>3, <3>2 DEF BatchShape, NoBatch
    <3>4. \A c : RowsOf(c)' = RowsOf(c)
      BY <2>1 DEF RowsOf
    <3>5. GoodReg(e)'
      BY <3>0, <3>1, <3>3, <3>4 DEF GoodReg
    <3>6. TablesMove
      BY <2>3, <3>2, <3>4 DEF TablesMove, Untouched, NowOpen
    <3>7. \A c \in Batches : ~Rewritten(c)
      BY <1>n, <2>3, <3>2 DEF Rewritten
    <3> QED
      BY <2>1, <3>1, <3>5, <3>6, <3>7 DEF RegReads
  <2> QED
    BY <1>6, <2>2, <2>3 DEF FindOrCreateOpen
<1>7. CASE CommitRegistration(e)
  <2> DEFINE b == reg[e].b
             copy == reg[e].copy
             rs == copy.rows \cup {TransactionOf(e, b)}
  <2>1. /\ reg[e].pc = "reviewed"
        /\ SaveTx(b, copy, copy, rs)
        /\ reg' = [reg EXCEPT ![e] = Restarted(e)]
        /\ UNCHANGED <<outbox, audit, accepted, task>>
    BY <1>7 DEF CommitRegistration
  <2>2. batch[b].version = copy.version
    BY <2>1 DEF SaveTx, VersionMatches
  <2>3. /\ b \in Batches /\ batch[b].state = "OPEN" /\ copy.state = "OPEN"
        /\ copy.rows = RowsOf(b)
    BY <1>0, <2>1, <2>2 DEF GoodReg
  <2>4. \A r \in rs : r \in rows \/ r.batch = b
    BY <2>3 DEF RowsOf, TransactionOf
  <2> HIDE DEF rs
  <2>5. /\ TablesMove /\ Rewritten(b)
        /\ \A c \in Batches \ {b} : Untouched(c)
        /\ batch'[b].state = "OPEN"
        /\ rows \subseteq rows'
    BY <1>0, <2>1, <2>3, <2>4, SaveTxMoves
  <2>6. /\ \A f \in Registrations \ {e} : reg'[f] = reg[f]
        /\ GoodReg(e)'
    BY <2>1, <1>r DEF Restarted, GoodReg
  <2> QED
    BY <1>7, <2>1, <2>3, <2>5, <2>6 DEF RegCommits
<1> QED
  BY <1>2, <1>3, <1>4, <1>5, <1>6, <1>7

------------------------------------------------------------------------------
(* The tasks.                                                              *)

(* A goroutine that does not work on a batch holds nothing of it. *)
LEMMA NotWorking ==
  ASSUME NEW t \in Tasks, task'[t].pc \notin Working PROVE GoodTask(t)'
  BY DEF GoodTask, Working

(* The goroutine ends, or starts again. *)
LEMMA EndedIsGood ==
  ASSUME TaskShape, NEW t \in Tasks, Ended(t) \/ Restart(t)
  PROVE  /\ task'[t].pc \in {"idle", "done"}
         /\ \A u \in Tasks \ {t} : task'[u] = task[u]
         /\ GoodTask(t)'
<1>1. /\ task'[t].pc \in {"idle", "done"}
      /\ \A u \in Tasks \ {t} : task'[u] = task[u]
  BY DEF TaskShape, Ended, Restart, Idle
<1> QED
  BY <1>1, NotWorking DEF Working

(* It reads the row of a batch that is as it must be. *)
LEMMA ReadIsGood ==
  ASSUME BatchShape, TaskShape, NEW t \in Tasks, NEW op, NEW b \in Batches,
         batch[b].state = LoadedIn(op), ReadRow(t, op, b), UNCHANGED batch
  PROVE  /\ task'[t].pc = "row"
         /\ \A u \in Tasks \ {t} : task'[u] = task[u]
         /\ GoodTask(t)'
<1>1. /\ task'[t] = [Idle EXCEPT !.pc = "row", !.op = op, !.b = b, !.copy = RowCopy(b)]
      /\ \A u \in Tasks \ {t} : task'[u] = task[u]
  BY DEF TaskShape, ReadRow
<1>2. /\ task'[t].pc = "row" /\ task'[t].op = op /\ task'[t].b = b
      /\ task'[t].copy = RowCopy(b)
  BY <1>1 DEF Idle
<1>3. /\ RowCopy(b).version = batch[b].version /\ RowCopy(b).state = batch[b].state
      /\ RowCopy(b).summary = batch[b].summary
  BY DEF RowCopy, NoCopy
<1>4. batch[b].state # "NONE" /\ batch[b].version \in Nat
  BY DEF LoadedIn, BatchShape
<1>5. GoodTask(t)'
  BY <1>2, <1>3, <1>4 DEF GoodTask, Batch, Copy, Fresh
<1> QED
  BY <1>1, <1>2, <1>5

(* It goes on with what it holds. *)
LEMMA GoesOn ==
  ASSUME TaskShape, NEW t \in Tasks, GoodTask(t), UNCHANGED <<batch, rows>>,
         task[t].pc \in Working, task[t].pc # "row",
         NEW pc \in Working \ {"row"},
         task' = [task EXCEPT ![t].pc = pc],
         pc \in {"submit", "accepted"} => Copy(t).state = "CLOSED",
         pc \in {"settleSaved", "settleRead"} => task[t].op = "Settle",
         task[t].pc \in {"submit", "accepted"} => pc \in {"submit", "accepted"}
  PROVE  /\ task'[t].pc = pc /\ Batch(t)' = Batch(t) /\ Copy(t)' = Copy(t)
         /\ \A u \in Tasks \ {t} : task'[u] = task[u]
         /\ GoodTask(t)'
<1>1. /\ task'[t] = [task[t] EXCEPT !.pc = pc]
      /\ \A u \in Tasks \ {t} : task'[u] = task[u]
      /\ DOMAIN task[t] = {"pc", "op", "b", "sale", "copy"}
  BY DEF TaskShape, Idle
<1>2. /\ task'[t].pc = pc /\ task'[t].op = task[t].op
      /\ task'[t].b = task[t].b /\ task'[t].copy = task[t].copy
  BY <1>1
<1>3. RowsOf(Batch(t))' = RowsOf(Batch(t))
  BY <1>2 DEF RowsOf, Batch
<1>4. Batch(t)' = Batch(t) /\ Copy(t)' = Copy(t)
  BY <1>2 DEF Batch, Copy
<1>5. GoodTask(t)'
  BY <1>2, <1>3, <1>4 DEF GoodTask, Fresh, LoadedIn
<1> QED
  BY <1>1, <1>2, <1>4, <1>5

(* A step of a task that leaves the tables alone. *)
TaskReads(t) ==
  /\ UNCHANGED <<batch, rows, review, processed, outbox, audit, reg>>
  /\ \A u \in Tasks \ {t} : task'[u] = task[u]
  /\ GoodTask(t)'
  /\ \/ task'[t].pc \in {"idle", "done", "row"} /\ UNCHANGED accepted
     \/ LoadTransactions(t) \/ SubmitToProcessor(t)
     \/ t \in Operators /\ (\/ ResubmitBatch(t) \/ SaveSettled(t)
                            \/ LockMerchantDay(t) \/ LockReversalReview(t))

(* Loading the transactions is such a step.                                *)
LEMMA LoadIsGood ==
  ASSUME TaskShape, NEW t \in Tasks, GoodTask(t), LoadTransactions(t)
  PROVE  TaskReads(t)
<1>1. /\ task[t].pc = "row"
      /\ UNCHANGED <<batch, rows, review, processed, outbox, audit, reg>>
      /\ task' = [task EXCEPT ![t].pc = "loaded",
               ![t].copy.rows = RowsOf(Batch(t)),
               ![t].copy.held = openReviews(Batch(t)),
               ![t].copy.differs = task[t].op = "Close"
                                   /\ TerminalDiffers(t, RowsOf(Batch(t)))]
  BY DEF LoadTransactions, db
<1>2. /\ DOMAIN task = Tasks /\ DOMAIN task[t] = DOMAIN Idle
      /\ DOMAIN task[t].copy = DOMAIN NoCopy
  BY DEF TaskShape
<1>3. /\ task'[t].pc = "loaded" /\ task'[t].op = task[t].op /\ task'[t].b = task[t].b
      /\ \A u \in Tasks \ {t} : task'[u] = task[u]
  BY <1>1, <1>2 DEF Idle
<1>4. /\ task'[t].copy.version = Copy(t).version /\ task'[t].copy.state = Copy(t).state
      /\ task'[t].copy.summary = Copy(t).summary
      /\ task'[t].copy.rows = RowsOf(Batch(t))
  BY <1>1, <1>2 DEF Idle, NoCopy, Copy
<1>5. RowsOf(Batch(t))' = RowsOf(Batch(t)) /\ Batch(t)' = Batch(t)
  BY <1>1, <1>3 DEF RowsOf, Batch
<1>6. GoodTask(t)'
  BY <1>1, <1>3, <1>4, <1>5 DEF GoodTask, Working, Fresh, Copy
<1> QED
  BY <1>1, <1>3, <1>6 DEF TaskReads

(* Every such step is one of these. *)
LEMMA ReadSteps ==
  ASSUME Shape, CopyParts, NEW t \in Tasks,
         \/ t \in Closes /\ (FindOpenByTerminal(t) \/ CloseAlreadyProcessed(t))
         \/ t \in Runs /\ (FindStaleOpen(t) \/ AutoCloseAlreadyProcessed(t))
         \/ t \in Operators /\ (\/ FindByID(t) \/ ResubmitBatch(t) \/ SaveSettled(t)
                                \/ LockMerchantDay(t) \/ LockReversalReview(t))
         \/ LoadTransactions(t) \/ Stale(t) \/ SubmitToProcessor(t) \/ AbandonTask(t)
         \/ SaveSubmitted(t) /\ ~VersionMatches(Batch(t), Copy(t))
  PROVE  TaskReads(t)
<1>0. TaskShape /\ BatchShape /\ GoodTask(t)
  BY DEF Shape, CopyParts
<1>1. ASSUME Ended(t) \/ Restart(t), UNCHANGED <<db, accepted, reg>>
      PROVE  TaskReads(t)
  BY <1>0, <1>1, EndedIsGood DEF TaskReads, db
<1>2. ASSUME NEW op, NEW b \in Batches, batch[b].state = LoadedIn(op),
             ReadRow(t, op, b), UNCHANGED <<db, accepted, reg>>
      PROVE  TaskReads(t)
  BY <1>0, <1>2, ReadIsGood DEF TaskReads, db
<1>3. CASE t \in Closes /\ (FindOpenByTerminal(t) \/ CloseAlreadyProcessed(t))
  BY <1>1, <1>2, <1>3 DEF FindOpenByTerminal, CloseAlreadyProcessed, OpenOf, LoadedIn
<1>4. CASE t \in Runs /\ (FindStaleOpen(t) \/ AutoCloseAlreadyProcessed(t))
  BY <1>1, <1>2, <1>4 DEF FindStaleOpen, AutoCloseAlreadyProcessed, LoadedIn
<1>5. CASE t \in Operators /\ FindByID(t)
  <2>1. PICK b \in Batches, op \in {"ForceClose", "Resubmit", "Reopen",
                                    "ResolveDispute", "Settle"} :
          batch[b].state = RequiredState(op) /\ ReadRow(t, op, b)
    BY <1>5 DEF FindByID
  <2>2. RequiredState(op) = LoadedIn(op)
    BY DEF RequiredState, LoadedIn
  <2> QED
    BY <1>2, <1>5, <2>1, <2>2 DEF FindByID
<1>6. CASE LoadTransactions(t)
  BY <1>0, <1>6, LoadIsGood
<1>7. CASE t \in Operators /\ ResubmitBatch(t)
  <2>1. /\ task[t].pc = "loaded" /\ task[t].op = "Resubmit"
        /\ task' = [task EXCEPT ![t].pc = "submit"]
        /\ UNCHANGED <<batch, rows, review, processed, outbox, audit, reg>>
    BY <1>7 DEF ResubmitBatch, db
  <2>2. Copy(t).state = "CLOSED"
    BY <1>0, <2>1 DEF GoodTask, Working, LoadedIn
  <2>3. GoodTask(t)' /\ \A u \in Tasks \ {t} : task'[u] = task[u]
    BY <1>0, <2>1, <2>2, GoesOn DEF Working
  <2> QED
    BY <1>7, <2>1, <2>3 DEF TaskReads
<1>8. CASE t \in Operators /\ SaveSettled(t)
  <2>1. /\ task[t].pc = "loaded" /\ task[t].op = "Settle"
        /\ task' = [task EXCEPT ![t].pc = "settleSaved"]
        /\ UNCHANGED <<batch, rows, review, processed, outbox, audit, reg>>
    BY <1>8 DEF SaveSettled, db
  <2>2. GoodTask(t)' /\ \A u \in Tasks \ {t} : task'[u] = task[u]
    BY <1>0, <2>1, GoesOn DEF Working
  <2> QED
    BY <1>8, <2>1, <2>2 DEF TaskReads
<1>9. CASE SubmitToProcessor(t)
  <2>1. /\ task[t].pc = "submit"
        /\ task' = [task EXCEPT ![t].pc = "accepted"]
        /\ UNCHANGED <<batch, rows, review, processed, outbox, audit, reg>>
    BY <1>9 DEF SubmitToProcessor, db
  <2>2. Copy(t).state = "CLOSED"
    BY <1>0, <2>1 DEF GoodTask, Working
  <2>3. GoodTask(t)' /\ \A u \in Tasks \ {t} : task'[u] = task[u]
    BY <1>0, <2>1, <2>2, GoesOn DEF Working
  <2> QED
    BY <1>9, <2>1, <2>3 DEF TaskReads
<1>10. CASE t \in Operators /\ LockMerchantDay(t)
  <2>1. PICK h : task' = [task EXCEPT ![t].pc = "settleRead", ![t].copy.held = h]
    BY <1>10 DEF LockMerchantDay
  <2>2. /\ task[t].pc = "settleSaved"
        /\ UNCHANGED <<batch, rows, review, processed, outbox, audit, reg>>
    BY <1>10 DEF LockMerchantDay, db
  <2>3. /\ task'[t].pc = "settleRead" /\ task'[t].op = task[t].op
        /\ task'[t].b = task[t].b
        /\ \A u \in Tasks \ {t} : task'[u] = task[u]
    BY <1>0, <2>1 DEF TaskShape, Idle
  <2>4. /\ task'[t].copy.version = Copy(t).version /\ task'[t].copy.state = Copy(t).state
        /\ task'[t].copy.summary = Copy(t).summary /\ task'[t].copy.rows = Copy(t).rows
    BY <1>0, <2>1 DEF TaskShape, Idle, NoCopy, Copy
  <2>5. RowsOf(Batch(t))' = RowsOf(Batch(t)) /\ Batch(t)' = Batch(t)
    BY <2>2, <2>3 DEF RowsOf, Batch
  <2>6. GoodTask(t)'
    BY <1>0, <2>2, <2>3, <2>4, <2>5 DEF GoodTask, Working, Fresh, Copy, LoadedIn
  <2> QED
    BY <1>10, <2>2, <2>3, <2>6 DEF TaskReads
<1>11. CASE t \in Operators /\ LockReversalReview(t)
  <2>1. PICK s \in Sales :
          task' = [task EXCEPT ![t] = [Idle EXCEPT !.pc = "reviewLocked",
                     !.op = "ResolveReview", !.b = review[s].batch, !.sale = s]]
    BY <1>11 DEF LockReversalReview
  <2>2. task'[t].pc = "reviewLocked" /\ \A u \in Tasks \ {t} : task'[u] = task[u]
    BY <1>0, <2>1 DEF TaskShape, Idle
  <2>3. GoodTask(t)'
    BY <2>2, NotWorking DEF Working
  <2> QED
    BY <1>11, <2>2, <2>3 DEF TaskReads, LockReversalReview, db
<1>12. CASE \/ Stale(t) \/ AbandonTask(t)
            \/ SaveSubmitted(t) /\ ~VersionMatches(Batch(t), Copy(t))
  BY <1>1, <1>12 DEF Stale, AbandonTask, SaveSubmitted, db
<1> QED
  BY <1>3, <1>4, <1>5, <1>6, <1>7, <1>8, <1>9, <1>10, <1>11, <1>12

(* What may be saved of a batch, and what the goroutine does next.         *)
MaySave(t, new) ==
  \/ /\ new.state \in {"OPEN", "DISPUTED"}
     /\ Ended(t)
  \/ /\ new.state = "CLOSED"
     /\ new.summary = calculateSummary(Copy(t).rows)
     /\ Ended(t) \/ (/\ task[t].pc = "loaded" /\ ~Copy(t).held
                     /\ Saved(t, new, "submit"))
  \/ /\ new.state = "SUBMITTED" /\ task[t].pc = "accepted"
     /\ new.summary = Copy(t).summary
     /\ Ended(t)
  \/ /\ t \in Operators /\ CommitSettled(t)
     /\ new.state = "SETTLED" /\ new.summary = Copy(t).summary
     /\ Ended(t)

(* A step of a task that saves its batch. *)
TaskCommits(t, new) ==
  /\ UNCHANGED <<review, audit, accepted, reg>>
  /\ outbox \subseteq outbox'
  /\ \A u \in Tasks \ {t} : task'[u] = task[u]
  /\ GoodTask(t)'
  /\ SavesBatch(t, new)
  /\ MaySave(t, new)

(* The goroutine goes on to send what it saved. *)
LEMMA SavedIsGood ==
  ASSUME TaskShape, NEW t \in Tasks, GoodTask(t), task[t].pc \in Working,
         NEW new, new.state = "CLOSED",
         SavesBatch(t, new), Saved(t, new, "submit")
  PROVE  /\ task'[t].pc = "submit" /\ Batch(t)' = Batch(t)
         /\ \A u \in Tasks \ {t} : task'[u] = task[u]
         /\ GoodTask(t)'
<1>1. /\ DOMAIN task = Tasks /\ DOMAIN task[t] = DOMAIN Idle
      /\ DOMAIN task[t].copy = DOMAIN NoCopy
  BY DEF TaskShape
<1>2. /\ task'[t].pc = "submit" /\ task'[t].op = task[t].op /\ task'[t].b = task[t].b
      /\ \A u \in Tasks \ {t} : task'[u] = task[u]
  BY <1>1 DEF Saved, Idle
<1>3. /\ task'[t].copy.version = Copy(t).version + 1 /\ task'[t].copy.state = "CLOSED"
      /\ task'[t].copy.summary = new.summary /\ task'[t].copy.rows = Copy(t).rows
  <2>1. task'[t].copy = [Copy(t) EXCEPT !.version = Copy(t).version + 1,
                           !.state = new.state, !.summary = new.summary,
                           !.disputed = new.disputed]
    BY <1>1 DEF Saved, Idle
  <2> QED
    BY <1>1, <2>1 DEF NoCopy, Copy
<1>4. Batch(t)' = Batch(t)
  BY <1>2 DEF Batch
<1>5. /\ Copy(t).version \in Nat /\ Batch(t) \in Batches
      /\ batch'[Batch(t)].state = "CLOSED" /\ batch'[Batch(t)].summary = new.summary
      /\ batch'[Batch(t)].version = Copy(t).version + 1
      /\ Copy(t).rows = RowsOf(Batch(t))
      /\ rows' = rows
  BY DEF GoodTask, SavesBatch
<1>6. RowsOf(Batch(t))' = RowsOf(Batch(t))
  BY <1>4, <1>5 DEF RowsOf
<1>7. GoodTask(t)'
  BY <1>2, <1>3, <1>4, <1>5, <1>6 DEF GoodTask, Fresh, Copy
<1> QED
  BY <1>2, <1>4, <1>7

(* Every step that saves a batch is one of these. *)
LEMMA SaveSteps ==
  ASSUME Shape, CopyParts, NEW t \in Tasks,
         \/ t \in Closes /\ CommitClose(t)
         \/ t \in Runs /\ CommitAutoClose(t)
         \/ t \in Operators /\ (\/ ForceClose(t) \/ BlockResubmit(t) \/ ReopenBatch(t)
                                \/ ResolveDispute(t) \/ CommitSettled(t))
         \/ SaveSubmitted(t) /\ VersionMatches(Batch(t), Copy(t))
  PROVE  \E new : TaskCommits(t, new)
<1>0. TaskShape /\ BatchShape /\ GoodTask(t)
  BY DEF Shape, CopyParts
<1>1. ASSUME NEW new, new.state # "NONE", task[t].pc \in Working, task[t].pc # "row",
             SaveTx(Batch(t), Copy(t), new, Copy(t).rows), MaySave(t, new),
             UNCHANGED <<review, audit, accepted, reg>>, outbox \subseteq outbox'
      PROVE  TaskCommits(t, new)
  <2>1. SavesBatch(t, new)
    BY <1>1, TaskSaves
  <2>2. GoodTask(t)' /\ \A u \in Tasks \ {t} : task'[u] = task[u]
    BY <1>0, <1>1, <2>1, EndedIsGood, SavedIsGood DEF MaySave
  <2> QED
    BY <1>1, <2>1, <2>2 DEF TaskCommits
<1>2. CASE t \in Closes /\ CommitClose(t)
  <2> DEFINE new == Closed(Copy(t), Copy(t).differs)
  <2>1. /\ new.state \in {"CLOSED", "DISPUTED"}
        /\ new.state = "CLOSED" => ~Copy(t).held
        /\ new.summary = calculateSummary(Copy(t).rows)
    BY DEF Closed
  <2> HIDE DEF new
  <2>2. /\ task[t].pc = "loaded"
        /\ SaveTx(Batch(t), Copy(t), new, Copy(t).rows)
        /\ UNCHANGED <<review, audit, accepted, reg>>
        /\ outbox \subseteq outbox'
        /\ IF new.state = "CLOSED" THEN Saved(t, new, "submit") ELSE Ended(t)
    BY <1>2 DEF CommitClose, new
  <2>3. MaySave(t, new)
    BY <2>1, <2>2 DEF MaySave
  <2> QED
    BY <1>1, <2>1, <2>2, <2>3 DEF Working
<1>3. CASE t \in Runs /\ CommitAutoClose(t)
  <2> DEFINE new == Closed(Copy(t), FALSE)
  <2>1. /\ new.state \in {"CLOSED", "DISPUTED"}
        /\ new.state = "CLOSED" => ~Copy(t).held
        /\ new.summary = calculateSummary(Copy(t).rows)
    BY DEF Closed
  <2> HIDE DEF new
  <2>2. /\ task[t].pc = "loaded"
        /\ SaveTx(Batch(t), Copy(t), new, Copy(t).rows)
        /\ UNCHANGED <<review, audit, accepted, reg>>
        /\ outbox \subseteq outbox'
        /\ IF new.state = "CLOSED" /\ Copy(t).rows # {}
           THEN Saved(t, new, "submit") ELSE Ended(t)
    BY <1>3 DEF CommitAutoClose, new
  <2>3. MaySave(t, new)
    BY <2>1, <2>2 DEF MaySave
  <2> QED
    BY <1>1, <2>1, <2>2, <2>3 DEF Working
<1>4. CASE t \in Operators /\ ForceClose(t)
  <2> DEFINE new == [Closed(Copy(t), FALSE) EXCEPT !.state = "CLOSED"]
  <2>1. new.state = "CLOSED" /\ new.summary = calculateSummary(Copy(t).rows)
    BY DEF Closed
  <2> HIDE DEF new
  <2>2. /\ task[t].pc = "loaded"
        /\ SaveTx(Batch(t), Copy(t), new, Copy(t).rows)
        /\ UNCHANGED <<review, audit, accepted, reg>>
        /\ outbox \subseteq outbox'
        /\ Ended(t)
    BY <1>4 DEF ForceClose, Persist, new
  <2> QED
    BY <1>1, <2>1, <2>2 DEF MaySave, Working
<1>5. CASE t \in Operators /\ BlockResubmit(t)
  <2> DEFINE new == [Copy(t) EXCEPT !.state = "DISPUTED"]
  <2>1. new.state = "DISPUTED"
    BY <1>0 DEF TaskShape, Copy, NoCopy
  <2> HIDE DEF new
  <2>2. /\ task[t].pc = "loaded"
        /\ SaveTx(Batch(t), Copy(t), new, Copy(t).rows)
        /\ UNCHANGED <<review, audit, accepted, reg>>
        /\ outbox \subseteq outbox'
        /\ Ended(t)
    BY <1>5 DEF BlockResubmit, Persist, new
  <2> QED
    BY <1>1, <2>1, <2>2 DEF MaySave, Working
<1>6. CASE t \in Operators /\ ReopenBatch(t)
  <2> DEFINE new == [state |-> "OPEN", summary |-> NoSummary, disputed |-> FALSE]
  <2>2. /\ task[t].pc = "loaded"
        /\ SaveTx(Batch(t), Copy(t), new, Copy(t).rows)
        /\ UNCHANGED <<review, audit, accepted, reg>>
        /\ outbox \subseteq outbox'
        /\ Ended(t)
    BY <1>6 DEF ReopenBatch, Persist
  <2> QED
    BY <1>1, <2>2 DEF MaySave, Working
<1>7. CASE t \in Operators /\ ResolveDispute(t)
  <2> DEFINE new == [state |-> "CLOSED", summary |-> calculateSummary(Copy(t).rows),
                     disputed |-> FALSE]
  <2>2. /\ task[t].pc = "loaded"
        /\ SaveTx(Batch(t), Copy(t), new, Copy(t).rows)
        /\ UNCHANGED <<review, audit, accepted, reg>>
        /\ outbox \subseteq outbox'
        /\ Ended(t)
    BY <1>7 DEF ResolveDispute, Persist
  <2> QED
    BY <1>1, <2>2 DEF MaySave, Working
<1>8. CASE t \in Operators /\ CommitSettled(t)
  <2> DEFINE new == [Copy(t) EXCEPT !.state = "SETTLED"]
  <2>1. new.state = "SETTLED" /\ new.summary = Copy(t).summary
    BY <1>0 DEF TaskShape, Copy, NoCopy
  <2> HIDE DEF new
  <2>2. /\ task[t].pc = "settleRead"
        /\ SaveTx(Batch(t), Copy(t), new, Copy(t).rows)
        /\ UNCHANGED <<review, audit, accepted, reg>>
        /\ outbox \subseteq outbox'
        /\ Ended(t)
    BY <1>8 DEF CommitSettled, new
  <2> QED
    BY <1>1, <1>8, <2>1, <2>2 DEF MaySave, Working
<1>9. CASE SaveSubmitted(t) /\ VersionMatches(Batch(t), Copy(t))
  <2> DEFINE new == [Copy(t) EXCEPT !.state = "SUBMITTED"]
  <2>1. new.state = "SUBMITTED" /\ new.summary = Copy(t).summary
    BY <1>0 DEF TaskShape, Copy, NoCopy
  <2> HIDE DEF new
  <2>2. /\ task[t].pc = "accepted"
        /\ SaveTx(Batch(t), Copy(t), new, Copy(t).rows)
        /\ UNCHANGED <<review, audit, accepted, reg>>
        /\ outbox \subseteq outbox'
        /\ Ended(t)
    BY <1>9 DEF SaveSubmitted, new
  <2> QED
    BY <1>1, <2>1, <2>2 DEF MaySave, Working
<1> QED
  BY <1>2, <1>3, <1>4, <1>5, <1>6, <1>7, <1>8, <1>9

(* A step of an operator that decides about a review.                      *)
Decides(o) ==
  /\ task[o].pc = "reviewLocked"
  /\ UNCHANGED <<outbox, accepted, reg>>
  /\ \A u \in Tasks \ {o} : task'[u] = task[u]
  /\ task'[o].pc \in {"idle", "done"} /\ GoodTask(o)'
  /\ TablesMove
  /\ \A c \in Batches :
       \/ Untouched(c)
       \/ /\ c = Batch(o) /\ Rewritten(c)
          /\ batch[c].state \in {"OPEN", "DISPUTED"}
          /\ batch'[c].state = batch[c].state
  /\ review' = [review EXCEPT ![task[o].sale].status = "resolved"]
  /\ audit \subseteq audit'

(* Every decision is such a step.                                          *)
LEMMA DecideSteps ==
  ASSUME Shape, CopyParts, NEW o \in Operators,
         AcceptReversal(o) \/ ExcludeReversal(o) \/ UsePurchaseAmount(o)
  PROVE  Decides(o)
<1>0. TaskShape /\ BatchShape /\ rows \subseteq Rows /\ o \in Tasks
  BY DEF Shape, CopyParts, Tasks
<1>1. /\ task[o].pc = "reviewLocked"
      /\ UNCHANGED <<outbox, accepted, reg>>
      /\ Ended(o)
      /\ review' = [review EXCEPT ![task[o].sale].status = "resolved"]
      /\ audit \subseteq audit'
  BY DEF AcceptReversal, ExcludeReversal, UsePurchaseAmount, CloseReversalReview
<1>2. /\ task'[o].pc \in {"idle", "done"} /\ GoodTask(o)'
      /\ \A u \in Tasks \ {o} : task'[u] = task[u]
  BY <1>0, <1>1, EndedIsGood
<1>3. CASE AcceptReversal(o)
  <2>1. UNCHANGED <<batch, rows>>
    BY <1>3 DEF AcceptReversal
  <2>2. TablesMove /\ \A c \in Batches : Untouched(c)
    BY <1>0, <2>1, NothingMoves DEF Untouched, RowsOf
  <2> QED
    BY <1>1, <1>2, <2>2 DEF Decides
<1>4. CASE ExcludeReversal(o) \/ UsePurchaseAmount(o)
  <2>1. /\ batch[Batch(o)].state \in {"OPEN", "DISPUTED"}
        /\ ReversalOf(o) # {}
        /\ batch' = [batch EXCEPT ![Batch(o)].version = batch[Batch(o)].version + 1]
    BY <1>4 DEF ExcludeReversal, UsePurchaseAmount, BumpBatchVersion
  <2>2. PICK b \in Batches : b = Batch(o)
    BY <1>0, <2>1 DEF ReversalOf, RowsOf, Rows
  <2>3. \A r \in rows : r.batch # b => r \in rows'
    BY <1>4, <2>2 DEF ExcludeReversal, UsePurchaseAmount, ReversalOf, RowsOf
  <2>4. \A r \in rows' : r.batch # b => r \in rows
    <3>1. CASE ExcludeReversal(o)
      BY <3>1 DEF ExcludeReversal
    <3>2. CASE UsePurchaseAmount(o)
      <4>1. PICK p : rows' = (rows \ ReversalOf(o)) \cup
                               {[r EXCEPT !.amount = p.amount] : r \in ReversalOf(o)}
        BY <3>2 DEF UsePurchaseAmount
      <4>2. ASSUME NEW r \in ReversalOf(o) PROVE [r EXCEPT !.amount = p.amount].batch = b
        BY <1>0, <2>2 DEF ReversalOf, RowsOf, Rows
      <4> QED
        BY <4>1, <4>2
    <3> QED
      BY <1>4, <3>1, <3>2
  <2>5. \A c \in Batches \ {b} : RowsOf(c)' = RowsOf(c)
    BY <2>3, <2>4 DEF RowsOf
  <2>6. /\ DOMAIN batch' = Batches
        /\ \A c \in Batches \ {b} : batch'[c] = batch[c]
        /\ batch'[b] = [batch[b] EXCEPT !.version = batch[b].version + 1]
    BY <1>0, <2>1, <2>2 DEF BatchShape
  <2>7. Rewritten(b) /\ batch'[b].state = batch[b].state
    BY <1>0, <2>1, <2>2, <2>6 DEF Rewritten, BatchShape, NoBatch
  <2>8. \A c \in Batches \ {b} : Untouched(c)
    BY <2>5, <2>6 DEF Untouched
  <2>9. TablesMove
    BY <2>6, <2>7, <2>8 DEF TablesMove
  <2> QED
    BY <1>1, <1>2, <2>1, <2>2, <2>7, <2>8, <2>9 DEF Decides
<1> QED
  BY <1>3, <1>4

------------------------------------------------------------------------------
(* Every step is one of these.                                             *)

LEMMA BatchSteps ==
  ASSUME Shape, CopyParts, Next
  PROVE  \/ \E e \in Registrations : RegReads(e) \/ (RegCommits(e) /\ CommitRegistration(e))
         \/ \E t \in Tasks : TaskReads(t)
         \/ \E t \in Tasks : \E new : TaskCommits(t, new)
         \/ \E o \in Operators : Decides(o)
<1>0. /\ Closes \subseteq Tasks /\ Runs \subseteq Tasks /\ Operators \subseteq Tasks
      /\ Recoveries \subseteq Registrations
  BY DEF Tasks, Registrations
<1>1. CASE Register
  BY <1>0, <1>1, RegCopySteps DEF Register
<1>2. CASE Close
  BY <1>0, <1>2, ReadSteps, SaveSteps DEF Close
<1>3. CASE Operate
  BY <1>0, <1>3, ReadSteps, SaveSteps, DecideSteps DEF Operate
<1>4. CASE Proceed
  BY <1>0, <1>4, ReadSteps, SaveSteps DEF Proceed
<1> QED
  BY <1>1, <1>2, <1>3, <1>4 DEF Next

(* And each keeps what the goroutines hold.                                *)
LEMMA CopiesMove ==
  ASSUME CopyParts,
         \/ \E e \in Registrations : RegReads(e) \/ RegCommits(e)
         \/ \E t \in Tasks : TaskReads(t)
         \/ \E t \in Tasks : \E new : TaskCommits(t, new)
         \/ \E o \in Operators : Decides(o)
  PROVE  TablesMove /\ CopyParts'
<1>0. BatchShape /\ Operators \subseteq Tasks
  BY DEF CopyParts, Tasks
<1>1. ASSUME NEW e \in Registrations, RegReads(e) \/ RegCommits(e)
      PROVE  TablesMove /\ CopyParts'
  BY <1>1, RegKeepsCopies DEF RegReads, RegCommits
<1>2. ASSUME NEW t \in Tasks, TaskReads(t) PROVE TablesMove /\ CopyParts'
  <2>1. TablesMove
    BY <1>0, <1>2, NothingMoves DEF TaskReads
  <2> QED
    BY <1>2, <2>1, TaskKeepsCopies DEF TaskReads
<1>3. ASSUME NEW t \in Tasks, NEW new, TaskCommits(t, new)
      PROVE  TablesMove /\ CopyParts'
  BY <1>3, TaskKeepsCopies DEF TaskCommits, SavesBatch
<1>4. ASSUME NEW o \in Operators, Decides(o) PROVE TablesMove /\ CopyParts'
  BY <1>0, <1>4, TaskKeepsCopies DEF Decides
<1> QED
  BY <1>1, <1>2, <1>3, <1>4

(* At the start nobody holds a batch.                                      *)
LEMMA InitCopies == Init => CopyParts
<1> SUFFICES ASSUME Init PROVE CopyParts
  OBVIOUS
<1>1. BatchShape
  BY DEF Init, BatchShape, NoBatch, RowsOf
<1>2. \A t \in Tasks : GoodTask(t)
  BY DEF Init, Idle, GoodTask, Working
<1>3. \A e \in Registrations : GoodReg(e)
  BY DEF Init, GoodReg
<1> QED
  BY <1>1, <1>2, <1>3 DEF CopyParts

(* What the goroutine of a task has after a step that leaves the tables    *)
(* alone.                                                                  *)
LEMMA ReadsTo ==
  ASSUME TaskShape, NEW t \in Tasks
  PROVE  /\ LoadTransactions(t) =>
              /\ task'[t].pc = "loaded" /\ Batch(t)' = Batch(t)
              /\ Copy(t)'.held = openReviews(Batch(t))
         /\ SubmitToProcessor(t) =>
              /\ task'[t].pc = "accepted" /\ Batch(t)' = Batch(t) /\ Copy(t)' = Copy(t)
         /\ ResubmitBatch(t) =>
              /\ task'[t].pc = "submit" /\ Batch(t)' = Batch(t) /\ Copy(t)' = Copy(t)
         /\ SaveSettled(t) => task'[t].pc = "settleSaved"
         /\ LockMerchantDay(t) =>
              /\ task'[t].pc = "settleRead" /\ Batch(t)' = Batch(t)
              /\ Copy(t)'.held = \A b \in MerchantDayBatches(t) \ {Batch(t)} :
                                   batch[b].state = "SETTLED"
         /\ LockReversalReview(t) =>
              /\ task'[t].pc = "reviewLocked"
              /\ \E s \in Sales : /\ task'[t].sale = s /\ review[s].status = "open"
                                  /\ Batch(t)' = review[s].batch
         /\ Ended(t) => task'[t].pc \in {"idle", "done"}
<1>0. /\ DOMAIN task = Tasks /\ DOMAIN task[t] = DOMAIN Idle
      /\ DOMAIN task[t].copy = DOMAIN NoCopy
  BY DEF TaskShape
<1>1. ASSUME NEW pc, task' = [task EXCEPT ![t].pc = pc]
      PROVE  task'[t].pc = pc /\ Batch(t)' = Batch(t) /\ Copy(t)' = Copy(t)
  BY <1>0, <1>1 DEF Idle, Batch, Copy
<1>2. ASSUME LoadTransactions(t)
      PROVE  /\ task'[t].pc = "loaded" /\ Batch(t)' = Batch(t)
             /\ Copy(t)'.held = openReviews(Batch(t))
  BY <1>0, <1>2 DEF LoadTransactions, Idle, NoCopy, Batch, Copy
<1>3. ASSUME LockMerchantDay(t)
      PROVE  /\ task'[t].pc = "settleRead" /\ Batch(t)' = Batch(t)
             /\ Copy(t)'.held = \A b \in MerchantDayBatches(t) \ {Batch(t)} :
                                  batch[b].state = "SETTLED"
  BY <1>0, <1>3 DEF LockMerchantDay, Idle, NoCopy, Batch, Copy
<1>4. ASSUME LockReversalReview(t)
      PROVE  /\ task'[t].pc = "reviewLocked"
             /\ \E s \in Sales : /\ task'[t].sale = s /\ review[s].status = "open"
                                 /\ Batch(t)' = review[s].batch
  <2>1. PICK s \in Sales :
          /\ review[s].status = "open"
          /\ task' = [task EXCEPT ![t] = [Idle EXCEPT !.pc = "reviewLocked",
                        !.op = "ResolveReview", !.b = review[s].batch, !.sale = s]]
    BY <1>4 DEF LockReversalReview
  <2> QED
    BY <1>0, <2>1 DEF Idle, Batch
<1>5. ASSUME Ended(t) PROVE task'[t].pc \in {"idle", "done"}
  BY <1>5, EndedIsGood
<1> QED
  BY <1>1, <1>2, <1>3, <1>4, <1>5 DEF SubmitToProcessor, ResubmitBatch, SaveSettled

------------------------------------------------------------------------------
(* The totals.                                                             *)

(* A closed batch has the totals of its transactions, a batch that says it *)
(* was sent was accepted with them, and what was sent is recorded.         *)
TotalsParts ==
  /\ \A b \in Batches :
       /\ batch[b].state \in {"CLOSED", "SUBMITTED", "SETTLED"} =>
            batch[b].summary = calculateSummary(RowsOf(b))
       /\ batch[b].state \in {"SUBMITTED", "SETTLED"} =>
            [batch |-> b, totals |-> batch[b].summary] \in accepted
  /\ SentIsRecorded

(* No step sends or accepts anything else.                                 *)
LEMMA TotalsMove ==
  ASSUME TaskShape, CopyParts, TotalsParts,
         \/ \E e \in Registrations : RegReads(e) \/ RegCommits(e)
         \/ \E t \in Tasks : TaskReads(t)
         \/ \E t \in Tasks : \E new : TaskCommits(t, new)
         \/ \E o \in Operators : Decides(o)
  PROVE  TotalsParts'
<1> DEFINE Closed3 == {"CLOSED", "SUBMITTED", "SETTLED"}
           Sent2 == {"SUBMITTED", "SETTLED"}
           Good(b) == /\ batch[b].state \in Closed3 =>
                           batch[b].summary = calculateSummary(RowsOf(b))
                      /\ batch[b].state \in Sent2 =>
                           [batch |-> b, totals |-> batch[b].summary] \in accepted
<1>0. /\ BatchShape /\ Operators \subseteq Tasks
      /\ \A b \in Batches : Good(b)
  BY DEF CopyParts, TotalsParts, Tasks
<1>1. ASSUME accepted \subseteq accepted', NEW t \in Tasks, task'[t] = task[t],
             task[t].pc = "accepted"
      PROVE  [batch |-> Batch(t), totals |-> Copy(t).summary]' \in accepted'
  BY <1>1 DEF TotalsParts, SentIsRecorded, Batch, Copy
<1>2. ASSUME accepted \subseteq accepted', NEW b \in Batches,
             Untouched(b) \/ batch'[b].state \notin Closed3
      PROVE  Good(b)'
  BY <1>0, <1>2 DEF Untouched
<1> HIDE DEF Good
<1>3. ASSUME NEW e \in Registrations, RegReads(e) PROVE TotalsParts'
  <2>1. ASSUME NEW b \in Batches PROVE Untouched(b) \/ batch'[b].state = "OPEN"
    BY <1>0, <1>3, <2>1 DEF RegReads, TablesMove, NowOpen, BatchShape, NoBatch
  <2>2. \A b \in Batches : Good(b)'
    BY <1>2, <1>3, <2>1 DEF RegReads
  <2>3. SentIsRecorded'
    BY <1>1, <1>3 DEF RegReads, SentIsRecorded
  <2> QED
    BY <2>2, <2>3 DEF TotalsParts, Good
<1>4. ASSUME NEW e \in Registrations, RegCommits(e) PROVE TotalsParts'
  <2>1. \A b \in Batches : Good(b)'
    BY <1>2, <1>4 DEF RegCommits
  <2>2. SentIsRecorded'
    BY <1>1, <1>4 DEF RegCommits, SentIsRecorded
  <2> QED
    BY <2>1, <2>2 DEF TotalsParts, Good
<1>5. ASSUME NEW t \in Tasks, TaskReads(t) PROVE TotalsParts'
  <2>1. accepted \subseteq accepted'
    BY <1>5 DEF TaskReads, LoadTransactions, SubmitToProcessor, ResubmitBatch,
                SaveSettled, LockMerchantDay, LockReversalReview
  <2>2. \A b \in Batches : Untouched(b)
    BY <1>5 DEF TaskReads, Untouched, RowsOf
  <2>3. \A b \in Batches : Good(b)'
    BY <1>2, <2>1, <2>2
  <2>4. ASSUME task'[t].pc = "accepted"
        PROVE  [batch |-> Batch(t), totals |-> Copy(t).summary]' \in accepted'
    <3>1. SubmitToProcessor(t)
      BY <1>5, <2>4, ReadsTo DEF TaskReads
    <3> QED
      BY <3>1, ReadsTo DEF SubmitToProcessor
  <2>5. SentIsRecorded'
    BY <1>1, <1>5, <2>1, <2>4 DEF TaskReads, SentIsRecorded
  <2> QED
    BY <2>3, <2>5 DEF TotalsParts, Good
<1>6. ASSUME NEW t \in Tasks, NEW new, TaskCommits(t, new) PROVE TotalsParts'
  <2>1. PICK b \in Batches : b = Batch(t)
    BY <1>6 DEF TaskCommits, SavesBatch
  <2>2. /\ batch[b].state = Copy(t).state /\ batch[b].summary = Copy(t).summary
        /\ Copy(t).rows = RowsOf(b)
        /\ \A c \in Batches \ {b} : Untouched(c)
        /\ batch'[b].state = new.state /\ batch'[b].summary = new.summary
        /\ RowsOf(b)' = RowsOf(b)
        /\ accepted' = accepted
    BY <1>6, <2>1 DEF TaskCommits, SavesBatch, Untouched, RowsOf
  <2>3. Good(b)'
    <3>1. CASE new.state \in {"OPEN", "DISPUTED"}
      BY <1>2, <2>2, <3>1
    <3>2. CASE new.state = "CLOSED" /\ new.summary = calculateSummary(Copy(t).rows)
      BY <2>2, <3>2 DEF Good
    <3>3. CASE new.state = "SUBMITTED" /\ task[t].pc = "accepted" /\ new.summary = Copy(t).summary
      <4>1. batch[b].state = "CLOSED"
        BY <1>0, <2>2, <3>3 DEF CopyParts, GoodTask, Working
      <4>2. [batch |-> b, totals |-> Copy(t).summary] \in accepted
        BY <2>1, <3>3 DEF TotalsParts, SentIsRecorded
      <4>3. batch[b].summary = calculateSummary(RowsOf(b))
        BY <1>0, <4>1 DEF Good
      <4> QED
        BY <2>2, <3>3, <4>2, <4>3 DEF Good
    <3>4. CASE /\ t \in Operators /\ CommitSettled(t)
               /\ new.state = "SETTLED" /\ new.summary = Copy(t).summary
      <4>1. task[t].pc = "settleRead"
        BY <3>4 DEF CommitSettled
      <4>2. batch[b].state = "SUBMITTED"
        BY <1>0, <2>2, <4>1 DEF CopyParts, GoodTask, Working, LoadedIn
      <4> QED
        BY <1>0, <2>2, <3>4, <4>2 DEF Good
    <3> QED
      BY <1>6, <3>1, <3>2, <3>3, <3>4 DEF TaskCommits, MaySave
  <2>4. \A c \in Batches : Good(c)'
    BY <1>2, <2>2, <2>3
  <2>5. task'[t].pc # "accepted"
    <3>1. Ended(t) \/ Saved(t, new, "submit")
      BY <1>6 DEF TaskCommits, MaySave
    <3>2. Saved(t, new, "submit") => task'[t].pc = "submit"
      BY DEF Saved, TaskShape, Idle
    <3> QED
      BY <3>1, <3>2, ReadsTo
  <2>6. SentIsRecorded'
    BY <1>1, <1>6, <2>2, <2>5 DEF TaskCommits, SentIsRecorded
  <2> QED
    BY <2>4, <2>6 DEF TotalsParts, Good
<1>7. ASSUME NEW o \in Operators, Decides(o) PROVE TotalsParts'
  <2>1. \A b \in Batches : Good(b)'
    BY <1>2, <1>7 DEF Decides
  <2>2. SentIsRecorded'
    BY <1>0, <1>1, <1>7 DEF Decides, SentIsRecorded
  <2> QED
    BY <2>1, <2>2 DEF TotalsParts, Good
<1> QED
  BY <1>3, <1>4, <1>5, <1>6, <1>7

------------------------------------------------------------------------------
(* The reviews.                                                            *)

(* What the commit of a registration does to a review: it keeps its batch, *)
(* and is opened, unless it was open or decided about, only with the batch *)
(* that the registration saves.                                            *)
LEMMA ReviewsCommit ==
  ASSUME PairInv, NEW e \in Registrations, CommitRegistration(e), NEW s \in Sales
  PROVE  /\ review[s].status # "none" =>
              review'[s].status # "none" /\ review'[s].batch = review[s].batch
         /\ review'[s].status = "none" => review'[s] = review[s]
         /\ review'[s].status = "open" =>
              \/ review[s].status = "open" /\ review'[s].batch = review[s].batch
              \/ Decided(s)
              \/ review'[s].batch = reg[e].b
<1>1. /\ Shape /\ PurchaseSees
      /\ DOMAIN review = Sales /\ DOMAIN review[s] = DOMAIN NoReview
      /\ reg[e].pc = "reviewed"
      /\ review' = IF e \in Approvals THEN ReconcileReversalReview(e)
                                      ELSE InsertReversalReview(e)
  BY DEF PairInv, PairParts, Shape, ReviewShape, CommitRegistration
<1>2. CASE s # SaleOf[e]
  <2>1. review'[s] = review[s]
    BY <1>1, <1>2, CommitReviews
  <2> QED
    BY <2>1
<1>3. CASE s = SaleOf[e] /\ e \in Approvals
  <2>1. reg[e].seen # "none" => Waiting(s) \/ Decided(s)
    BY <1>1, <1>3 DEF PurchaseSees
  <2>2. \/ review' = review
        \/ reg[e].seen # "none" /\ review' = [review EXCEPT ![s].status = "resolved"]
        \/ /\ reg[e].seen # "none"
           /\ \E m : review' = [review EXCEPT ![s].status = "open", ![s].reason = m]
    BY <1>1, <1>3 DEF ReconcileReversalReview
  <2> QED
    BY <1>1, <2>1, <2>2 DEF Waiting, NoReview
<1>4. CASE s = SaleOf[e] /\ e \notin Approvals
  <2>1. \/ review' = review
        \/ /\ review[s].status = "none"
           /\ review'[s] = [status |-> "open", batch |-> reg[e].b,
                            reason |-> reg[e].seen, event |-> e]
    BY <1>1, <1>4 DEF InsertReversalReview
  <2> QED
    BY <2>1
<1> QED
  BY <1>2, <1>3, <1>4

(* What a decision does to it.                                             *)
LEMMA ReviewsDecided ==
  ASSUME ReviewShape, NEW o, Decides(o), NEW s \in Sales
  PROVE  /\ review'[s].batch = review[s].batch
         /\ review[s].status # "none" => review'[s].status # "none"
         /\ review'[s].status = "none" => review[s].status = "none"
         /\ review'[s].status = "open" => review[s].status = "open"
  BY DEF ReviewShape, Decides, NoReview

(* A review stays with its batch in every step.                            *)
LEMMA ReviewedMove ==
  ASSUME PairInv, CopyParts, ReviewedBatches,
         \/ \E e \in Registrations : RegReads(e) \/ (RegCommits(e) /\ CommitRegistration(e))
         \/ \E t \in Tasks : TaskReads(t)
         \/ \E t \in Tasks : \E new : TaskCommits(t, new)
         \/ \E o \in Operators : Decides(o)
  PROVE  ReviewedBatches'
<1>0. TaskShape /\ ReviewShape /\ Operators \subseteq Tasks
  BY DEF PairInv, Shape, Tasks
<1>1. ASSUME NEW o \in Tasks, task'[o] = task[o], task[o].pc = "reviewLocked",
             \A s \in Sales : review[s].status # "none" =>
               review'[s].status # "none" /\ review'[s].batch = review[s].batch
      PROVE  (review[task[o].sale].batch = Batch(o) /\ review[task[o].sale].status # "none")'
  BY <1>0, <1>1 DEF ReviewedBatches, TaskShape, Batch
<1>2. ASSUME NEW e \in Registrations, RegReads(e) PROVE ReviewedBatches'
  BY <1>2 DEF RegReads, ReviewedBatches, Batch
<1>3. ASSUME NEW e \in Registrations, RegCommits(e), CommitRegistration(e)
      PROVE  ReviewedBatches'
  <2>1. \A s \in Sales : /\ review[s].status # "none" =>
                              /\ review'[s].status # "none"
                              /\ review'[s].batch = review[s].batch
                         /\ review'[s].status = "none" => review'[s] = review[s]
    BY <1>3, ReviewsCommit
  <2>2. \A o \in Tasks : task'[o].pc = "reviewLocked" =>
          (review[task[o].sale].batch = Batch(o) /\ review[task[o].sale].status # "none")'
    BY <1>1, <1>3, <2>1 DEF RegCommits
  <2> QED
    BY <2>1, <2>2 DEF ReviewedBatches
<1>4. ASSUME NEW t \in Tasks, TaskReads(t) PROVE ReviewedBatches'
  <2>1. review' = review /\ \A u \in Tasks \ {t} : task'[u] = task[u]
    BY <1>4 DEF TaskReads
  <2>2. ASSUME task'[t].pc = "reviewLocked"
        PROVE  (review[task[t].sale].batch = Batch(t) /\ review[task[t].sale].status # "none")'
    <3>1. LockReversalReview(t)
      BY <1>0, <1>4, <2>2, ReadsTo DEF TaskReads
    <3>2. PICK s \in Sales : /\ task'[t].sale = s /\ review[s].status = "open"
                             /\ Batch(t)' = review[s].batch
      BY <1>0, <3>1, ReadsTo
    <3> QED
      BY <2>1, <3>2
  <2>3. \A o \in Tasks : task'[o].pc = "reviewLocked" =>
          (review[task[o].sale].batch = Batch(o) /\ review[task[o].sale].status # "none")'
    BY <1>1, <2>1, <2>2
  <2> QED
    BY <2>1, <2>3 DEF ReviewedBatches
<1>5. ASSUME NEW t \in Tasks, NEW new, TaskCommits(t, new) PROVE ReviewedBatches'
  <2>1. review' = review /\ \A u \in Tasks \ {t} : task'[u] = task[u]
    BY <1>5 DEF TaskCommits
  <2>2. task'[t].pc # "reviewLocked"
    <3>1. Ended(t) \/ Saved(t, new, "submit")
      BY <1>5 DEF TaskCommits, MaySave
    <3>2. Saved(t, new, "submit") => task'[t].pc = "submit"
      BY <1>0 DEF Saved, TaskShape, Idle
    <3> QED
      BY <1>0, <3>1, <3>2, ReadsTo
  <2>3. \A o \in Tasks : task'[o].pc = "reviewLocked" =>
          (review[task[o].sale].batch = Batch(o) /\ review[task[o].sale].status # "none")'
    BY <1>1, <2>1, <2>2
  <2> QED
    BY <2>1, <2>3 DEF ReviewedBatches
<1>6. ASSUME NEW o \in Operators, Decides(o) PROVE ReviewedBatches'
  <2>1. \A s \in Sales : /\ review'[s].batch = review[s].batch
                         /\ review[s].status # "none" => review'[s].status # "none"
                         /\ review'[s].status = "none" => review[s].status = "none"
    BY <1>0, <1>6, ReviewsDecided
  <2>2. /\ task'[o].pc # "reviewLocked"
        /\ \A u \in Tasks \ {o} : task'[u] = task[u]
    BY <1>6 DEF Decides
  <2>3. ASSUME NEW u \in Tasks, task'[u].pc = "reviewLocked"
        PROVE  (review[task[u].sale].batch = Batch(u) /\ review[task[u].sale].status # "none")'
    <3>1. task'[u] = task[u] /\ task[u].pc = "reviewLocked"
      BY <2>2, <2>3
    <3> QED
      BY <1>1, <2>1, <3>1
  <2> QED
    BY <2>1, <2>3 DEF ReviewedBatches
<1> QED
  BY <1>2, <1>3, <1>4, <1>5, <1>6

(* Where a goroutine that holds the last version of its batch may send it. *)
MaySend(t) ==
  /\ task[t].pc \in {"submit", "accepted"} \/ (task[t].pc = "loaded" /\ ~Copy(t).held)
  /\ Fresh(t)

(* Of the reversals of batch b, those under review were decided about.     *)
NoneOpen(b) ==
  \A s \in Sales : review[s].status = "open" /\ review[s].batch = b => Decided(s)

(* Who still holds the last version after a step held it before, and its   *)
(* batch is as it was.                                                     *)
LEMMA StillFresh ==
  ASSUME CopyParts, TablesMove, NEW t \in Tasks, task[t].pc \in Working,
         task'[t] = task[t], Fresh(t)'
  PROVE  Fresh(t) /\ ~Rewritten(Batch(t))
<1>1. BatchShape /\ GoodTask(t)
  BY DEF CopyParts
<1>2. PICK b \in Batches : b = Batch(t)
  BY <1>1 DEF GoodTask
<1>3. /\ batch[b].version \in Nat /\ batch[b].state # "NONE"
      /\ Copy(t).version \in Nat /\ Copy(t).version <= batch[b].version
      /\ Untouched(b) \/ Rewritten(b)
  BY <1>1, <1>2 DEF BatchShape, GoodTask, TablesMove, NowOpen
<1>4. Copy(t).version = batch'[b].version
  BY <1>2 DEF Fresh, Copy, Batch
<1> QED
  BY <1>2, <1>3, <1>4 DEF Fresh, Untouched, Rewritten

(* No step puts under review a reversal of a batch that somebody may send: *)
(* the registration that opens a review saves the batch.                   *)
LEMMA NoneHeldMoves ==
  ASSUME PairInv, CopyParts, NoneHeld,
         \/ \E e \in Registrations : RegReads(e) \/ (RegCommits(e) /\ CommitRegistration(e))
         \/ \E t \in Tasks : TaskReads(t)
         \/ \E t \in Tasks : \E new : TaskCommits(t, new)
         \/ \E o \in Operators : Decides(o)
  PROVE  NoneHeld'
<1>0. /\ TaskShape /\ ReviewShape /\ Operators \subseteq Tasks
      /\ \A t \in Tasks : MaySend(t) => NoneOpen(Batch(t))
  BY DEF PairInv, Shape, Tasks, NoneHeld, MaySend, NoneOpen
<1>g. SUFFICES \A t \in Tasks : MaySend(t)' => NoneOpen(Batch(t))'
  BY DEF NoneHeld, MaySend, NoneOpen
<1>m. TablesMove
  BY CopiesMove
<1>1. ASSUME NEW t \in Tasks, task'[t] = task[t], MaySend(t)'
      PROVE  NoneOpen(Batch(t)) /\ ~Rewritten(Batch(t)) /\ Batch(t)' = Batch(t)
  <2>1. /\ task[t].pc \in {"submit", "accepted"} \/ (task[t].pc = "loaded" /\ ~Copy(t).held)
        /\ Fresh(t)'
    BY <1>1 DEF MaySend, Copy
  <2>2. Fresh(t) /\ ~Rewritten(Batch(t))
    BY <1>1, <1>m, <2>1, StillFresh DEF Working
  <2> QED
    BY <1>0, <1>1, <2>1, <2>2 DEF MaySend, Batch
<1>2. ASSUME UNCHANGED <<review, audit>>, NEW t \in Tasks, NoneOpen(Batch(t)),
             Batch(t)' = Batch(t)
      PROVE  NoneOpen(Batch(t))'
  BY <1>2 DEF NoneOpen, Decided
<1>3. ASSUME NEW e \in Registrations, RegReads(e), NEW t \in Tasks, MaySend(t)'
      PROVE  NoneOpen(Batch(t))'
  BY <1>1, <1>2, <1>3 DEF RegReads
<1>4. ASSUME NEW e \in Registrations, RegCommits(e), CommitRegistration(e),
             NEW t \in Tasks, MaySend(t)'
      PROVE  NoneOpen(Batch(t))'
  <2>1. task'[t] = task[t] /\ audit' = audit /\ Rewritten(reg[e].b)
    BY <1>4 DEF RegCommits
  <2>2. NoneOpen(Batch(t)) /\ Batch(t) # reg[e].b /\ Batch(t)' = Batch(t)
    BY <1>1, <1>4, <2>1
  <2>3. ASSUME NEW s \in Sales, review'[s].status = "open", review'[s].batch = Batch(t)
        PROVE  Decided(s)
    <3>1. \/ review[s].status = "open" /\ review'[s].batch = review[s].batch
          \/ Decided(s)
      BY <1>4, <2>2, <2>3, ReviewsCommit
    <3> QED
      BY <2>2, <2>3, <3>1 DEF NoneOpen
  <2> QED
    BY <2>1, <2>2, <2>3 DEF NoneOpen, Decided
<1>5. ASSUME NEW u \in Tasks, TaskReads(u), NEW t \in Tasks, MaySend(t)'
      PROVE  NoneOpen(Batch(t))'
  <2>1. /\ UNCHANGED <<batch, review, audit>>
        /\ \A v \in Tasks \ {u} : task'[v] = task[v]
    BY <1>5 DEF TaskReads
  <2>2. CASE t # u
    BY <1>1, <1>2, <1>5, <2>1, <2>2
  <2>3. CASE t = u
    <3>1. LoadTransactions(t) \/ SubmitToProcessor(t) \/ ResubmitBatch(t)
      BY <1>0, <1>5, <2>3, ReadsTo DEF TaskReads, MaySend
    <3>2. Batch(t)' = Batch(t)
      BY <1>0, <3>1, ReadsTo
    <3>3. CASE LoadTransactions(t)
      <4>1. ~openReviews(Batch(t))
        BY <1>0, <1>5, <3>3, ReadsTo DEF MaySend
      <4> QED
        BY <1>2, <2>1, <3>2, <4>1 DEF openReviews, NoneOpen
    <3>4. CASE SubmitToProcessor(t) \/ ResubmitBatch(t)
      <4>1. Copy(t)' = Copy(t)
        BY <1>0, <3>4, ReadsTo
      <4>2. Fresh(t)
        BY <1>5, <2>1, <3>2, <4>1 DEF MaySend, Fresh
      <4>3. MaySend(t)
        BY <3>4, <4>2 DEF MaySend, SubmitToProcessor, ResubmitBatch
      <4> QED
        BY <1>0, <1>2, <2>1, <3>2, <4>3
    <3> QED
      BY <3>1, <3>3, <3>4
  <2> QED
    BY <2>2, <2>3
<1>6. ASSUME NEW u \in Tasks, NEW new, TaskCommits(u, new), NEW t \in Tasks, MaySend(t)'
      PROVE  NoneOpen(Batch(t))'
  <2>1. /\ UNCHANGED <<review, audit>> /\ SavesBatch(u, new)
        /\ \A v \in Tasks \ {u} : task'[v] = task[v]
    BY <1>6 DEF TaskCommits
  <2>2. CASE t # u
    BY <1>1, <1>2, <1>6, <2>1, <2>2
  <2>3. CASE t = u
    <3>1. ~Ended(t)
      BY <1>0, <1>6, ReadsTo DEF MaySend
    <3>2. task[t].pc = "loaded" /\ ~Copy(t).held /\ Saved(t, new, "submit")
      BY <1>6, <2>3, <3>1 DEF TaskCommits, MaySave
    <3>3. Batch(t)' = Batch(t)
      BY <1>0, <3>2 DEF Saved, TaskShape, Idle, Batch
    <3>4. MaySend(t)
      BY <2>1, <2>3, <3>2 DEF MaySend, SavesBatch
    <3> QED
      BY <1>0, <1>2, <2>1, <3>3, <3>4
  <2> QED
    BY <2>2, <2>3
<1>7. ASSUME NEW o \in Operators, Decides(o), NEW t \in Tasks, MaySend(t)'
      PROVE  NoneOpen(Batch(t))'
  <2>1. task'[t] = task[t] /\ audit \subseteq audit'
    BY <1>7 DEF Decides, MaySend
  <2>2. NoneOpen(Batch(t)) /\ Batch(t)' = Batch(t)
    BY <1>1, <1>7, <2>1
  <2>3. \A s \in Sales : /\ review'[s].batch = review[s].batch
                         /\ review'[s].status = "open" => review[s].status = "open"
    BY <1>0, <1>7, ReviewsDecided
  <2> QED
    BY <2>1, <2>2, <2>3 DEF NoneOpen, Decided
<1> QED
  BY <1>3, <1>4, <1>5, <1>6, <1>7

------------------------------------------------------------------------------
(* The day of a merchant.                                                  *)

(* What became settled did so by the commit of SettleBatch, which leaves   *)
(* the other batches alone.                                                *)
LEMMA SettledSteps ==
  ASSUME CopyParts,
         \/ \E e \in Registrations : RegReads(e) \/ RegCommits(e)
         \/ \E t \in Tasks : TaskReads(t)
         \/ \E t \in Tasks : \E new : TaskCommits(t, new)
         \/ \E o \in Operators : Decides(o),
         NEW c \in Batches, batch'[c].state = "SETTLED", batch[c].state # "SETTLED"
  PROVE  \E o \in Operators : \E new :
           /\ TaskCommits(o, new) /\ CommitSettled(o) /\ Ended(o)
           /\ c = Batch(o)
<1>0. BatchShape
  BY DEF CopyParts
<1>1. ASSUME Untouched(c) PROVE FALSE
  BY <1>1 DEF Untouched
<1>2. ASSUME NEW e \in Registrations, RegReads(e) PROVE FALSE
  BY <1>0, <1>1, <1>2 DEF RegReads, TablesMove, NowOpen, BatchShape, NoBatch
<1>3. ASSUME NEW e \in Registrations, RegCommits(e) PROVE FALSE
  BY <1>1, <1>3 DEF RegCommits
<1>4. ASSUME NEW t \in Tasks, TaskReads(t) PROVE FALSE
  BY <1>4 DEF TaskReads
<1>5. ASSUME NEW o \in Operators, Decides(o) PROVE FALSE
  BY <1>1, <1>5 DEF Decides
<1>6. ASSUME NEW t \in Tasks, NEW new, TaskCommits(t, new)
      PROVE  /\ t \in Operators /\ CommitSettled(t) /\ Ended(t)
             /\ c = Batch(t)
  <2>1. SavesBatch(t, new)
    BY <1>6 DEF TaskCommits
  <2>2. c = Batch(t)
    BY <2>1 DEF SavesBatch
  <2>3. new.state = "SETTLED"
    BY <2>1, <2>2 DEF SavesBatch
  <2> QED
    BY <1>6, <2>2, <2>3 DEF TaskCommits, MaySave
<1> QED
  BY <1>2, <1>3, <1>4, <1>5, <1>6

(* A batch stays part of what there is to settle, and one whose            *)
(* transactions change is part of it and not settled.                      *)
LEMMA PlayMoves ==
  ASSUME PairInv, CopyParts, ReviewedBatches,
         \/ \E e \in Registrations : RegReads(e) \/ (RegCommits(e) /\ CommitRegistration(e))
         \/ \E t \in Tasks : TaskReads(t)
         \/ \E t \in Tasks : \E new : TaskCommits(t, new)
         \/ \E o \in Operators : Decides(o),
         NEW c \in Batches
  PROVE  /\ InPlay(c) => InPlay(c)'
         /\ \/ RowsOf(c)' = RowsOf(c)
            \/ batch'[c].state # "SETTLED" /\ InPlay(c)'
<1>0. /\ TaskShape /\ ReviewShape /\ Operators \subseteq Tasks
      /\ c # "none"
  BY SettlementAssumption DEF PairInv, Shape, Tasks
<1> DEFINE Goal == /\ InPlay(c) => InPlay(c)'
                   /\ \/ RowsOf(c)' = RowsOf(c)
                      \/ batch'[c].state # "SETTLED" /\ InPlay(c)'
<1>1. ASSUME UNCHANGED <<rows, review>> PROVE Goal
  BY <1>1 DEF InPlay, RowsOf
<1>2. ASSUME NEW e \in Registrations, RegCommits(e), CommitRegistration(e) PROVE Goal
  <2>1. \A s \in Sales : review[s].batch = c => review'[s].batch = c
    BY <1>0, <1>2, ReviewsCommit DEF ReviewedBatches
  <2>2. RowsOf(c) \subseteq RowsOf(c)'
    BY <1>2 DEF RegCommits, RowsOf
  <2>3. InPlay(c) => InPlay(c)'
    BY <2>1, <2>2 DEF InPlay
  <2>4. Untouched(c) \/ batch'[c].state = "OPEN"
    BY <1>2 DEF RegCommits
  <2>5. RowsOf(c)' = RowsOf(c) \/ InPlay(c)'
    BY <2>2 DEF InPlay
  <2> QED
    BY <2>3, <2>4, <2>5 DEF Untouched
<1>3. ASSUME NEW o \in Operators, Decides(o) PROVE Goal
  <2>1. \A s \in Sales : review'[s].batch = review[s].batch
    BY <1>0, <1>3, ReviewsDecided
  <2>2. CASE Untouched(c)
    BY <2>1, <2>2 DEF InPlay, Untouched
  <2>3. CASE c = Batch(o) /\ batch'[c].state \in {"OPEN", "DISPUTED"}
    <3>1. task[o].sale \in Sales /\ review[task[o].sale].batch = c
      BY <1>0, <1>3, <2>3 DEF Decides, TaskShape, ReviewedBatches
    <3>2. InPlay(c)'
      BY <2>1, <3>1 DEF InPlay
    <3> QED
      BY <2>3, <3>2
  <2> QED
    BY <1>3, <2>2, <2>3 DEF Decides
<1> QED
  BY <1>1, <1>2, <1>3 DEF RegReads, TaskReads, TaskCommits, SavesBatch

(* The merchant's day is read by one operator at a time, and what kept it  *)
(* from being over still does when that operator commits.                  *)
LEMMA DayIsReadMoves ==
  ASSUME PairInv, CopyParts, ReviewedBatches, DayIsRead,
         \/ \E e \in Registrations : RegReads(e) \/ (RegCommits(e) /\ CommitRegistration(e))
         \/ \E t \in Tasks : TaskReads(t)
         \/ \E t \in Tasks : \E new : TaskCommits(t, new)
         \/ \E o \in Operators : Decides(o)
  PROVE  DayIsRead'
<1>0. TaskShape /\ Operators \subseteq Tasks
  BY DEF PairInv, Shape, Tasks
<1>1. ASSUME NEW o \in Operators, task'[o].pc = "settleRead"
      PROVE  task'[o] = task[o] \/ (TaskReads(o) /\ LockMerchantDay(o))
  <2>1. ASSUME task'[o] # task[o]
        PROVE  TaskReads(o) \/ \E new : TaskCommits(o, new)
    BY <1>0, <1>1, <2>1 DEF RegReads, RegCommits, TaskReads, TaskCommits, Decides
  <2>2. ASSUME TaskReads(o) PROVE LockMerchantDay(o)
    BY <1>0, <1>1, <2>2, ReadsTo DEF TaskReads
  <2>3. ASSUME NEW new, TaskCommits(o, new) PROVE FALSE
    <3>1. Ended(o) \/ Saved(o, new, "submit")
      BY <2>3 DEF TaskCommits, MaySave
    <3>2. Saved(o, new, "submit") => task'[o].pc = "submit"
      BY <1>0 DEF Saved, TaskShape, Idle
    <3> QED
      BY <1>0, <1>1, <3>1, <3>2, ReadsTo
  <2> QED
    BY <2>1, <2>2, <2>3
<1>2. ASSUME NEW o \in Operators, NEW p \in Operators,
             task'[o].pc = "settleRead", task'[p].pc = "settleRead",
             MerchantDay(Batch(o))' = MerchantDay(Batch(p))'
      PROVE  o = p
  <2> SUFFICES ASSUME o # p PROVE FALSE
    OBVIOUS
  <2>1. ASSUME NEW q \in Operators, NEW r \in Operators, q # r,
               task'[q].pc = "settleRead", task'[r].pc = "settleRead",
               MerchantDay(Batch(q))' = MerchantDay(Batch(r))',
               TaskReads(q), LockMerchantDay(q)
        PROVE  FALSE
    <3>1. task'[r] = task[r]
      BY <1>0, <2>1 DEF TaskReads
    <3>2. Batch(q)' = Batch(q) /\ Batch(r)' = Batch(r)
      BY <1>0, <2>1, <3>1, ReadsTo DEF Batch
    <3>3. ~MerchantDayLocked(Batch(q))
      BY <2>1 DEF LockMerchantDay
    <3> QED
      BY <2>1, <3>1, <3>2, <3>3 DEF MerchantDayLocked, MerchantDay, Batch
  <2>2. task'[o] = task[o] /\ task'[p] = task[p]
    BY <1>1, <1>2, <2>1
  <2> QED
    BY <1>2, <2>2 DEF DayIsRead, Batch, MerchantDay
<1>3. ASSUME NEW o \in Operators, task'[o].pc = "settleRead", ~Copy(o)'.held
      PROVE  \E c \in Batches \ {Batch(o)'} :
               /\ MerchantDay(c) = MerchantDay(Batch(o))'
               /\ batch'[c].state # "SETTLED" /\ InPlay(c)'
  <2>1. CASE task'[o] = task[o]
    <3>1. PICK c \in Batches \ {Batch(o)} :
            /\ MerchantDay(c) = MerchantDay(Batch(o))
            /\ batch[c].state # "SETTLED" /\ InPlay(c)
      BY <1>3, <2>1 DEF DayIsRead, Copy
    <3>2. InPlay(c)'
      BY <3>1, PlayMoves
    <3>3. Batch(o)' = Batch(o) /\ MerchantDay(Batch(o))' = MerchantDay(Batch(o))
      BY <2>1 DEF Batch, MerchantDay
    <3>4. ASSUME batch'[c].state = "SETTLED" PROVE FALSE
      <4>1. PICK p \in Operators : CommitSettled(p) /\ Ended(p) /\ c = Batch(p)
        BY <3>1, <3>4, SettledSteps
      <4>2. task[p].pc = "settleRead" /\ task'[p].pc \in {"idle", "done"}
        BY <1>0, <4>1, ReadsTo DEF CommitSettled
      <4>3. o = p
        BY <1>3, <2>1, <3>1, <4>1, <4>2 DEF DayIsRead
      <4> QED
        BY <1>3, <4>2, <4>3
    <3> QED
      BY <3>1, <3>2, <3>3, <3>4
  <2>2. CASE TaskReads(o) /\ LockMerchantDay(o)
    <3>1. /\ Batch(o)' = Batch(o)
          /\ ~\A b \in MerchantDayBatches(o) \ {Batch(o)} : batch[b].state = "SETTLED"
      BY <1>0, <1>3, <2>2, ReadsTo
    <3>2. PICK b \in Batches \ {Batch(o)} :
            /\ MerchantDay(b) = MerchantDay(Batch(o)) /\ RowsOf(b) # {}
            /\ batch[b].state # "SETTLED"
      BY <3>1 DEF MerchantDayBatches
    <3>3. batch' = batch /\ InPlay(b)'
      BY <2>2, <3>2 DEF TaskReads, InPlay, RowsOf
    <3>4. MerchantDay(Batch(o))' = MerchantDay(Batch(o))
      BY <3>1 DEF MerchantDay
    <3> QED
      BY <3>1, <3>2, <3>3, <3>4
  <2> QED
    BY <1>1, <1>3, <2>1, <2>2
<1> QED
  BY <1>2, <1>3 DEF DayIsRead

(* The merchant's day of batch b is over, *)
DayIsOver(b) ==
  /\ batch[b].state = "SETTLED" /\ RowsOf(b) # {}
  /\ \A c \in Batches :
       MerchantDay(c) = MerchantDay(b) => batch[c].state = "SETTLED" \/ ~InPlay(c)

(* and what is announced of it in the currency of b.                       *)
AnnouncementOf(b) ==
  [type |-> "settlement-completed", about |-> MerchantDay(b),
   batches |-> {c \in Batches : /\ MerchantDay(c) = MerchantDay(b)
                                /\ CurrencyOf[KeyOfBatch[c]] = CurrencyOf[KeyOfBatch[b]]
                                /\ RowsOf(c) # {}}]

(* This is what SettledDayIsAnnounced says.                                *)
LEMMA AnnouncedIfOver ==
  SettledDayIsAnnounced <=>
    \A b \in Batches : DayIsOver(b) => AnnouncementOf(b) \in outbox
  BY DEF SettledDayIsAnnounced, DayIsOver, AnnouncementOf, InPlay

(* A day on which no batch was settled is as it was.                       *)
LEMMA DayStays ==
  ASSUME NEW b \in Batches, DayIsOver(b)',
         \A c \in Batches :
           /\ InPlay(c) => InPlay(c)'
           /\ \/ RowsOf(c)' = RowsOf(c)
              \/ batch'[c].state # "SETTLED" /\ InPlay(c)'
           /\ MerchantDay(c) = MerchantDay(b) /\ batch'[c].state = "SETTLED" =>
                batch[c].state = "SETTLED"
  PROVE  DayIsOver(b) /\ AnnouncementOf(b)' = AnnouncementOf(b)
<1>1. /\ batch'[b].state = "SETTLED" /\ RowsOf(b)' # {}
      /\ \A c \in Batches : MerchantDay(c) = MerchantDay(b) =>
           batch'[c].state = "SETTLED" \/ ~InPlay(c)'
  BY DEF DayIsOver, MerchantDay
<1>2. \A c \in Batches : MerchantDay(c) = MerchantDay(b) => RowsOf(c)' = RowsOf(c)
  BY <1>1
<1>3. DayIsOver(b)
  BY <1>1, <1>2 DEF DayIsOver
<1>4. AnnouncementOf(b)' = AnnouncementOf(b)
  <2>1. {c \in Batches : /\ MerchantDay(c) = MerchantDay(b)
                         /\ CurrencyOf[KeyOfBatch[c]] = CurrencyOf[KeyOfBatch[b]]
                         /\ RowsOf(c)' # {}}
        = {c \in Batches : /\ MerchantDay(c) = MerchantDay(b)
                           /\ CurrencyOf[KeyOfBatch[c]] = CurrencyOf[KeyOfBatch[b]]
                           /\ RowsOf(c) # {}}
    BY <1>2
  <2> QED
    BY <2>1 DEF AnnouncementOf, MerchantDay
<1> QED
  BY <1>3, <1>4

(* Who settles the last batch of a day announces the day.                  *)
LEMMA LastAnnounces ==
  ASSUME DayIsRead, NEW o \in Operators, NEW new, TaskCommits(o, new), CommitSettled(o),
         NEW b \in Batches, DayIsOver(b)', MerchantDay(b) = MerchantDay(Batch(o))
  PROVE  AnnouncementOf(b)' \in outbox'
<1>1. /\ task[o].pc = "settleRead"
      /\ outbox' = IF Copy(o).held THEN outbox \cup SettlementCompleted(o) ELSE outbox
  BY DEF CommitSettled
<1>2. /\ rows' = rows /\ review' = review
      /\ \A c \in Batches \ {Batch(o)} : batch'[c] = batch[c]
  BY DEF TaskCommits, SavesBatch
<1>3. \A c : RowsOf(c)' = RowsOf(c) /\ InPlay(c)' = InPlay(c)
  BY <1>2 DEF RowsOf, InPlay
<1>4. /\ RowsOf(b) # {}
      /\ \A c \in Batches : MerchantDay(c) = MerchantDay(b) =>
           batch'[c].state = "SETTLED" \/ ~InPlay(c)
  BY <1>3 DEF DayIsOver, MerchantDay
<1>5. \A c \in Batches : MerchantDay(c) = MerchantDay(b) =>
        c = Batch(o) \/ batch[c].state = "SETTLED" \/ ~InPlay(c)
  BY <1>2, <1>4
<1>6. Copy(o).held
  BY <1>1, <1>5 DEF DayIsRead
<1> DEFINE settled == {c \in MerchantDayBatches(o) :
                         c = Batch(o) \/ batch[c].state = "SETTLED"}
           InCurrency(cur) == {c \in settled : CurrencyOf[KeyOfBatch[c]] = cur}
           All == {c \in Batches : /\ MerchantDay(c) = MerchantDay(b)
                                   /\ CurrencyOf[KeyOfBatch[c]] = CurrencyOf[KeyOfBatch[b]]
                                   /\ RowsOf(c) # {}}
<1>7. settled = {c \in Batches : MerchantDay(c) = MerchantDay(b) /\ RowsOf(c) # {}}
  BY <1>5 DEF MerchantDayBatches, InPlay
<1>8. b \in settled /\ InCurrency(CurrencyOf[KeyOfBatch[b]]) = All
  BY <1>4, <1>7
<1>9. [type |-> "settlement-completed", about |-> MerchantDay(Batch(o)),
       batches |-> InCurrency(CurrencyOf[KeyOfBatch[b]])] \in SettlementCompleted(o)
  BY <1>8 DEF SettlementCompleted
<1>10. AnnouncementOf(b)' = [type |-> "settlement-completed", about |-> MerchantDay(b),
                             batches |-> All]
  BY <1>3 DEF AnnouncementOf, MerchantDay
<1> HIDE DEF settled, InCurrency, All
<1> QED
  BY <1>1, <1>6, <1>8, <1>9, <1>10

(* So no step leaves a day that is over without its announcement.          *)
LEMMA AnnouncedMoves ==
  ASSUME PairInv, CopyParts, ReviewedBatches, DayIsRead, SettledDayIsAnnounced,
         \/ \E e \in Registrations : RegReads(e) \/ (RegCommits(e) /\ CommitRegistration(e))
         \/ \E t \in Tasks : TaskReads(t)
         \/ \E t \in Tasks : \E new : TaskCommits(t, new)
         \/ \E o \in Operators : Decides(o)
  PROVE  SettledDayIsAnnounced'
<1>1. outbox \subseteq outbox'
  BY DEF RegReads, RegCommits, TaskReads, TaskCommits, Decides
<1>2. ASSUME NEW b \in Batches, DayIsOver(b)' PROVE AnnouncementOf(b)' \in outbox'
  <2>1. CASE \E c \in Batches : /\ MerchantDay(c) = MerchantDay(b)
                                /\ batch'[c].state = "SETTLED"
                                /\ batch[c].state # "SETTLED"
    <3>1. PICK c \in Batches : /\ MerchantDay(c) = MerchantDay(b)
                               /\ batch'[c].state = "SETTLED"
                               /\ batch[c].state # "SETTLED"
      BY <2>1
    <3>2. PICK o \in Operators : \E new : /\ TaskCommits(o, new) /\ CommitSettled(o)
                                          /\ c = Batch(o)
      BY <3>1, SettledSteps
    <3>3. PICK new : /\ TaskCommits(o, new) /\ CommitSettled(o)
                     /\ c = Batch(o)
      BY <3>2
    <3> QED
      BY <1>2, <3>1, <3>3, LastAnnounces
  <2>2. CASE ~\E c \in Batches : /\ MerchantDay(c) = MerchantDay(b)
                                 /\ batch'[c].state = "SETTLED"
                                 /\ batch[c].state # "SETTLED"
    <3>1. \A c \in Batches :
            /\ InPlay(c) => InPlay(c)'
            /\ \/ RowsOf(c)' = RowsOf(c)
               \/ batch'[c].state # "SETTLED" /\ InPlay(c)'
      BY PlayMoves
    <3>2. DayIsOver(b) /\ AnnouncementOf(b)' = AnnouncementOf(b)
      BY <1>2, <2>2, <3>1, DayStays
    <3> QED
      BY <1>1, <3>2, AnnouncedIfOver
  <2> QED
    BY <2>1, <2>2
<1>3. \A b \in Batches : DayIsOver(b)' => AnnouncementOf(b)' \in outbox'
  BY <1>2
<1> QED
  BY <1>3 DEF SettledDayIsAnnounced, DayIsOver, AnnouncementOf, InPlay

------------------------------------------------------------------------------
(* The invariant of the batches.                                           *)

BatchInv ==
  /\ PairInv
  /\ CopyParts
  /\ TotalsParts
  /\ NoneHeld
  /\ ReviewedBatches
  /\ DayIsRead
  /\ SettledDayIsAnnounced

(* It holds from the start.                                                *)
LEMMA InitBatch == Init => BatchInv
<1> SUFFICES ASSUME Init PROVE BatchInv
  OBVIOUS
<1>1. PairInv
  BY InitShape, InitPair DEF PairInv
<1>2. CopyParts
  BY InitCopies
<1>3. /\ \A b \in Batches : batch[b].state = "NONE"
      /\ \A t \in Tasks : task[t].pc = "idle"
      /\ \A s \in Sales : review[s].status = "none" /\ review[s].batch = "none"
  BY DEF Init, NoBatch, Idle, NoReview
<1>4. TotalsParts
  BY <1>3 DEF TotalsParts, SentIsRecorded
<1>5. NoneHeld
  BY <1>3 DEF NoneHeld
<1>6. ReviewedBatches
  BY <1>3 DEF ReviewedBatches
<1>7. DayIsRead
  BY <1>3 DEF DayIsRead, Tasks
<1>8. SettledDayIsAnnounced
  BY <1>3 DEF SettledDayIsAnnounced
<1> QED
  BY <1>1, <1>2, <1>4, <1>5, <1>6, <1>7, <1>8 DEF BatchInv

(* A step that changes nothing keeps it.                                   *)
LEMMA BatchStutters == BatchInv /\ UNCHANGED vars /\ PairInv' => BatchInv'
<1> SUFFICES ASSUME BatchInv, UNCHANGED vars, PairInv' PROVE BatchInv'
  OBVIOUS
<1>1. \A b : RowsOf(b)' = RowsOf(b) /\ InPlay(b)' = InPlay(b)
  BY DEF vars, RowsOf, InPlay
<1>2. \A t \in Tasks : Batch(t)' = Batch(t) /\ Copy(t)' = Copy(t)
  BY DEF vars, Batch, Copy
<1>3. CopyParts'
  <2>1. BatchShape /\ TablesMove
    BY NothingMoves DEF vars, BatchInv, CopyParts
  <2> QED
    BY <2>1, TablesKeep DEF vars, BatchInv, CopyParts
<1>4. TotalsParts'
  BY <1>1, <1>2 DEF vars, BatchInv, TotalsParts, SentIsRecorded
<1>5. NoneHeld'
  BY <1>2 DEF vars, BatchInv, NoneHeld, Fresh, Decided
<1>6. ReviewedBatches'
  BY <1>2 DEF vars, BatchInv, ReviewedBatches
<1>7. DayIsRead'
  BY <1>1 DEF vars, BatchInv, DayIsRead, Batch, Copy, MerchantDay
<1>8. SettledDayIsAnnounced'
  BY <1>1 DEF vars, BatchInv, SettledDayIsAnnounced, MerchantDay, RowsOf
<1> QED
  BY <1>3, <1>4, <1>5, <1>6, <1>7, <1>8 DEF BatchInv

LEMMA BatchInvariant == Spec => []BatchInv
<1>1. BatchInv /\ PairInv' /\ [Next]_vars => BatchInv'
  <2> SUFFICES ASSUME BatchInv, PairInv', [Next]_vars PROVE BatchInv'
    OBVIOUS
  <2>1. CASE UNCHANGED vars
    BY <2>1, BatchStutters
  <2>2. CASE Next
    <3>1. /\ PairInv /\ TaskShape /\ CopyParts /\ TotalsParts /\ NoneHeld
          /\ ReviewedBatches /\ DayIsRead /\ SettledDayIsAnnounced
      BY DEF BatchInv, PairInv, Shape
    <3>2. \/ \E e \in Registrations : RegReads(e) \/ (RegCommits(e) /\ CommitRegistration(e))
          \/ \E t \in Tasks : TaskReads(t)
          \/ \E t \in Tasks : \E new : TaskCommits(t, new)
          \/ \E o \in Operators : Decides(o)
      BY <2>2, <3>1, BatchSteps DEF PairInv
    <3>3. CopyParts' /\ TotalsParts'
      BY <3>1, <3>2, CopiesMove, TotalsMove
    <3>4. NoneHeld' /\ ReviewedBatches'
      BY <3>1, <3>2, NoneHeldMoves, ReviewedMove
    <3>5. DayIsRead' /\ SettledDayIsAnnounced'
      BY <3>1, <3>2, DayIsReadMoves, AnnouncedMoves
    <3> QED
      BY <3>3, <3>4, <3>5 DEF BatchInv
  <2> QED
    BY <2>1, <2>2
<1> QED
  BY <1>1, InitBatch, PairInvariant, PTL DEF Spec

------------------------------------------------------------------------------
(* A batch that was closed has the totals of its transactions, and the     *)
(* processor accepted them of a batch that says it was sent; who is about  *)
(* to send a batch that nobody saved since has them too.                   *)
THEOREM SentTotals == Spec => []TotalsAreOfTheRows
<1>1. BatchInv => TotalsAreOfTheRows
  <2> SUFFICES ASSUME BatchInv PROVE TotalsAreOfTheRows
    OBVIOUS
  <2>1. ASSUME NEW t \in Tasks, task[t].pc \in {"submit", "accepted"},
               batch[Batch(t)].version = Copy(t).version
        PROVE  Copy(t).summary = calculateSummary(RowsOf(Batch(t)))
    <3>1. /\ Batch(t) \in Batches /\ batch[Batch(t)].state = "CLOSED"
          /\ batch[Batch(t)].summary = Copy(t).summary
      BY <2>1 DEF BatchInv, CopyParts, GoodTask, Working, Fresh
    <3> QED
      BY <3>1 DEF BatchInv, TotalsParts
  <2>2. \A b \in Batches :
          LET totals == calculateSummary(RowsOf(b))
          IN  /\ batch[b].state \in {"CLOSED", "SUBMITTED", "SETTLED"} =>
                   batch[b].summary = totals
              /\ batch[b].state \in {"SUBMITTED", "SETTLED"} =>
                   [batch |-> b, totals |-> totals] \in accepted
    BY DEF BatchInv, TotalsParts
  <2> QED
    BY <2>1, <2>2 DEF TotalsAreOfTheRows
<1> QED
  BY <1>1, BatchInvariant, PTL

(* What the processor takes has no reversal under review about which no    *)
(* operator decided, unless the batch was saved after it was read.         *)
THEOREM SentIsReviewed == Spec => OnlyReviewedIsSent
<1>1. BatchInv => \A t \in Tasks, s \in Sales :
                    /\ task[t].pc = "submit"
                    /\ batch[Batch(t)].version = Copy(t).version
                    /\ review[s].status = "open" /\ review[s].batch = Batch(t)
                    => Decided(s)
  BY DEF BatchInv, NoneHeld, Fresh
<1>2. BatchInv /\ [Next]_vars =>
        [\A t \in Tasks, s \in Sales :
           /\ task[t].pc = "submit" /\ task'[t].pc = "accepted"
           /\ batch[Batch(t)].version = Copy(t).version
           /\ review[s].status = "open" /\ review[s].batch = Batch(t)
           => \E a \in audit : a.sale = s]_vars
  BY <1>1 DEF Decided
<1> QED
  BY <1>2, BatchInvariant, PTL DEF Spec, OnlyReviewedIsSent

(* Once all that there is of a merchant's day is settled, the day was      *)
(* announced with all its batches.                                         *)
THEOREM DayIsAnnounced == Spec => []SettledDayIsAnnounced
<1>1. BatchInv => SettledDayIsAnnounced
  BY DEF BatchInv
<1> QED
  BY <1>1, BatchInvariant, PTL

------------------------------------------------------------------------------
(* Sums over a finite set.                                                 *)

(* A non-empty set of natural numbers has a least one: the finite sets     *)
(* 1..n are well-founded by inclusion.                                     *)
LEMMA LeastNumber ==
  ASSUME NEW T, T \subseteq Nat, T # {}
  PROVE  \E n \in T : \A m \in T : ~(m < n)
<1> DEFINE Sets == {1..n : n \in T}
<1>1. /\ Sets \subseteq FiniteSubsetsOf(Nat) /\ Sets # {}
  <2>1. ASSUME NEW n \in T PROVE 1..n \in FiniteSubsetsOf(Nat)
    <3>1. IsFiniteSet(1..n)
      BY FS_Interval
    <3>2. 1..n \in SUBSET Nat
      OBVIOUS
    <3> QED
      BY <3>1, <3>2 DEF FiniteSubsetsOf
  <2>2. Sets # {}
    OBVIOUS
  <2> QED
    BY <2>1, <2>2
<1>2. IsWellFoundedOn(StrictSubsetOrdering(Nat), FiniteSubsetsOf(Nat))
  BY FS_StrictSubsetOrderingWellFounded
<1>3. PICK s \in Sets : \A r \in Sets : ~(<<r, s>> \in StrictSubsetOrdering(Nat))
  <2> HIDE DEF Sets
  <2> QED
    BY <1>1, <1>2, WFMin
<1>4. PICK n \in T : s = 1..n
  OBVIOUS
<1>5. ASSUME NEW m \in T, m < n PROVE FALSE
  <2>1. m \in Nat /\ n \in Nat
    OBVIOUS
  <2>2. 1..m \subseteq 1..n /\ n \in 1..n /\ n \notin 1..m
    BY <1>5, <2>1
  <2>3. 1..m \in SUBSET Nat /\ 1..n \in SUBSET Nat
    OBVIOUS
  <2>4. <<1..m, 1..n>> \in StrictSubsetOrdering(Nat)
    BY <2>2, <2>3 DEF StrictSubsetOrdering
  <2> QED
    BY <1>3, <1>4, <2>4
<1> QED
  BY <1>5

(* Induction on the natural numbers, for a set of them.                    *)
LEMMA NatSetInduction ==
  ASSUME NEW T, T \subseteq Nat, 0 \in T, \A n \in T : n + 1 \in T
  PROVE  T = Nat
<1> SUFFICES ASSUME Nat \ T # {} PROVE FALSE
  OBVIOUS
<1>1. PICK n \in Nat \ T : \A m \in Nat \ T : ~(m < n)
  BY LeastNumber
<1>2. n # 0 /\ n - 1 \in Nat
  OBVIOUS
<1>3. n - 1 \in T
  BY <1>1, <1>2
<1> QED
  BY <1>3

(* One step of the sum of f over the subsets of S.                          *)
Pick(s) == CHOOSE x \in s : TRUE
SumStep(f, g, s) == IF s = {} THEN 0 ELSE f[Pick(s)] + g[s \ {Pick(s)}]

(* Recursion over the subsets of a finite set is well defined. *)
LEMMA SumExists ==
  ASSUME NEW S, IsFiniteSet(S), NEW f \in [S -> Int]
  PROVE  \E g : g = [s \in SUBSET S |-> SumStep(f, g, s)]
<1> DEFINE D(n) == {s \in SUBSET S : Cardinality(s) <= n}
           T == {n \in Nat : \E g \in [D(n) -> Int] :
                               \A s \in D(n) : g[s] = SumStep(f, g, s)}
<1>0. \A s \in SUBSET S : IsFiniteSet(s) /\ Cardinality(s) \in Nat /\ Cardinality(s) <= Cardinality(S)
  BY FS_Subset, FS_CardinalityType
<1>1. 0 \in T
  <2> DEFINE g == [s \in D(0) |-> 0]
  <2>1. \A s \in D(0) : s = {}
    BY <1>0, FS_EmptySet
  <2>2. g \in [D(0) -> Int] /\ \A s \in D(0) : g[s] = SumStep(f, g, s)
    BY <2>1 DEF SumStep
  <2> HIDE DEF g, D
  <2> QED
    BY <2>2
<1>2. ASSUME NEW n \in T PROVE n + 1 \in T
  <2>1. PICK g \in [D(n) -> Int] : \A s \in D(n) : g[s] = SumStep(f, g, s)
    OBVIOUS
  <2> DEFINE h == [s \in D(n + 1) |-> SumStep(f, g, s)]
  <2>2. ASSUME NEW s \in D(n + 1), s # {}
        PROVE  Pick(s) \in S /\ s \ {Pick(s)} \in D(n)
    <3>1. Pick(s) \in s
      BY <2>2 DEF Pick
    <3>2. Cardinality(s \ {Pick(s)}) = Cardinality(s) - 1
      BY <3>1, <1>0, FS_RemoveElement
    <3> QED
      BY <3>1, <3>2, <1>0
  <2>3. \A s \in D(n + 1) : SumStep(f, g, s) \in Int
    BY <2>2 DEF SumStep
  <2>4. \A s \in D(n) : s \in D(n + 1) /\ h[s] = g[s]
    BY <2>1, <1>0
  <2>5. h \in [D(n + 1) -> Int] /\ \A s \in D(n + 1) : h[s] = SumStep(f, h, s)
    BY <2>2, <2>3, <2>4 DEF SumStep
  <2> HIDE DEF h, D
  <2> QED
    BY <2>5
<1>3. Cardinality(S) \in T
  <2> HIDE DEF T
  <2>1. T = Nat
    <3>1. T \subseteq Nat
      BY DEF T
    <3> QED
      BY <1>1, <1>2, <3>1, NatSetInduction
  <2> QED
    BY <2>1, FS_CardinalityType
<1>4. D(Cardinality(S)) = SUBSET S
  BY <1>0
<1>5. PICK g \in [SUBSET S -> Int] : \A s \in SUBSET S : g[s] = SumStep(f, g, s)
  BY <1>3, <1>4
<1>6. g = [s \in SUBSET S |-> SumStep(f, g, s)]
  BY <1>5
<1> QED
  BY <1>6

(* A sum, taken element by element, is an integer.                          *)
LEMMA SumIsInt ==
  ASSUME NEW S, IsFiniteSet(S), NEW f \in [S -> Int],
         NEW sum, sum = [s \in SUBSET S |-> SumStep(f, sum, s)]
  PROVE  sum[S] \in Int
<1> DEFINE Bad == {s \in SUBSET S : sum[s] \notin Int}
<1> SUFFICES ASSUME Bad # {} PROVE FALSE
  OBVIOUS
<1>1. Bad \subseteq FiniteSubsetsOf(S)
  BY FS_Subset DEF FiniteSubsetsOf
<1>2. PICK s \in Bad : \A t \in Bad : ~(<<t, s>> \in StrictSubsetOrdering(S))
  <2> HIDE DEF Bad
  <2> QED
    BY <1>1, WFMin, FS_StrictSubsetOrderingWellFounded
<1>3. sum[s] = SumStep(f, sum, s)
  OBVIOUS
<1>4. CASE s = {}
  BY <1>3, <1>4 DEF SumStep
<1>5. CASE s # {}
  <2>1. Pick(s) \in s
    BY <1>5 DEF Pick
  <2>2. <<s \ {Pick(s)}, s>> \in StrictSubsetOrdering(S)
    BY <2>1 DEF StrictSubsetOrdering
  <2>3. sum[s \ {Pick(s)}] \in Int
    BY <1>2, <2>2
  <2>4. f[Pick(s)] \in Int
    BY <2>1
  <2> QED
    BY <1>3, <1>5, <2>3, <2>4 DEF SumStep
<1> QED
  BY <1>4, <1>5

(* What calculateSummary says of a finite set of transactions has the form *)
(* of the totals of a batch.                                               *)
LEMMA SummaryIsTyped ==
  ASSUME NEW rs, rs \subseteq Rows, IsFiniteSet(rs)
  PROVE  calculateSummary(rs) \in Summaries
<1> DEFINE f == [r \in rs |-> IF r.type = "PURCHASE" THEN r.amount ELSE -r.amount]
           Added(h) == [s \in SUBSET rs |->
             IF s = {} THEN 0
             ELSE (IF (CHOOSE x \in s : TRUE).type = "PURCHASE"
                   THEN (CHOOSE x \in s : TRUE).amount
                   ELSE -(CHOOSE x \in s : TRUE).amount)
                  + h[s \ {CHOOSE x \in s : TRUE}]]
           sum == CHOOSE h : h = Added(h)
<1>1. f \in [rs -> Int]
  BY DEF Rows
<1>2. ASSUME NEW h, NEW s \in SUBSET rs, s # {}
      PROVE  SumStep(f, h, s) = (IF Pick(s).type = "PURCHASE"
                                 THEN Pick(s).amount ELSE -Pick(s).amount)
                                + h[s \ {Pick(s)}]
  <2>1. Pick(s) \in rs
    BY <1>2 DEF Pick
  <2> QED
    BY <1>2, <2>1 DEF SumStep
<1>3. sum = [s \in SUBSET rs |-> SumStep(f, sum, s)]
  <2>1. \A h : [s \in SUBSET rs |-> SumStep(f, h, s)] = Added(h)
    BY <1>2 DEF SumStep, Pick
  <2> HIDE DEF f, Added
  <2>2. \E h : h = [s \in SUBSET rs |-> SumStep(f, h, s)]
    <3>1. \A k \in [rs -> Int] : \E h : h = [s \in SUBSET rs |-> SumStep(k, h, s)]
      BY SumExists
    <3> QED
      BY <1>1, <3>1
  <2>3. \E h : h = Added(h)
    BY <2>1, <2>2
  <2>4. sum = Added(sum)
    BY <2>3
  <2> QED
    BY <2>1, <2>4
<1>4. sum[rs] \in Int
  <2> HIDE DEF f, sum
  <2> QED
    BY <1>1, <1>3, SumIsInt
<1>5. calculateSummary(rs).amount = sum[rs]
  BY DEF calculateSummary, MapThenSumSet, MapThenFoldSet
<1>6. Cardinality(rs) \in Nat
  BY FS_CardinalityType
<1>7. calculateSummary(rs) = [count |-> Cardinality(rs), amount |-> sum[rs]]
  BY <1>5 DEF calculateSummary
<1> HIDE DEF sum
<1> QED
  BY <1>4, <1>6, <1>7 DEF Summaries

------------------------------------------------------------------------------
(* Types. The totals of a batch are an integer because what is registered  *)
(* in it is finite.                                                        *)

BatchForm == [state : BatchStates, version : Nat, summary : Summaries,
              disputed : BOOLEAN]

ReviewForm == [status : {"none", "open", "resolved"}, batch : Batches \cup {"none"},
               reason : Reasons, event : Registrations \cup {"none"}]

(* What a goroutine may hold of a batch. *)
HeldCopies == {c \in Copies : IsFiniteSet(c.rows)}

RegForm == [pc : RegistrationPC, b : Batches \cup {"none"}, seen : Reasons,
            copy : HeldCopies]

TaskForm == [pc : TaskPC, op : Operations \cup {"none"}, b : Batches \cup {"none"},
             sale : Sales \cup {"none"}, copy : HeldCopies]

(* The events that may be claimed. *)
Claims == Registrations \cup Closes \cup (Batches \X {RunDate[t] : t \in Runs})

TablesTyped ==
  /\ batch \in [Batches -> BatchForm]
  /\ rows \subseteq Rows /\ IsFiniteSet(rows)
  /\ review \in [Sales -> ReviewForm]
  /\ processed \subseteq Claims

TypeInv ==
  /\ TablesTyped
  /\ reg \in [Registrations -> RegForm]
  /\ task \in [Tasks -> TaskForm]

(* These types are stronger than those of TypeOK.                          *)
LEMMA TypeInvIsStronger == TypeInv => TypeOK
<1> SUFFICES ASSUME TypeInv PROVE TypeOK
  OBVIOUS
<1>1. batch \in [Batches -> [state : BatchStates, version : Nat,
                             summary : Summaries, disputed : BOOLEAN]]
  BY DEF TypeInv, TablesTyped, BatchForm
<1>2. \A r \in rows : r \in Rows
  BY DEF TypeInv, TablesTyped
<1>3. \A s \in Sales :
        /\ review[s].status \in {"none", "open", "resolved"}
        /\ review[s].batch \in Batches \cup {"none"}
        /\ review[s].reason \in Reasons
        /\ review[s].event \in Registrations \cup {"none"}
  BY DEF TypeInv, TablesTyped, ReviewForm
<1>4. \A c \in HeldCopies : c.version \in Nat /\ c.state \in BatchStates
  BY DEF HeldCopies, Copies
<1>5. \A e \in Registrations :
        /\ reg[e].pc \in RegistrationPC
        /\ reg[e].b \in Batches \cup {"none"}
        /\ reg[e].seen \in Reasons
        /\ reg[e].copy \in HeldCopies
  BY DEF TypeInv, RegForm
<1>6. \A t \in Tasks :
        /\ task[t].pc \in TaskPC
        /\ task[t].op \in Operations \cup {"none"}
        /\ task[t].b \in Batches \cup {"none"}
        /\ task[t].copy \in HeldCopies
  BY DEF TypeInv, TaskForm
<1>7. processed \subseteq Registrations \cup Closes \cup
                         (Batches \X {RunDate[t] : t \in Runs})
  BY DEF TypeInv, TablesTyped, Claims
<1> QED
  BY <1>1, <1>2, <1>3, <1>4, <1>5, <1>6, <1>7 DEF TypeOK

(* Nothing in memory is a copy, and a goroutine may hold nothing.          *)
LEMMA NothingIsTyped == NoSummary \in Summaries /\ NoCopy \in HeldCopies /\ Idle \in TaskForm
<1>1. NoSummary \in Summaries
  BY DEF NoSummary, Summaries
<1>2. NoCopy \in Copies /\ NoCopy.rows = {}
  BY <1>1 DEF NoCopy, Copies, BatchStates
<1>3. NoCopy \in HeldCopies
  BY <1>2, FS_EmptySet DEF HeldCopies
<1>4. Idle \in TaskForm
  BY <1>3 DEF Idle, TaskForm, TaskPC
<1> QED
  BY <1>1, <1>3, <1>4

(* The types hold from the start.                                          *)
LEMMA InitTypes == Init => TypeInv
<1> SUFFICES ASSUME Init PROVE TypeInv
  OBVIOUS
<1>1. batch \in [Batches -> BatchForm]
  BY NothingIsTyped DEF Init, NoBatch, BatchForm, BatchStates
<1>2. rows \subseteq Rows /\ IsFiniteSet(rows)
  BY FS_EmptySet DEF Init
<1>3. review \in [Sales -> ReviewForm]
  BY DEF Init, NoReview, ReviewForm, Reasons
<1>4. reg \in [Registrations -> RegForm]
  BY NothingIsTyped DEF Init, RegForm, RegistrationPC, Reasons
<1>5. task \in [Tasks -> TaskForm]
  BY NothingIsTyped DEF Init
<1>6. processed = {}
  BY DEF Init
<1> QED
  BY <1>1, <1>2, <1>3, <1>4, <1>5, <1>6 DEF TypeInv, TablesTyped

(* The row of a batch, with or without its transactions, is such a copy.   *)
LEMMA CopiesAreTyped ==
  ASSUME TablesTyped, NEW b \in Batches
  PROVE  RowCopy(b) \in HeldCopies /\ FullCopy(b) \in HeldCopies
<1>1. /\ batch[b].version \in Nat /\ batch[b].state \in BatchStates
      /\ batch[b].summary \in Summaries /\ batch[b].disputed \in BOOLEAN
  BY DEF TablesTyped, BatchForm
<1>2. RowsOf(b) \subseteq Rows /\ IsFiniteSet(RowsOf(b))
  BY FS_Subset DEF TablesTyped, RowsOf
<1>3. NoCopy \in Copies /\ IsFiniteSet(NoCopy.rows)
  BY NothingIsTyped DEF HeldCopies
<1>4. RowCopy(b) \in Copies /\ RowCopy(b).rows = NoCopy.rows
  BY <1>1, <1>3 DEF RowCopy, Copies
<1>5. FullCopy(b) \in Copies /\ FullCopy(b).rows = RowsOf(b)
  BY <1>2, <1>4 DEF FullCopy, Copies
<1> QED
  BY <1>2, <1>3, <1>4, <1>5 DEF HeldCopies

(* Saving a batch.                                                         *)
LEMMA SaveIsTyped ==
  ASSUME TablesTyped, NEW b, NEW copy, copy.version \in Nat,
         NEW new, new.state \in BatchStates, new.summary \in Summaries,
         new.disputed \in BOOLEAN,
         NEW rs, rs \subseteq Rows, IsFiniteSet(rs), SaveTx(b, copy, new, rs)
  PROVE  /\ batch' \in [Batches -> BatchForm]
         /\ rows' \subseteq Rows /\ IsFiniteSet(rows')
<1>1. batch' \in [Batches -> BatchForm]
  <2>1. [state |-> new.state, version |-> copy.version + 1,
         summary |-> new.summary, disputed |-> new.disputed] \in BatchForm
    BY DEF BatchForm
  <2> QED
    BY <2>1 DEF SaveTx, TablesTyped
<1> DEFINE missing == {r \in rs : ~\E q \in rows : q.sale = r.sale /\ q.type = r.type}
<1>2. missing \subseteq Rows /\ IsFiniteSet(missing)
  BY FS_Subset
<1>3. rows' = rows \cup missing
  BY DEF SaveTx, InsertMissing
<1> HIDE DEF missing
<1> QED
  BY <1>1, <1>2, <1>3, FS_Union DEF TablesTyped

(* A goroutine that ends or starts again holds nothing.                    *)
LEMMA EndedIsTyped ==
  ASSUME task \in [Tasks -> TaskForm], NEW t, Ended(t) \/ Restart(t)
  PROVE  task' \in [Tasks -> TaskForm]
<1>1. \A pc \in TaskPC : [Idle EXCEPT !.pc = pc] \in TaskForm
  BY NothingIsTyped DEF TaskForm
<1>2. \/ task' = [task EXCEPT ![t] = [Idle EXCEPT !.pc = "idle"]]
      \/ task' = [task EXCEPT ![t] = [Idle EXCEPT !.pc = "done"]]
      \/ task' = [task EXCEPT ![t] = Idle]
  BY DEF Ended, Restart
<1>3. {"idle", "done"} \subseteq TaskPC
  BY DEF TaskPC
<1> QED
  BY <1>1, <1>2, <1>3, NothingIsTyped

(* A goroutine that goes on with what it holds.                            *)
LEMMA PcIsTyped ==
  ASSUME task \in [Tasks -> TaskForm], NEW t, NEW pc \in TaskPC,
         task' = [task EXCEPT ![t].pc = pc]
  PROVE  task' \in [Tasks -> TaskForm]
  BY DEF TaskForm

(* A goroutine that reads the row of its batch.                            *)
LEMMA ReadIsTyped ==
  ASSUME TypeInv, NEW t \in Tasks, NEW op \in Operations, NEW b \in Batches,
         ReadRow(t, op, b)
  PROVE  task' \in [Tasks -> TaskForm]
<1>1. RowCopy(b) \in HeldCopies
  BY CopiesAreTyped DEF TypeInv
<1>2. [Idle EXCEPT !.pc = "row", !.op = op, !.b = b, !.copy = RowCopy(b)] \in TaskForm
  BY <1>1, NothingIsTyped DEF TaskForm, TaskPC
<1> QED
  BY <1>2 DEF ReadRow, TypeInv

(* A goroutine that saved its batch and goes on to send it.                *)
LEMMA SavedIsTyped ==
  ASSUME TypeInv, NEW t \in Tasks, NEW new, new.state \in BatchStates,
         new.summary \in Summaries, new.disputed \in BOOLEAN, Saved(t, new, "submit")
  PROVE  task' \in [Tasks -> TaskForm]
<1> DEFINE copy == [Copy(t) EXCEPT !.version = Copy(t).version + 1, !.state = new.state,
                                   !.summary = new.summary, !.disputed = new.disputed]
<1>1. Copy(t) \in Copies /\ IsFiniteSet(Copy(t).rows)
  BY DEF TypeInv, TaskForm, HeldCopies, Copy
<1>2. copy \in Copies /\ copy.rows = Copy(t).rows
  <2>1. PICK c \in Copies : c = Copy(t)
    BY <1>1
  <2>2. c.version + 1 \in Nat
    BY DEF Copies
  <2>3. copy = [c EXCEPT !.version = c.version + 1, !.state = new.state,
                         !.summary = new.summary, !.disputed = new.disputed]
    BY <2>1
  <2> HIDE DEF copy
  <2> QED
    BY <2>1, <2>2, <2>3 DEF Copies
<1>3. copy \in HeldCopies
  BY <1>1, <1>2 DEF HeldCopies
<1>4. task' = [task EXCEPT ![t].pc = "submit", ![t].copy = copy]
  BY DEF Saved
<1> HIDE DEF copy
<1> QED
  BY <1>3, <1>4 DEF TypeInv, TaskForm, TaskPC

(* What Close leaves of a batch.                                           *)
LEMMA ClosedIsTyped ==
  ASSUME NEW c \in HeldCopies, NEW disputed \in BOOLEAN
  PROVE  /\ Closed(c, disputed).state \in {"CLOSED", "DISPUTED"}
         /\ Closed(c, disputed).summary \in Summaries
         /\ Closed(c, disputed).disputed = disputed
<1>1. c.rows \subseteq Rows /\ IsFiniteSet(c.rows)
  BY DEF HeldCopies, Copies
<1>2. calculateSummary(c.rows) \in Summaries
  BY <1>1, SummaryIsTyped
<1> QED
  BY <1>2 DEF Closed

(* The registrations.                                                      *)
LEMMA RegistrationTypes ==
  ASSUME TypeInv, CopyParts, NEW e \in Registrations,
         \/ e \in Recoveries /\ RecoverReversals(e)
         \/ FindOrCreateOpen(e) \/ SaveRegistration(e) \/ LockReversalPair(e)
         \/ CommitRegistration(e) \/ AbandonRegistration(e)
  PROVE  TypeInv'
<1>0. TablesTyped /\ reg \in [Registrations -> RegForm] /\ task \in [Tasks -> TaskForm]
  BY DEF TypeInv
<1>1. task' = task
  BY DEF RecoverReversals, FindOrCreateOpen, SaveRegistration, LockReversalPair,
         CommitRegistration, AbandonRegistration
<1>2. Restarted(e) \in RegForm
  BY <1>0, NothingIsTyped DEF Restarted, RegForm, RegistrationPC, Reasons
<1>3. CASE e \in Recoveries /\ RecoverReversals(e)
  <2>1. reg' \in [Registrations -> RegForm]
    BY <1>0, <1>3 DEF RecoverReversals, RegForm, RegistrationPC
  <2> QED
    BY <1>0, <1>1, <1>3, <2>1 DEF RecoverReversals, db, TypeInv, TablesTyped
<1>4. CASE FindOrCreateOpen(e)
  <2>1. UNCHANGED <<rows, review, processed>>
    BY <1>4 DEF FindOrCreateOpen
  <2>2. \A b \in Batches, c \in HeldCopies :
          [reg EXCEPT ![e].pc = "loaded", ![e].b = b, ![e].copy = c]
            \in [Registrations -> RegForm]
    BY <1>0 DEF RegForm, RegistrationPC
  <2>3. ASSUME NEW b \in OpenOf(KeyOf[e]), batch' = batch,
               reg' = [reg EXCEPT ![e].pc = "loaded", ![e].b = b, ![e].copy = FullCopy(b)]
        PROVE  TypeInv'
    <3>1. b \in Batches /\ FullCopy(b) \in HeldCopies
      BY <1>0, CopiesAreTyped DEF OpenOf
    <3> QED
      BY <1>0, <1>1, <2>1, <2>2, <2>3, <3>1 DEF TypeInv, TablesTyped
  <2>4. ASSUME NEW b \in Batches, batch' = [batch EXCEPT ![b].state = "OPEN"],
               reg' = [reg EXCEPT ![e].pc = "loaded", ![e].b = b,
                                  ![e].copy = [NoCopy EXCEPT !.state = "OPEN"]]
        PROVE  TypeInv'
    <3>1. [NoCopy EXCEPT !.state = "OPEN"] \in HeldCopies
      BY NothingIsTyped DEF HeldCopies, Copies, BatchStates
    <3>2. batch' \in [Batches -> BatchForm]
      BY <1>0, <2>4 DEF TablesTyped, BatchForm, BatchStates
    <3> QED
      BY <1>0, <1>1, <2>1, <2>2, <2>4, <3>1, <3>2 DEF TypeInv, TablesTyped
  <2> QED
    BY <1>4, <2>3, <2>4 DEF FindOrCreateOpen
<1>5. CASE SaveRegistration(e) \/ AbandonRegistration(e)
  <2>1. UNCHANGED <<batch, rows, review, processed>>
    BY <1>5 DEF SaveRegistration, AbandonRegistration, db
  <2>2. \/ reg' = [reg EXCEPT ![e] = [reg[e] EXCEPT !.pc = "saved"]]
        \/ reg' = [reg EXCEPT ![e] = Restarted(e)]
    BY <1>5 DEF SaveRegistration, AbandonRegistration
  <2>3. [reg[e] EXCEPT !.pc = "saved"] \in RegForm
    BY <1>0 DEF RegForm, RegistrationPC
  <2> QED
    BY <1>0, <1>1, <1>2, <2>1, <2>2, <2>3 DEF TypeInv, TablesTyped
<1>6. CASE LockReversalPair(e)
  <2>1. UNCHANGED <<batch, rows, review, processed>>
    BY <1>6 DEF LockReversalPair, db
  <2>2. reg' \in [Registrations -> RegForm]
    BY <1>0, <1>6, SeenIsAReason DEF LockReversalPair, RegForm, RegistrationPC
  <2> QED
    BY <1>0, <1>1, <2>1, <2>2 DEF TypeInv, TablesTyped
<1>7. CASE CommitRegistration(e)
  <2> DEFINE b == reg[e].b
             copy == reg[e].copy
             rs == copy.rows \cup {TransactionOf(e, b)}
  <2>1. /\ reg[e].pc = "reviewed"
        /\ SaveTx(b, copy, copy, rs)
        /\ reg' = [reg EXCEPT ![e] = Restarted(e)]
        /\ processed' = processed \cup {e}
        /\ review' = IF e \in Approvals THEN ReconcileReversalReview(e)
                                        ELSE InsertReversalReview(e)
    BY <1>7 DEF CommitRegistration
  <2>2. b \in Batches
    BY <2>1 DEF CopyParts, GoodReg
  <2>3. /\ copy.version \in Nat /\ copy.state \in BatchStates
        /\ copy.summary \in Summaries /\ copy.disputed \in BOOLEAN
        /\ copy.rows \subseteq Rows /\ IsFiniteSet(copy.rows)
    <3>1. copy \in HeldCopies
      BY <1>0 DEF RegForm
    <3> HIDE DEF copy
    <3> QED
      BY <3>1 DEF HeldCopies, Copies
  <2>4. TransactionOf(e, b) \in Rows
    BY <2>2, SettlementAssumption DEF TransactionOf, Rows, Types
  <2>5. rs \subseteq Rows /\ IsFiniteSet(rs)
    BY <2>3, <2>4, FS_AddElement
  <2>6. /\ batch' \in [Batches -> BatchForm]
        /\ rows' \subseteq Rows /\ IsFiniteSet(rows')
    <3> HIDE DEF b, copy, rs
    <3> QED
      BY <1>0, <2>1, <2>3, <2>5, SaveIsTyped
  <2>7. review' \in [Sales -> ReviewForm]
    <3>1. review \in [Sales -> ReviewForm]
      BY <1>0 DEF TablesTyped
    <3>2. \A p, r : reversalMismatch(p, r) \in Reasons
      BY DEF reversalMismatch, Reasons
    <3>3. ReconcileReversalReview(e) \in [Sales -> ReviewForm]
      <4>1. PICK m \in Reasons :
              m = reversalMismatch(TermsOf(e), TermsOf(review[SaleOf[e]].event))
        BY <3>2
      <4> DEFINE resolved == [review EXCEPT ![SaleOf[e]].status = "resolved"]
                 reopened == [review EXCEPT ![SaleOf[e]].status = "open",
                                            ![SaleOf[e]].reason = m]
      <4>2. ReconcileReversalReview(e) \in {review, resolved, reopened}
        BY <4>1 DEF ReconcileReversalReview
      <4>3. resolved \in [Sales -> ReviewForm] /\ reopened \in [Sales -> ReviewForm]
        BY <3>1 DEF ReviewForm
      <4> HIDE DEF resolved, reopened
      <4> QED
        BY <3>1, <4>2, <4>3
    <3>4. InsertReversalReview(e) \in [Sales -> ReviewForm]
      <4>1. [status |-> "open", batch |-> reg[e].b, reason |-> reg[e].seen, event |-> e]
              \in ReviewForm
        BY <1>0, <2>2 DEF RegForm, ReviewForm
      <4> QED
        BY <3>1, <4>1 DEF InsertReversalReview
    <3> QED
      BY <2>1, <3>3, <3>4
  <2>8. processed' \subseteq Claims
    BY <1>0, <2>1 DEF TablesTyped, Claims
  <2> QED
    BY <1>0, <1>1, <1>2, <2>1, <2>6, <2>7, <2>8 DEF TypeInv, TablesTyped
<1> QED
  BY <1>3, <1>4, <1>5, <1>6, <1>7

(* The steps of a task that leave the tables alone.                        *)
LEMMA TaskReadTypes ==
  ASSUME TypeInv, CopyParts, NEW t \in Tasks,
         \/ t \in Closes /\ (FindOpenByTerminal(t) \/ CloseAlreadyProcessed(t))
         \/ t \in Runs /\ (FindStaleOpen(t) \/ AutoCloseAlreadyProcessed(t))
         \/ t \in Operators /\ (\/ FindByID(t) \/ ResubmitBatch(t) \/ SaveSettled(t)
                                \/ LockMerchantDay(t) \/ LockReversalReview(t))
         \/ LoadTransactions(t) \/ Stale(t) \/ SubmitToProcessor(t) \/ AbandonTask(t)
  PROVE  TypeInv'
<1>0. TablesTyped /\ reg \in [Registrations -> RegForm] /\ task \in [Tasks -> TaskForm]
  BY DEF TypeInv
<1>1. UNCHANGED <<batch, rows, review, processed, reg>>
  BY DEF FindOpenByTerminal, CloseAlreadyProcessed, FindStaleOpen,
         AutoCloseAlreadyProcessed, FindByID, ResubmitBatch, SaveSettled,
         LockMerchantDay, LockReversalReview, LoadTransactions, Stale,
         SubmitToProcessor, AbandonTask, db
<1> SUFFICES task' \in [Tasks -> TaskForm]
  BY <1>0, <1>1 DEF TypeInv, TablesTyped
<1>2. ASSUME NEW op, op \in {"Close", "AutoClose", "ForceClose", "Resubmit", "Reopen",
                             "ResolveDispute", "Settle"},
             NEW b \in Batches, ReadRow(t, op, b)
      PROVE  task' \in [Tasks -> TaskForm]
  BY <1>2, ReadIsTyped DEF Operations
<1>3. CASE FindOpenByTerminal(t) \/ FindStaleOpen(t) \/ FindByID(t)
  BY <1>0, <1>2, <1>3, EndedIsTyped DEF FindOpenByTerminal, FindStaleOpen, FindByID, OpenOf
<1>4. CASE \/ CloseAlreadyProcessed(t) \/ AutoCloseAlreadyProcessed(t)
           \/ Stale(t) \/ AbandonTask(t)
  BY <1>0, <1>4, EndedIsTyped DEF CloseAlreadyProcessed, AutoCloseAlreadyProcessed,
                                  Stale, AbandonTask
<1>5. CASE ResubmitBatch(t) \/ SaveSettled(t) \/ SubmitToProcessor(t)
  <2>1. {"submit", "settleSaved", "accepted"} \subseteq TaskPC
    BY DEF TaskPC
  <2> QED
    BY <1>0, <1>5, <2>1, PcIsTyped DEF ResubmitBatch, SaveSettled, SubmitToProcessor
<1>6. CASE LockMerchantDay(t)
  <2>1. PICK held \in BOOLEAN :
          task' = [task EXCEPT ![t].pc = "settleRead", ![t].copy.held = held]
    BY <1>6 DEF LockMerchantDay
  <2>2. [task[t].copy EXCEPT !.held = held] \in HeldCopies
    <3>1. task[t].copy \in HeldCopies
      BY <1>0 DEF TaskForm
    <3> QED
      BY <3>1 DEF HeldCopies, Copies
  <2>3. task' = [task EXCEPT ![t].pc = "settleRead",
                             ![t].copy = [task[t].copy EXCEPT !.held = held]]
    BY <1>0, <2>1 DEF TaskForm
  <2> QED
    BY <1>0, <2>2, <2>3 DEF TaskForm, TaskPC
<1>7. CASE LockReversalReview(t)
  <2>1. PICK s \in Sales :
          task' = [task EXCEPT ![t] = [Idle EXCEPT !.pc = "reviewLocked",
                     !.op = "ResolveReview", !.b = review[s].batch, !.sale = s]]
    BY <1>7 DEF LockReversalReview
  <2>2. review[s].batch \in Batches \cup {"none"}
    BY <1>0 DEF TablesTyped, ReviewForm
  <2>3. [Idle EXCEPT !.pc = "reviewLocked", !.op = "ResolveReview",
                     !.b = review[s].batch, !.sale = s] \in TaskForm
    BY <2>2, NothingIsTyped DEF TaskForm, TaskPC, Operations
  <2> QED
    BY <1>0, <2>1, <2>3
<1>8. CASE LoadTransactions(t)
  <2>1. PICK held \in BOOLEAN, differs \in BOOLEAN :
          task' = [task EXCEPT ![t].pc = "loaded", ![t].copy.rows = RowsOf(Batch(t)),
                     ![t].copy.held = held, ![t].copy.differs = differs]
    BY <1>8 DEF LoadTransactions, openReviews
  <2>2. RowsOf(Batch(t)) \subseteq Rows /\ IsFiniteSet(RowsOf(Batch(t)))
    BY <1>0, FS_Subset DEF TablesTyped, RowsOf
  <2> DEFINE copy == [task[t].copy EXCEPT !.rows = RowsOf(Batch(t)), !.held = held,
                                          !.differs = differs]
  <2>3. copy \in HeldCopies
    <3>1. task[t].copy \in HeldCopies
      BY <1>0 DEF TaskForm
    <3>2. copy \in Copies /\ copy.rows = RowsOf(Batch(t))
      BY <2>2, <3>1 DEF HeldCopies, Copies
    <3> QED
      BY <2>2, <3>2 DEF HeldCopies
  <2>4. task' = [task EXCEPT ![t].pc = "loaded", ![t].copy = copy]
    BY <1>0, <2>1 DEF TaskForm
  <2> HIDE DEF copy
  <2> QED
    BY <1>0, <2>3, <2>4 DEF TaskForm, TaskPC
<1> QED
  BY <1>3, <1>4, <1>5, <1>6, <1>7, <1>8

(* A task that saves its batch.                                            *)
LEMMA TaskSaveTypes ==
  ASSUME TypeInv, NEW t \in Tasks, NEW new, new.state \in BatchStates,
         new.summary \in Summaries, new.disputed \in BOOLEAN,
         SaveTx(Batch(t), Copy(t), new, Copy(t).rows),
         UNCHANGED <<review, reg>>, processed' \subseteq Claims,
         Ended(t) \/ Saved(t, new, "submit")
  PROVE  TypeInv'
<1>0. TablesTyped /\ reg \in [Registrations -> RegForm] /\ task \in [Tasks -> TaskForm]
  BY DEF TypeInv
<1>1. Copy(t).version \in Nat /\ Copy(t).rows \subseteq Rows /\ IsFiniteSet(Copy(t).rows)
  <2>1. Copy(t) \in HeldCopies
    BY <1>0 DEF TaskForm, Copy
  <2> QED
    BY <2>1 DEF HeldCopies, Copies
<1>2. /\ batch' \in [Batches -> BatchForm]
      /\ rows' \subseteq Rows /\ IsFiniteSet(rows')
  BY <1>0, <1>1, SaveIsTyped
<1>3. task' \in [Tasks -> TaskForm]
  BY <1>0, EndedIsTyped, SavedIsTyped
<1> QED
  BY <1>0, <1>2, <1>3 DEF TypeInv, TablesTyped

(* The steps of a task that save its batch.                                *)
LEMMA TaskCommitTypes ==
  ASSUME TypeInv, CopyParts, NEW t \in Tasks,
         \/ t \in Closes /\ CommitClose(t)
         \/ t \in Runs /\ CommitAutoClose(t)
         \/ t \in Operators /\ (\/ ForceClose(t) \/ BlockResubmit(t) \/ ReopenBatch(t)
                                \/ ResolveDispute(t) \/ CommitSettled(t))
         \/ SaveSubmitted(t)
  PROVE  TypeInv'
<1>0. TablesTyped /\ reg \in [Registrations -> RegForm] /\ task \in [Tasks -> TaskForm]
  BY DEF TypeInv
<1>1. /\ Copy(t) \in HeldCopies
      /\ Copy(t).summary \in Summaries /\ Copy(t).disputed \in BOOLEAN
      /\ Copy(t).differs \in BOOLEAN
  <2>1. Copy(t) \in HeldCopies
    BY <1>0 DEF TaskForm, Copy
  <2> QED
    BY <2>1 DEF HeldCopies, Copies
<1>2. processed \subseteq Claims
  BY <1>0 DEF TablesTyped
<1>3. CASE t \in Closes /\ CommitClose(t)
  <2> DEFINE new == Closed(Copy(t), Copy(t).differs)
  <2>1. /\ SaveTx(Batch(t), Copy(t), new, Copy(t).rows)
        /\ processed' = processed \cup {t}
        /\ Saved(t, new, "submit") \/ Ended(t)
        /\ UNCHANGED <<review, reg>>
    BY <1>3 DEF CommitClose
  <2>2. /\ new.state \in BatchStates /\ new.summary \in Summaries
        /\ new.disputed \in BOOLEAN
    BY <1>1, ClosedIsTyped DEF BatchStates
  <2>3. processed' \subseteq Claims
    BY <1>2, <1>3, <2>1 DEF Claims
  <2> HIDE DEF new
  <2> QED
    BY <2>1, <2>2, <2>3, TaskSaveTypes
<1>4. CASE t \in Runs /\ CommitAutoClose(t)
  <2> DEFINE new == Closed(Copy(t), FALSE)
  <2>1. /\ SaveTx(Batch(t), Copy(t), new, Copy(t).rows)
        /\ processed' = processed \cup {AutoCloseEvent(t)}
        /\ Saved(t, new, "submit") \/ Ended(t)
        /\ UNCHANGED <<review, reg>>
        /\ task[t].pc = "loaded"
    BY <1>4 DEF CommitAutoClose
  <2>2. /\ new.state \in BatchStates /\ new.summary \in Summaries
        /\ new.disputed \in BOOLEAN
    BY <1>1, ClosedIsTyped DEF BatchStates
  <2>3. processed' \subseteq Claims
    <3>1. Batch(t) \in Batches
      BY <2>1 DEF CopyParts, GoodTask, Working
    <3> QED
      BY <1>2, <1>4, <2>1, <3>1 DEF Claims, AutoCloseEvent
  <2> HIDE DEF new
  <2> QED
    BY <2>1, <2>2, <2>3, TaskSaveTypes
<1>5. CASE t \in Operators /\ ForceClose(t)
  <2> DEFINE closed == Closed(Copy(t), FALSE)
             new == [closed EXCEPT !.state = "CLOSED"]
  <2>1. /\ SaveTx(Batch(t), Copy(t), new, Copy(t).rows)
        /\ Ended(t) /\ UNCHANGED <<review, processed, reg>>
    BY <1>5 DEF ForceClose, Persist
  <2>2. new.state = "CLOSED" /\ new.summary = closed.summary /\ new.disputed = FALSE
    BY DEF Closed
  <2>3. new.state \in BatchStates /\ new.summary \in Summaries /\ new.disputed \in BOOLEAN
    BY <1>1, <2>2, ClosedIsTyped DEF BatchStates
  <2> HIDE DEF new
  <2> QED
    BY <1>2, <2>1, <2>3, TaskSaveTypes
<1>6. CASE t \in Operators /\ ReopenBatch(t)
  <2> DEFINE new == [state |-> "OPEN", summary |-> NoSummary, disputed |-> FALSE]
  <2>1. /\ SaveTx(Batch(t), Copy(t), new, Copy(t).rows)
        /\ Ended(t) /\ UNCHANGED <<review, processed, reg>>
    BY <1>6 DEF ReopenBatch, Persist
  <2>2. new.state \in BatchStates /\ new.summary \in Summaries /\ new.disputed \in BOOLEAN
    BY NothingIsTyped DEF BatchStates
  <2> HIDE DEF new
  <2> QED
    BY <1>2, <2>1, <2>2, TaskSaveTypes
<1>7. CASE t \in Operators /\ ResolveDispute(t)
  <2> DEFINE new == [state |-> "CLOSED", summary |-> calculateSummary(Copy(t).rows),
                     disputed |-> FALSE]
  <2>1. /\ SaveTx(Batch(t), Copy(t), new, Copy(t).rows)
        /\ Ended(t) /\ UNCHANGED <<review, processed, reg>>
    BY <1>7 DEF ResolveDispute, Persist
  <2>2. calculateSummary(Copy(t).rows) \in Summaries
    BY <1>1, SummaryIsTyped DEF HeldCopies, Copies
  <2>3. new.state \in BatchStates /\ new.summary \in Summaries /\ new.disputed \in BOOLEAN
    BY <2>2 DEF BatchStates
  <2> HIDE DEF new
  <2> QED
    BY <1>2, <2>1, <2>3, TaskSaveTypes
<1>8. ASSUME NEW s \in BatchStates,
             SaveTx(Batch(t), Copy(t), [Copy(t) EXCEPT !.state = s], Copy(t).rows),
             Ended(t), UNCHANGED <<review, processed, reg>>
      PROVE  TypeInv'
  <2> DEFINE new == [Copy(t) EXCEPT !.state = s]
  <2>1. new.state \in BatchStates /\ new.summary \in Summaries /\ new.disputed \in BOOLEAN
    <3>1. PICK c \in HeldCopies : c = Copy(t)
      BY <1>1
    <3>2. [c EXCEPT !.state = s] \in Copies
      BY DEF HeldCopies, Copies
    <3>3. new \in Copies
      BY <3>1, <3>2
    <3> HIDE DEF new
    <3> QED
      BY <3>3 DEF Copies
  <2> HIDE DEF new
  <2>2. SaveTx(Batch(t), Copy(t), new, Copy(t).rows)
    BY <1>8 DEF new
  <2> QED
    BY <1>2, <1>8, <2>1, <2>2, TaskSaveTypes
<1>9. CASE \/ t \in Operators /\ (BlockResubmit(t) \/ CommitSettled(t))
           \/ SaveSubmitted(t) /\ VersionMatches(Batch(t), Copy(t))
  <2>1. {"DISPUTED", "SETTLED", "SUBMITTED"} \subseteq BatchStates
    BY DEF BatchStates
  <2>2. UNCHANGED <<review, processed, reg>> /\ Ended(t)
    BY <1>9 DEF BlockResubmit, Persist, CommitSettled, SaveSubmitted
  <2>3. \E s \in BatchStates :
          SaveTx(Batch(t), Copy(t), [Copy(t) EXCEPT !.state = s], Copy(t).rows)
    BY <1>9, <2>1 DEF BlockResubmit, Persist, CommitSettled, SaveSubmitted
  <2> QED
    BY <1>8, <2>2, <2>3
<1>10. CASE SaveSubmitted(t) /\ ~VersionMatches(Batch(t), Copy(t))
  <2>1. UNCHANGED <<batch, rows, review, processed, reg>> /\ Ended(t)
    BY <1>10 DEF SaveSubmitted
  <2> QED
    BY <1>0, <2>1, EndedIsTyped DEF TypeInv, TablesTyped
<1> QED
  BY <1>3, <1>4, <1>5, <1>6, <1>7, <1>9, <1>10

(* An operator that decides about a review.                                *)
LEMMA DecisionTypes ==
  ASSUME TypeInv, rows' \subseteq Rows, NEW o \in Operators,
         AcceptReversal(o) \/ ExcludeReversal(o) \/ UsePurchaseAmount(o)
  PROVE  TypeInv'
<1>0. TablesTyped /\ reg \in [Registrations -> RegForm] /\ task \in [Tasks -> TaskForm]
  BY DEF TypeInv
<1>1. /\ UNCHANGED <<processed, reg>> /\ Ended(o)
      /\ review' = [review EXCEPT ![task[o].sale].status = "resolved"]
  BY DEF AcceptReversal, ExcludeReversal, UsePurchaseAmount, CloseReversalReview
<1>2. task' \in [Tasks -> TaskForm]
  BY <1>0, <1>1, EndedIsTyped
<1>3. review' \in [Sales -> ReviewForm]
  BY <1>0, <1>1 DEF TablesTyped, ReviewForm
<1>4. batch' \in [Batches -> BatchForm]
  <2>1. \/ batch' = batch
        \/ batch' = [batch EXCEPT ![Batch(o)].version = batch[Batch(o)].version + 1]
    BY DEF AcceptReversal, ExcludeReversal, UsePurchaseAmount, BumpBatchVersion
  <2>2. CASE Batch(o) \in Batches
    BY <1>0, <2>1, <2>2 DEF TablesTyped, BatchForm
  <2>3. CASE Batch(o) \notin Batches
    BY <1>0, <2>1, <2>3 DEF TablesTyped
  <2> QED
    BY <2>2, <2>3
<1>5. IsFiniteSet(rows')
  <2>0. IsFiniteSet(rows)
    BY <1>0 DEF TablesTyped
  <2>1. CASE AcceptReversal(o)
    BY <2>0, <2>1 DEF AcceptReversal
  <2>2. CASE ExcludeReversal(o)
    BY <2>0, <2>2, FS_Subset DEF ExcludeReversal
  <2>3. CASE UsePurchaseAmount(o)
    <3>1. PICK p : rows' = (rows \ ReversalOf(o)) \cup
                             {[r EXCEPT !.amount = p.amount] : r \in ReversalOf(o)}
      BY <2>3 DEF UsePurchaseAmount
    <3> DEFINE corrected == {[r EXCEPT !.amount = p.amount] : r \in ReversalOf(o)}
               f == [r \in ReversalOf(o) |-> [r EXCEPT !.amount = p.amount]]
    <3>2. IsFiniteSet(ReversalOf(o)) /\ IsFiniteSet(rows \ ReversalOf(o))
      BY <2>0, FS_Subset DEF ReversalOf, RowsOf
    <3>3. f \in Surjection(ReversalOf(o), corrected)
      <4>1. f \in [ReversalOf(o) -> corrected]
        OBVIOUS
      <4>2. \A c \in corrected : \E r \in ReversalOf(o) : f[r] = c
        OBVIOUS
      <4> QED
        BY <4>1, <4>2 DEF Surjection
    <3>4. IsFiniteSet(corrected)
      <4> HIDE DEF f, corrected
      <4> QED
        BY <3>2, <3>3, FS_Surjection
    <3>5. rows' = (rows \ ReversalOf(o)) \cup corrected
      BY <3>1
    <3> HIDE DEF corrected
    <3> QED
      BY <3>2, <3>4, <3>5, FS_Union
  <2> QED
    BY <2>1, <2>2, <2>3
<1> QED
  BY <1>0, <1>1, <1>2, <1>3, <1>4, <1>5 DEF TypeInv, TablesTyped

(* Every step keeps the types.                                             *)
LEMMA NextTypes == TypeInv /\ BatchInv /\ PairInv' /\ [Next]_vars => TypeInv'
<1> SUFFICES ASSUME TypeInv, BatchInv, PairInv', [Next]_vars PROVE TypeInv'
  OBVIOUS
<1>0. /\ Closes \subseteq Tasks /\ Runs \subseteq Tasks /\ Operators \subseteq Tasks
      /\ Recoveries \subseteq Registrations
      /\ CopyParts /\ rows' \subseteq Rows
  BY DEF Tasks, Registrations, BatchInv, PairInv, Shape
<1>1. CASE UNCHANGED vars
  BY <1>1 DEF vars, TypeInv, TablesTyped
<1>2. CASE Register
  BY <1>0, <1>2, RegistrationTypes DEF Register
<1>3. CASE Close
  BY <1>0, <1>3, TaskReadTypes, TaskCommitTypes DEF Close
<1>4. CASE Operate
  BY <1>0, <1>4, TaskReadTypes, TaskCommitTypes, DecisionTypes DEF Operate
<1>5. CASE Proceed
  BY <1>0, <1>5, TaskReadTypes, TaskCommitTypes DEF Proceed
<1> QED
  BY <1>1, <1>2, <1>3, <1>4, <1>5 DEF Next

(* Every variable has its type in every reachable state. The totals of a   *)
(* batch are a count and an integer, whatever is registered in it.         *)
THEOREM TypeCorrect == Spec => []TypeOK
<1>1. TypeInv /\ BatchInv /\ PairInv' /\ [Next]_vars => TypeInv'
  BY NextTypes
<1> QED
  BY <1>1, InitTypes, TypeInvIsStronger, BatchInvariant, PairInvariant, PTL DEF Spec
==============================================================================
