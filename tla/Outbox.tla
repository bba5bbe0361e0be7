------------------------------- MODULE Outbox -------------------------------
(***************************************************************************)
(* The transactional outbox: a table of events that were committed with    *)
(* the change they announce, and the relays that publish them to JetStream *)
(* and delete them, one batch in one transaction.                          *)
(*                                                                         *)
(* A relay holds the rows it selected (FOR UPDATE SKIP LOCKED) until it    *)
(* commits or rolls back, and a row it has deleted is there for the others *)
(* until the commit. JetStream drops an event whose Nats-Msg-Id it has     *)
(* accepted within its deduplication window.                               *)
(*                                                                         *)
(* The module that puts events in the outbox extends this one: it adds to  *)
(* outbox in its own transactions.                                         *)
(***************************************************************************)
EXTENDS Integers, FiniteSets

CONSTANTS
  Events,    \* event ids that may be put in the outbox
  Relays,    \* instances of the service, each with its relay
  Batch,     \* rows a relay takes in one cycle (LIMIT)
  MaxCopies  \* bound: the window forgets an id only while fewer are published

ASSUME OutboxAssumption ==
  /\ Batch \in Nat \ {0}
  /\ MaxCopies \in Nat

VARIABLES
  outbox,  \* the committed rows
  stream,  \* how many times JetStream stored each event
  window,  \* ids JetStream still remembers
  relay    \* the transaction of each relay: rows to publish, rows deleted

outboxVars == <<outbox, stream, window, relay>>

NoCycle == [todo |-> {}, deleted |-> {}]

OutboxTypeOK ==
  /\ outbox \subseteq Events
  /\ stream \in [Events -> Nat]
  /\ window \subseteq Events
  /\ relay \in [Relays -> [todo : SUBSET Events, deleted : SUBSET Events]]

OutboxInit ==
  /\ outbox = {}
  /\ stream = [e \in Events |-> 0]
  /\ window = {}
  /\ relay = [r \in Relays |-> NoCycle]

Held(r) == relay[r].todo \cup relay[r].deleted

(* The rows that FOR UPDATE SKIP LOCKED leaves to a relay. *)
FreeRows == {e \in outbox : \A r \in Relays : e \notin Held(r)}

(* The SELECT of publishPending. The rows come by created_at, the time     *)
(* their transactions began, which says nothing of the order in which they *)
(* committed: any of the free rows may be the oldest.                      *)
SelectRows(r) ==
  /\ relay[r] = NoCycle
  /\ FreeRows # {}
  /\ \E rows \in SUBSET FreeRows :
       /\ rows = FreeRows \/ Cardinality(rows) = Batch
       /\ Cardinality(rows) <= Batch
       /\ relay' = [relay EXCEPT ![r] = [todo |-> rows, deleted |-> {}]]
  /\ UNCHANGED <<outbox, stream, window>>

(* JetStream takes a message with Nats-Msg-Id e (external). *)
Store(e) ==
  /\ stream' = IF e \in window THEN stream ELSE [stream EXCEPT ![e] = @ + 1]
  /\ window' = window \cup {e}

(* PublishMsg succeeds and the row is deleted, in the relay's transaction. *)
PublishRow(r, e) ==
  /\ e \in relay[r].todo
  /\ Store(e)
  /\ relay' = [relay EXCEPT ![r] =
                 [todo |-> @.todo \ {e}, deleted |-> @.deleted \cup {e}]]
  /\ UNCHANGED outbox

(* The message was stored but PublishMsg fails, or the DELETE after it:    *)
(* the cycle ends and all of its rows are there again.                     *)
PublishUnconfirmed(r, e) ==
  /\ e \in relay[r].todo
  /\ Store(e)
  /\ relay' = [relay EXCEPT ![r] = NoCycle]
  /\ UNCHANGED outbox

(* Variant: a publish that fails is logged, and its row deleted with the   *)
(* others.                                                                 *)
DeleteUnpublished(r) ==
  \E e \in relay[r].todo :
    /\ relay' = [relay EXCEPT ![r] =
                   [todo |-> @.todo \ {e}, deleted |-> @.deleted \cup {e}]]
    /\ UNCHANGED <<outbox, stream, window>>

(* A publish that did not arrive, a commit that failed or a crash: the     *)
(* deferred Rollback, or Postgres when the connection is gone.             *)
Rollback(r) ==
  /\ relay[r] # NoCycle
  /\ relay' = [relay EXCEPT ![r] = NoCycle]
  /\ UNCHANGED <<outbox, stream, window>>

Commit(r) ==
  /\ relay[r] # NoCycle
  /\ relay[r].todo = {}
  /\ outbox' = outbox \ relay[r].deleted
  /\ relay' = [relay EXCEPT ![r] = NoCycle]
  /\ UNCHANGED <<stream, window>>

(* The deduplication window of JetStream passes (external). *)
ForgetId(e) ==
  /\ e \in window
  /\ stream[e] < MaxCopies
  /\ window' = window \ {e}
  /\ UNCHANGED <<outbox, stream, relay>>

RelayNext ==
  \/ \E r \in Relays :
       \/ SelectRows(r)
       \/ \E e \in Events : PublishRow(r, e) \/ PublishUnconfirmed(r, e)
       \/ Rollback(r)
       \/ Commit(r)
  \/ \E e \in Events : ForgetId(e)

(* A relay runs every 500 ms while its service lives, and of the attempts  *)
(* at publishing a row and at committing a cycle not all fail.             *)
RelayFairness ==
  /\ \A r \in Relays : WF_outboxVars(SelectRows(r)) /\ SF_outboxVars(Commit(r))
  /\ \A r \in Relays, e \in Events : SF_outboxVars(PublishRow(r, e))
=============================================================================
