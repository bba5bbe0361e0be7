# TLA+ verification of go-posnet

go-posnet is a backend for point-of-sale terminals: five services (bounded
contexts) that talk through NATS JetStream and keep their state in one
PostgreSQL schema each, plus an HTTP gateway. This directory holds its formal
model: TLA+ modules, TLC configurations that check them on small instances, and
proofs that TLAPS checks for every value of the constants.

Contents: [the system](#the-system), [what is modelled](#what-is-modelled), [how
the modules correspond to the code](#how-the-modules-correspond-to-the-code),
[the runs](#the-runs), [fairness](#fairness), [the proofs](#the-proofs),
[disagreements with the
documentation](#disagreements-between-code-and-documentation), [limits](#limits),
[plan](#plan).

Paths below are relative to `src/`; `auth` stands for `context/authorization`.

## The system

| Part | State it keeps | Operations | Talks to |
|---|---|---|---|
| Terminal Gateway (`context/terminal-gateway`) | `payment_sessions`: AWAITING_PAYMENT, PROCESSING, APPROVED, REJECTED, CANCELLED, expired; outbox | create, pay, cancel, apply result, request reversal, request batch close, delete expired | emits `transaction.received`, `reversal-requested`, `batch-close-requested` through its outbox; consumes results |
| Authorization (`auth`) | `transactions`, `processed_events`, `invalid_transactions`, `blocked_cards` | see [below](#how-the-modules-correspond-to-the-code) | consumes `transaction.received`, `fraud.score-calculated`, `reversal-requested`; calls the acquirer; publishes outcomes directly (no outbox) |
| Acquirer link (`auth/infrastructure/iso8583`) | one TCP connection, answers pending per RRN | authorize (0100), reverse (0400), echo, reconnect | the acquirer's host; `hostsim` plays it |
| Fraud Detection (`context/fraud-detection`) | `fraud_cases`, rules, `processed_events` | evaluate a request, administer rules | answers `fraud.check-requested` with a score |
| Settlement (`context/settlement`) | `settlement_batches` with an optimistic version, their transactions, reversal reviews, outbox | register approval and reversal, close, submit, dispute, settle, automatic closing | consumes outcomes and batch closes; calls the card processor |
| Notification (`context/notification`) | `notifications`, delivery attempts | notify, dispatch (goroutine), retry job, forced retry | terminal (gRPC) and merchant (webhook) |
| `pkg/outbox` | `<schema>.outbox` | insert with the caller's transaction; relay with `FOR UPDATE SKIP LOCKED` | JetStream |
| `pkg/natsutil`, `pkg/pgutil` | `processed_events`; connection pools | claim an event; publish; database transactions | NATS, PostgreSQL |
| Gateway (`gateway`) | token buckets | reverse proxy | HTTP |

How they interact: a terminal pays; the Terminal Gateway stores the session and
an outbox row; the relay publishes `transaction.received`; Authorization stores
the sale and asks Fraud Detection; the score moves the sale to PROCESSING and a
worker goroutine calls the acquirer; its answer is stored by a conditional
UPDATE and then published; the Terminal Gateway, Settlement and Notification
consume it. A reconciler in every Authorization instance lists the sales left
without a known result, reverses them at the host and rejects them.

What is hard, and what makes each part correct:

- **Authorization.** Events are delivered at least once and in any order;
  workers, reversal goroutines and reconcilers of several instances race for the
  same row; any of them may die between two accesses; the acquirer may approve a
  request whose answer never arrives. Correct means: a card is charged exactly
  for the sales the system holds as approved, one outcome per sale is stored
  and announced, a reversal request is not lost, and no sale stays undecided.
- **Acquirer slots and timeouts.** The takeover by age is only right if no
  worker is alive at that age, and handlers wait for a slot without a bound.
- **Acquirer link.** One connection carries requests and reversals, and is
  replaced while calls wait on it; correct means that a message reported as not
  sent was not, that whoever waits is told, and that a reversal undoes the request
  it is for: it does on one connection, and may come first over two.
- **Fraud Detection.** Evaluations share a cached list of rules with operators
  who change it in place. Correct: one opinion of the engine per transaction,
  with its case; a failed query accuses nobody; changes reach every instance.
- **Terminal Gateway.** Pay, cancel, expire and apply a result by unconditional
  UPSERT on a copy read earlier. Correct: a session that was paid has its
  `transaction.received`, the terminal is told once, every session ends.
- **Settlement.** Concurrent changes of a batch under optimistic locking with
  eight attempts. Correct: totals announced and submitted are those of the
  batch's transactions, a reversal that does not match its purchase is reviewed
  before its batch is sent, a settled day is announced whole.
- **Notification.** Dispatch outside the transaction and a retry job without
  reservation. Correct: a claimed event has its notifications, and retries end.
- **Outbox.** Rows published before the commit that deletes them. Correct:
  every stored event is published, and duplicates are absorbed.

`PROJECT.json` lists the hazards one by one with their lines.

## What is modelled

| Module | What it is | Runs |
|---|---|---|
| `SaleOutcome` | abstract specification: a sale is accepted, decided once, perhaps reversed; what may be announced of it | refined in `AuthImpatient` |
| `Authorization` | the Authorization context in full, with its database, its goroutines, the bus, and the acquirer as seen from it | `Auth*` |
| `AcquirerTiming` | one Authorization instance in discrete time: slots, blocked handlers, timeouts, the age of a sale, restart, reconciler | `TimingOneSlot` |
| `Iso8583Client` | the link below `Authorization`: one connection after another, the waiters for answers, partial writes, timeouts, and the host | `Iso*` |
| `FraudDetection` | rule engine, scores, fraud cases, and the rules with the cache of each instance, which a read cut short may leave with a part of them | `FraudRules` |
| `Outbox` | the table of events to publish, the relays of all instances, JetStream's deduplication | with `PaymentSession` |
| `PaymentSession` | the Terminal Gateway's sessions, on top of `Outbox` | `TerminalGateway` |
| `Settlement` | batches, purchases and reversals, reviews, closes, the processor, operators | `Settlement*` |
| `Notification` | notifications, dispatches, the retry job, forced retries | `NotificationRetry` |
| `MC...` | the instances of each for TLC | |
| `AuthorizationProofs` | types, the state machine of the rows, announcements that agree with the database, refinement of `SaleOutcome` | |
| `ChargeProofs` | charges at the issuer agree with the database; what the acquirer is asked, who blocks cards, which reversal requests are kept | |
| `TimingProofs` | how old the sale of a live worker can be | |
| `GatewayProofs` | types of the gateway and the outbox, what a relay holds, paid sessions, told results | |
| `ClientProofs` | types of the link, who is heard, what was not sent, reversals on their connection | |
| `FraudProofs` | types, what a failed query can do to a score, one score of the engine | |
| `SettlementProofs` | purchases and reversals in different batches and their reviews; totals, what is sent, the announcement of a day; types, with sums over finite sets | |
| `NotificationProofs` | types, and the notifications of a claimed event | |

How they fit together. `Authorization` implements `SaleOutcome` under the mapping
`outcomeBar` (FRAUD_CHECKING, PROCESSING and INDETERMINATE are "open").
`AcquirerTiming` justifies the constant `OutlivesStuckAfter` of `Authorization`:
the set of places where a live worker can be when the reconciler already finds
its sale stuck, which is empty when `WorkerIsDoneWhenStuck` holds; `TimingProofs`
proves that it does from three times on of what a call can hold its slot.
`Iso8583Client` shows why `HostReverses` of `Authorization` assumes no order
between a request and its reversal: it is kept on one connection
(`ReversedOnItsConnection`) and not over two (`IsoOvertaken`). It also justifies
`AuthorizationNotSent` (`NotSentIsNotReceived`). `FraudDetection` refines what
`FraudAnswers` leaves open: how many scores, and which. `PaymentSession` extends
`Outbox` and puts `transaction.received` in it; Authorization is its environment.
`Settlement` and `Notification` consume what `Authorization` publishes, in any
order and any number of times: its `auth.approved`, `auth.rejected` and
`reversal.completed` events are constants of theirs.

In all modules definitions headed "Variant:" are not part of the
specification. Each is the definition after it with a plausible mistake, and
replaces it in a mutant that shows what a property catches (`PROJECT.json`,
`mutants`).

## How the modules correspond to the code

### Authorization

One step of `Authorization` is one access to something shared: a database
transaction, a conditional UPDATE, a message handed to the link, a publication.
What lies between is local to a goroutine and is kept in its program counter.
Handlers that fail before their commit leave no trace, so they are no step.

State:

| Variable | Code |
|---|---|
| `state` | `transactions.state` (NONE: no row; RECEIVED exists only in memory) |
| `reversalRequested` | `transactions.reversal_requested_at` |
| `processed`, `invalid`, `blocked` | `processed_events`, `invalid_transactions`, `blocked_cards` |
| `sale` | the goroutine of a sale: handler of `transaction.received`, or the worker in `callAcquirer` |
| `rejecting` | the handler of a malformed event (`rejectInvalid`) |
| `reversal` | the worker of a reversal request (`completeReversal`) |
| `reconciling` | each reconciler's list: where it is with each sale and the state it loaded |
| `fraudRequested`, `verdict`, `published` | what the bus carried |
| `answer`, `charge` | a sale's request at the host, and what the issuer holds |
| `overtaken` | no code reads it: the sales of which the host answered a reversal while their request was still on its way |

Actions, in `auth/application/command` unless noted:

| Action | Code |
|---|---|
| `ReceiveTransaction`, `RejectBlockedCard`, `PublishFraudCheckRequested` | `AuthorizeTransaction`, `rejectBlockedCard` |
| `RejectInvalid`, `PublishInvalidRejected`, `AbandonInvalid`, `PurgeInvalidRejections` | `rejectInvalid`, `PurgeInvalidRejections` |
| `FraudAnswers` | Fraud Detection's `EvaluateTransaction`, as Authorization sees it |
| `ApplyFraudScore` | `ApplyFraudScore` up to its commit |
| `SendAuthorization`, `AuthorizationNotSent`, `ReceiveApproval`, `ReceiveRejection`, `CallFails`, `SaveResult`, `PublishOutcome` | `callAcquirer` with `Client.Authorize`, `blockCard` |
| `HostDecides`, `HostReverses` | the host, as `iso8583/hostsim` does it |
| `ProcessReversal` | `ProcessReversal` up to its commit |
| `ReverseAtHost`, `SaveReversed`, `PublishReversalCompleted` | `completeReversal` in a worker |
| `FindUnresolved`, `FindPendingReversals`, `LoadListed` | the queries of `auth/infrastructure/postgres/repository.go`; ids first, rows later |
| `TakeOver`, `ReverseUnresolved`, `SaveRejection`, `PublishRejection` | `reconcile` |
| `RetryReversal`, `SaveRetriedReversal`, `PublishRetriedReversal` | `completeReversal` called by the reconciler |
| `AbandonSale`, `AbandonReversal`, `SkipSale`, `ReconcilerStops` | crash, database error, failed publication, failed call |

Choices a reader may question:

- Redelivery is a claim that is still possible: an event that is not in
  `processed` may be handled at any time. The limit of deliveries is left out.
- A crash of one instance is the end of its goroutines one by one, in any
  order and at any time. This includes the crash that ends all of them, and is
  weaker than any order a real crash imposes.
- The blocklist is read before the database transaction and a failed lookup
  lets the sale through, so `ReceiveTransaction` does not depend on `blocked`.
- A host that reverses is idempotent and accepts a reversal of what it does not
  know; both the contract of `AcquirerGateway.Reverse` and `hostsim` say so.
- A reversal may reach the host before the request it is to undo
  (`HostReverses` has no guard): the client dials a new connection while the host
  has not read what was sent on the old one, and another instance has a
  connection of its own. The host then finds nothing to reverse and may approve
  the request afterwards: a charge for a rejected sale, which the code does not
  prevent. `NoOrphanCharge` therefore does not deny it. It says that this is the
  only way to such a charge, and that no sale announced as reversed is charged in
  it; `overtaken` remembers the sales it happened to.
- Time is absent from `Authorization`: a sale is stuck when its worker is gone
  or at a place in `OutlivesStuckAfter`. `AcquirerTiming` has the clock.

`AcquirerTiming` merges the takeover into one step and keeps what decides how old
a PROCESSING sale with a live worker can get: the slots, the blocked handler of
each consumer (one per consumer, since a subscription runs one handler at a
time), the timeout, and by how much a call overruns it. A call holds its slot
until its result is saved and published, and its round trip waits for `writeMu`
and writes (with a deadline of 5 s of its own) without looking at its context; the
code bounds no sum of these. `Grace` is the model's bound on it, so `MaxHold`, the
timeout and `Grace`, is how long a slot can be held. What the issuer charges is
not in this module: `Authorization` has it.

### Settlement

One step is one access to the database that another goroutine may see or be made
to wait by. What a transaction wrote is seen at its commit; the locks it holds
(the row of the batch from its UPDATE on, the advisory locks) are read off the
program counters, so a transaction that dies releases them by going back to idle.

| Variable | Code |
|---|---|
| `batch` | `settlement_batches`: state, version, totals, whether the terminal disagreed |
| `rows` | `batch_transactions` |
| `review`, `audit` | `reversal_reviews`, `batch_audit_log` |
| `processed`, `outbox` | `processed_events`; every event ever put in the outbox |
| `accepted` | what the card processor accepted |
| `reg`, `task` | the goroutine of each event that registers something; of each close, automatic close and operator's request. Each holds the batch it loaded |

| Action | Code (`context/settlement/application/command` unless noted) |
|---|---|
| `FindOrCreateOpen`, `SaveRegistration`, `LockReversalPair`, `CommitRegistration` | `RegisterApproval` and `RegisterReversal` with `retryOnStale`, `reviewReversal`, `ReconcileReversalReviewTx`, `InsertReversalReviewTx` |
| `RecoverReversals` | `cmd/settlement-recover-reversals` |
| `FindOpenByTerminal`, `LoadTransactions`, `CommitClose`, `CloseAlreadyProcessed` | `ProcessBatchClose` |
| `FindStaleOpen`, `CommitAutoClose`, `AutoCloseAlreadyProcessed` | `CloseStaleBatches`, `autoCloseBatch` |
| `SubmitToProcessor`, `SaveSubmitted` | `submitBatch` |
| `FindByID`, `ForceClose`, `BlockResubmit`, `ResubmitBatch`, `ReopenBatch`, `ResolveDispute` | the same in `st_admin_handler.go` |
| `SaveSettled`, `LockMerchantDay`, `CommitSettled` | `SettleBatch`, `enqueueCompletedIfDone` |
| `LockReversalReview`, `AcceptReversal`, `ExcludeReversal`, `UsePurchaseAmount` | `ResolveReversalReview` |
| `Stale`, `AbandonRegistration`, `AbandonTask` | a version that is another, an error, a crash, a processor that refuses |

`retryOnStale` has no limit here: a registration that gave up is a message that
is delivered again. The processor accepts or fails, and keeps what it accepted.

### Terminal Gateway and outbox

`session` is `payment_sessions`, `request` the goroutine of each `POST /pay` and
`POST /cancel`, `worker` the handler of a delivered result; `age` stands for
`expires_at`. `LoadForPayment`/`CommitPayment` are `ProcessPayment`,
`LoadForCancel`/`SaveCancel` `CancelSession`, `Deliver`, `ClaimResult`,
`SaveResult`, `CommitResult`, `NotifyResult` and `AckResult` the statements of
`ApplyApproval` and `ApplyRejection` in the handlers of the subscriber,
`DeleteExpired` the cleaning job. `Save` is an UPSERT that compares nothing,
also for a session that is gone, and `SaveResult` takes effect at once, for it
uses a connection of its own.

In `Outbox`, `outbox` are the committed rows, `relay` the transaction of each
relay, `stream` how often JetStream stored an event and `window` the ids it
remembers. `SelectRows`, `PublishRow`, `PublishUnconfirmed`, `Rollback` and
`Commit` are `publishPending`. The order by `created_at` says nothing of the
order of commits, so a relay may take any free rows.

### Notification

An id is an event, the number of the delivery that made it, and a channel: every
handling of an event makes new notifications. `Deliver`, `ClaimEvent`,
`SaveNotification`, `CommitEvent`, `StartDispatch`, `AckEvent` are the handlers
`NotifyApproval`, `NotifyRejection` and `NotifyBatchClosed`; `RetryFailed`,
`ForceRetry` and `loadAttempts` read what is to be sent again; `Send` and `Save`
are `dispatch`. `SaveNotification` takes effect whatever becomes of the claim.

### ISO 8583 client

`conn`, `pending` and `serving` are the client's fields and its `Run` loop,
`call` and `chan` each `roundTrip` with its channel, `toHost` and `toClient`
the frames on the way. `Register` is the critical section that reads `c.conn`
and adds the waiter; `Write`, `WriteNothing` and `WritePart` the outcomes of
`WriteFrame`; `DropConnection` the end of `serve`; `Forget` is `forget`. The
host goes on reading a connection that the client left, each in a goroutine of
its own, and approves, declines, reverses or does not answer.

### Fraud Detection

`cached` is the list of rules in each instance's cache and `call` the goroutines
that hold one. A list has an identity, for `UpdateThreshold` changes the rule in
the list that the cache serves and that an evaluation may be reading.
`UseCached`, `loadFromDB`, `StoreLoaded` and `CacheExpires` are `FindAllActive`;
`StartChange` to `ChangeFails` are `UpdateRuleThreshold`; `Deliver` to
`AbandonCheck` are `EvaluateTransaction`. `loadFromDB` never looks at
`rows.Err()`, so a read whose connection fails or whose 200 ms run out between
two rows returns what it had, without an error, and the cache serves it for a
whole TTL. `Read` says what it can return: the rules of the largest weights, as
they are ordered by weight, `ShortReads` of them. An empty list is as good as
none, for the cache takes nil for nothing stored, and the engine answers the
neutral score. `RulesHit`, `ApplyEvaluations` and `NewFraudScore` are translated
with their numbers, and `Evaluate` lets any set of the history queries fail.
`NextTransaction` is no code: it gives the name of a finished event to a new
transaction, so that a small instance never runs out of events.

## The runs

Deadlock is not checked: each instance has finitely many events, and when they
are consumed the system rests.

| Run | Instance | Distinct states | Properties and what they show |
|---|---|---|---|
| `AuthThreeSales` | a sale with 2 deliveries, 2 scores and a reversal request, a second of the same card, a malformed third, 2 reconcilers, no late worker | 2,274,730 | `NoOrphanCharge` and `ApprovedIsCharged`: charge and outcome agree in both directions, up to a reversal that overtook its request; `ReversalNotForgotten`; `AuthorizedAfterFraudCheck`; `AuthorizedOnce`; `BlockedByIssuer` |
| `AuthImpatient` | one sale with 2 deliveries, 2 scores, 2 reversal requests and 2 reconcilers, and a worker may be alive anywhere when its sale is taken | 563,416 | `PublishedOutcomeIsStored`, `AnnouncedOnce`, `RowsFollowStateMachine`, `ImplementsSaleOutcome`: conditional UPDATEs alone keep the outcome single, whatever the clock does |
| `AuthLiveness` | 1 sale, 1 event of each kind, fair | 520 | `UnresolvedIsResolved`, `RequestedReversalIsDone` |
| `TimingOneSlot` | 2 sales, 2 reversals, 1 slot, timeout 2, overrun 1, stuck after 9 | 187,025 | `WorkerIsDoneWhenStuck`, `NoCallInProgressIsReversed`, `SlotsAreShared` |
| `SettlementClose` | 2 purchases, 1 close by the terminal, 2 operators, 2 batches of one day | 623,987 | `TotalsAreOfTheRows`: what was closed is what the batch has, and what the processor accepted of a batch that says it was sent; who is about to send a batch that nobody saved since has it too; `SettledDayIsAnnounced`: two operators who settle the last two batches at once do not both leave the announcement to the other |
| `SettlementReview` | a purchase, its reversal for another amount on the next day, its recovery, 2 runs of the automatic close, 1 operator | 1,652,200 | `NoReversalWaitsForItsPurchase`, `MismatchIsReviewed`; `OnlyReviewedIsSent`: what is sent as it was read has no undecided reversal under review |
| `TerminalGateway` | 1 session, 2 payments, 1 cancellation, 1 result that two instances handle, 1 relay, fair | 169,938 | `PaidIsAnnounced`, `ToldOnce`, `EnqueuedIsPublished`, `SessionsEnd` |
| `NotificationRetry` | 1 event delivered twice to 2 goroutines, 2 dispatches at a time, 2 attempts, fair | 77,773 | `ClaimedIsStored`, `RetryingEnds` |
| `IsoClient` | an authorization and two reversals of one sale, 2 connections | 88,932 | `NotSentIsNotReceived`, `WaiterIsHeard`, `ReversedOnItsConnection` |
| `FraudRules` | 2 instances, 1 event after another delivered up to twice, reads of the rules cut to none or one, 1 change of a rule, fair | 976,447 | `FailedQueryNeverAccuses`, `EngineScoresOnce`, `RulesAreRefreshed` |

The runs that begin with `TypeOK` in their configuration check the types too.
`AuthLateSave` and `IsoOvertaken` (an authorization and a reversal, 2 connections)
check one statement of a comment each and find it violated: see
[disagreements](#disagreements-between-code-and-documentation).

Why these bounds. Every race in Authorization is about one row, so one sale with
two of everything that can race (deliveries, scores, requests, reconcilers) shows
it; two of a kind suffice for "another one did it first". Two reversal requests
of one sale are only in `AuthImpatient`: in `AuthThreeSales` the reconciler is
the second to reverse it. Sales only meet in the blocklist (same card), in
`invalid_transactions` and in a reconciler's run, which `AuthThreeSales` covers.
Liveness is checked on the smallest instance with every path, because TLC's
liveness check does not use symmetry and grows quickly; with a second score or
reconciler it is out of reach. Nothing in the specification of `Authorization` is
a counter, so no bound cuts behaviours off. In `AcquirerTiming` ages stop at
`StuckAfter + 1`, where they no longer matter.

With one slot and one blocked handler per consumer a sale may wait for the call
that runs and for one reversal that blocked before it, so it may be PROCESSING
with a live worker for three times what a call can hold its slot, `MaxHold`.
`TimingOneSlot` shows that an `ACQUIRER_STUCK_AFTER` of so much is enough, and
`ThreeHoldingTimesAreEnough` that it is for every instance. What `config.Load`
demands, more than one timeout, is needed and not enough: with
`StuckAfter` 3 and the other constants of the run, both properties fail. The
defaults (30 s and 120 s) leave an overrun of 10 s; the values of Docker Compose
(3 s and 10 s) one of a third of a second, less than the 5 s that a write alone
may take.

In Settlement the races are between whoever loaded the same batch, and, for the
advisory locks, between two transactions on different batches. `SettlementClose`
has both with two sales, two batches of one day (the second is opened while the
first is being closed or disputed) and two operators beside the terminal's
close; `SettlementReview` has a reversal that falls on another day than its
purchase, so that only the lock of the pair orders them. `MaxVersion` stops
operators, who could reopen a batch for ever, at version 4: enough to close,
dispute, reopen, close again and settle.

`TerminalGateway` has one session because sessions share nothing but the relay's
cycle, which takes both payments of the session at once (`Batch` 2); two payments
make two events that differ. One relay is enough for liveness, as the fair relay
of any instance is, and `RowsHeldOnce` is proved for any number. A cycle can take
all the rows there are, so that what the LIMIT leaves for the next cycle is only
seen as rows that a relay chose not to take. `MaxCopies` lets the deduplication
window forget an id once, `MaxDeliver` makes one redelivery. `NotificationRetry`
has one channel: the notifications of an event share only its claim. Two
dispatches at a time are two runs of the job, or the job and an operator;
operators may ask for the notifications of the second handling, for with all of
them the liveness check does not end in reasonable time. In `IsoClient` two
connections are an old and a new one. `FraudRules` uses the weights of the
schema, a sale that breaks every rule and one at the limit of each, and has one
operator's change, of a weight that changes the order of the rules too: it ends
in the cache, the table and the other instance's cache in every order.
`ShortReads` of 0 and 1 are the two kinds of a read that is cut short: one that
leaves nothing to cache and one that leaves a part, which may or may not have the
rule to change.

## Fairness

`Authorization!Fairness`, used only by the liveness runs:

- weak fairness of deliveries and of Fraud Detection's answer: JetStream
  delivers again what was not acknowledged;
- weak fairness of each goroutine's next step: a goroutine runs until it
  ends, calls have a timeout and the transport answers or fails. `AbandonSale`
  and `AbandonReversal` stay possible, so this never promises success;
- strong fairness of the reconciler: it is a ticker that starts every run from
  the database and never stops, so a run that keeps being interrupted is tried
  again for ever. Strong fairness of its steps says that not every attempt
  fails: a host that is reachable again and again ends up answering one.

Nothing is assumed of failures. `TakeOver` and `LoadListed` are strongly fair
because a run may be abandoned before them infinitely often.

`PaymentSession!Fairness`: time passes and the cleaning job runs every minute
(weak); a goroutine does not stay between two steps for ever (weak, on its
abandoning); the relay is a ticker, so it starts cycles for ever (weak), and of
the attempts to publish a row or commit a cycle not all fail (strong).
`Notification!Fairness`: a dispatch runs and its call has a timeout (weak), the
job takes up each notification again and again, and of the saves of one
notification not all fail (strong). Nothing says that a channel ever delivers.
`FraudDetection!Fairness`: the cache runs out after `RulesCacheTTL` (weak), and
nothing else: no request need ever succeed.

## The proofs

For `Authorization`, for any constants satisfying `AuthorizationAssumption`:

| Theorem | States | Assumes |
|---|---|---|
| `TypeCorrect` | `Spec => []TypeOK` | |
| `RowsAsAllowed` | `Spec => RowsFollowStateMachine` | |
| `PublishedIsStored` | `Spec => []PublishedOutcomeIsStored` | `Unmixed` |
| `NobodyAnnouncesTwice` | `Spec => []AnnouncedOnce` | `Unmixed` |
| `Refinement` | `Spec => ImplementsSaleOutcome` | `Unmixed` |
| `OnlyOvertakenIsOrphan` | `Spec => []NoOrphanCharge` | `OutlivesStuckAfter = {}` |
| `NobodyGetsGoodsForFree` | `Spec => []ApprovedIsCharged` | `OutlivesStuckAfter = {}` |
| `AskedAfterFraudCheck` | `Spec => []AuthorizedAfterFraudCheck` | `ApartByKind` |
| `OnlyIssuersBlock` | `Spec => []BlockedByIssuer` | `ApartByKind` |
| `RequestsAreKept` | `Spec => []ReversalNotForgotten` | `ApartByKind` |
| `AskedOnce` | `Spec => AuthorizedOnce` | `ApartByKind` |

For `AcquirerTiming` (`TimingProofs`), for any constants satisfying
`ConfigAssumption`, all assuming `LongEnough`: finitely many calls, no event both
a sale and a reversal, and `StuckAfter >= 3 * MaxHold`:

| Theorem | States |
|---|---|
| `TypeCorrect` | `Spec => []TypeOK` |
| `ThreeHoldingTimesAreEnough` | `Spec => []WorkerIsDoneWhenStuck` |
| `NoLiveCallIsReversed` | `Spec => []NoCallInProgressIsReversed` |
| `SlotsAreBounded` | `Spec => []SlotsAreShared` |

For `PaymentSession` with its `Outbox` (`GatewayProofs`), for any constants
satisfying `SessionAssumption` and `OutboxAssumption`:

| Theorem | States |
|---|---|
| `TypeCorrect` | `Spec => []TypeOK` |
| `RowsHeldOnce` | `Spec => []RowsAreHeldOnce` |
| `PaidAnnounced` | `Spec => []PaidIsAnnounced` |
| `TerminalToldOnce` | `Spec => []ToldOnce` |

For `Settlement` and `Notification`, for any constants satisfying
`SettlementAssumption` and `NotificationAssumption`:

| Theorem | States |
|---|---|
| `SettlementProofs!TypeCorrect` | `Spec => []TypeOK` |
| `SettlementProofs!PurchaseIsNoticed` | `Spec => []NoReversalWaitsForItsPurchase` |
| `SettlementProofs!MismatchIsSeen` | `Spec => []MismatchIsReviewed` |
| `SettlementProofs!SentTotals` | `Spec => []TotalsAreOfTheRows` |
| `SettlementProofs!SentIsReviewed` | `Spec => OnlyReviewedIsSent` |
| `SettlementProofs!DayIsAnnounced` | `Spec => []SettledDayIsAnnounced` |
| `NotificationProofs!TypeCorrect` | `Spec => []TypeOK` |
| `NotificationProofs!ClaimedHasNotifications` | `Spec => []ClaimedIsStored` |

For `Iso8583Client` and `FraudDetection`, for any constants satisfying
`ClientAssumption` and `FraudAssumption`:

| Theorem | States | Assumes |
|---|---|---|
| `ClientProofs!TypeCorrect` | `Spec => []TypeOK` | |
| `ClientProofs!WaitersAreHeard` | `Spec => []WaiterIsHeard` | |
| `ClientProofs!NotSentNeverReceived` | `Spec => []NotSentIsNotReceived` | `OneAuthorization` |
| `ClientProofs!ReversedWhereAsked` | `Spec => []ReversedOnItsConnection` | |
| `FraudProofs!TypeCorrect` | `Spec => []TypeOK` | |
| `FraudProofs!FailuresNeverAccuse` | `Spec => []FailedQueryNeverAccuses` | |
| `FraudProofs!OneEngineScore` | `Spec => []EngineScoresOnce` | |

The assumptions of the first table are about the environment, not about the
result. `Unmixed`: no sale arrives both in a malformed and in a well-formed
event. `OutlivesStuckAfter = {}`: no worker lives longer than
`ACQUIRER_STUCK_AFTER`, which `ThreeHoldingTimesAreEnough` gives when
`ACQUIRER_STUCK_AFTER` is at least three times what a call can hold its slot: the
timeout and its overrun, of which the code bounds only the timeout. `ApartByKind`
stands for `Reversals \cap (Received \cup Scores) = {}`: an event id is not both
a reversal request's and another event's, for `processed_events` has one row per
id. The [disagreements](#disagreements-between-code-and-documentation) say what
happens otherwise. `OneAuthorization` says that no two calls of the link
authorize the same sale, which is what `AskedOnce` proves of `Authorization`:
without it the host could have approved the sale of an unsent call for another
call's sake.

The arguments:

- **Rows.** Every UPDATE of the code is `saveIfState`, so a row moves only from
  the state the goroutine expects; `RowSteps` collects, for each action, the move
  it makes, and each is one that `CanTransitionTo` allows.
- **Announcements.** `PublishedOutcomeIsStored` is not inductive: it needs that
  a goroutine at an announcing step saw the row move
  (`AnnouncersSawTheRow`), that nobody announced that outcome before
  (`NotYetPublished`) and that nobody else is about to (`OneAnnouncer`). All
  follow from the conditional UPDATE being what leads to the announcing step.
  Their conjunction `OutcomeInv` was checked with TLC before it was proved.
- **Refinement.** A change of a row maps to `Accept`, `Decide`, `Reverse` or a
  stutter (`RowMoveIsAbstract`), a publication to `Announce`
  (`AnnouncementIsAbstract`, which needs `OutcomeInv`), and no step is both.
- **Charges.** `ChargeInv` relates the worker, the host and the row: a worker
  between the score and its save holds the sale in PROCESSING and knows the
  answer (`WorkerHoldsTheSale`, `WorkerKnowsTheAnswer`); a sale in a
  reconciler's run has no worker (`RunHasNoWorker`, where the assumption is
  used); who is about to save a rejection or a reversal has reversed at the
  host (`ReversedBeforeSave`): nothing can be charged any more, unless the
  request was still on its way, and then the sale is in `overtaken`. That
  excuse is never needed for a sale that is being REVERSED, because an
  APPROVED one has its answer.
- **What the acquirer is asked.** A score is claimed in the transaction that
  moves its sale to PROCESSING, and a sale gets there once (`NotAskedYet`,
  `LetThrough`). A request consumed without being stored is of a sale that
  is INDETERMINATE, rejected or reversed, and no conditional UPDATE leads from
  there to APPROVED (`UnstoredIsOver`). Nothing is assumed of how long workers live.
- **The age of a sale.** A sale that waits does so behind the call that has a
  slot and perhaps behind one more, for each consumer blocks on one handler
  (`Queue`). Its age never exceeds the elapsed time of any running call by more
  than one holding time at the head of the queue, and by none behind it; once it
  has its slot, its own elapsed time by more than two (`AgeIsBounded`). Time
  passes for all of them at once, and a running call ends after one holding time,
  so three is the most.
- **Paid sessions.** A session becomes PROCESSING with its event in the outbox,
  or APPROVED and REJECTED by a result, which needs that Authorization only
  decides what JetStream stored (`DecidedWasStored`). An event leaves the outbox
  only by a commit of rows that the relay deleted after they were stored
  (`StoredIfGone`, which also speaks of the window: an event that JetStream
  drops as a duplicate was stored before). `PaidInv` is their conjunction.
- **Rows of a relay.** Inductive as it stands: SKIP LOCKED takes rows nobody
  holds, and only who holds a row deletes it.
- **Told results.** Only the transaction that claimed a result goes on to tell
  the terminal. `OneTells` says that at most one goroutine is between the claim
  and the commit, that none is once the claim is committed, and that at most one
  goes on to notify, before which nobody has told.
- **Reversals and purchases.** They may be in different batches, whose rows do
  not exclude each other, so what a registration read could be stale when it
  commits. The advisory lock of the pair (`OneInPair`) makes what it saw when it
  took the lock still hold at its commit (`PurchaseSees`, `ReversalSees`).
  Purchases are never deleted, and a batch held in memory never brings back a
  purchase or an undecided reversal that the table lacks (`CopiesAreKept`).
  `Matched` is what the theorems follow from: an undecided reversal without an
  open review matches its purchase, and an open review says what its row says.
- **Batches.** `BatchInv` says what a goroutine that holds the last version of a
  batch knows of it. State, totals and transactions of its copy are those of the
  table, because whatever changes a batch also changes its version, and a
  version is never used twice (`CopyParts`). What it may save of a batch follows
  from its copy, so a closed batch has the totals of its transactions and one
  that is SUBMITTED or SETTLED was accepted with them (`TotalsParts`). Who
  loaded a batch without a reversal under review, and holds it still, finds none
  now, for whoever opens a review saves the batch too (`NoneHeld`); a review
  stays with its batch while somebody decides about it (`ReviewedBatches`). The
  advisory lock of the merchant's day leaves one operator at a time reading
  which batches are settled, and a batch that is not settled can only become so
  under that lock (`DayIsRead`), so the last of them announces the day.
- **Types of Settlement.** The totals are a fold over a set of transactions,
  whose value for every set is beyond the provers. That it is an integer is not:
  `LeastNumber` and `NatSetInduction` draw an induction without operators from
  the finite sets' being well-founded, `SumExists` shows with it that the
  recursion under the fold has a solution, and `SumIsInt` that every solution is
  integer-valued. What remains is that only finitely many transactions are
  registered.
- **Claimed notifications.** What a handler counts as saved is in the table
  (`SavedIsStored`), a save by a dispatch, from whatever copy, leaves a row there
  (`MarkedIsAState`), and no step deletes one: `StoredInv`.
- **Waiters of the link.** Every place in a queue is a live call's of the
  connection being served, which was not told anything; no call has two; and a
  call that waits untold has one (`WaiterParts`). So the end of a connection,
  which empties the queues, tells everybody, and `forget` removes who asks for it.
- **What was not sent.** Only a call that wrote its frame has one on the way
  (`FramesAreSent`), and the host approves only what arrived
  (`ApprovedWasSent`). A call that failed before its frame was whole is in
  neither, and no other authorization of its sale exists.
- **Reversals on a connection.** A reversal is asked for after the authorization
  of its sale ended, so on one connection it comes after it
  (`ReversalsComeLast`). When the host answers it, nothing of that sale is on
  the way to it or approved on that connection, and stays so
  (`AuthorizationOver`, carried by `ReversedResponses` and `ReversedCalls` to
  whoever gets the answer).
- **Scores.** `CheckInv`: what an evaluation carries is the neutral score or one
  whose rules the whole history breaks (`CarriedScores`), since a failed query
  only takes rules away (`FailuresSpare`). One evaluation at most is between the
  claim of an event and its announcement (`OneClaim`), for a claim excludes the
  others and its commit stops them from claiming, so an event has one announced
  score of the engine, with its case stored (`OneScore`).

Every safety property that a passing run checks has a theorem. Only model-checked
are the liveness properties, for liveness under fairness and ENABLED are out of
the prover's reach: `UnresolvedIsResolved`, `RequestedReversalIsDone`,
`EnqueuedIsPublished`, `SessionsEnd`, `RetryingEnds` and `RulesAreRefreshed`. So
is what a recursive definition computes for every input, which needs induction
over data with an operator as a parameter: nothing here depends on the value of a
sum, only on its being of the same transactions.

## Disagreements between code and documentation

The first two are checked by `AuthLateSave` and `IsoOvertaken`, which TLC finds
violated. The others were met while modelling: the models contain the behaviour,
and no property hides it, but a run of each would only find the one step that the
code lacks.

| Statement | What the code does |
|---|---|
| "la venta nunca se informó como aprobada" (`reconcile.go:25`) | a sale approved between the list and the load of the reconciler is reversed at the host and stays APPROVED (`AuthLateSave`) |
| of an original the host does not know, "no hay nada que revertir, y es un éxito: pudo no haber llegado nunca" (`iso8583/client.go:324`) | a request that was written to a connection that broke may be read by the host after the reversal on the new connection, and be approved: the card is charged for a sale that is rejected and that nobody reverses again (`IsoOvertaken`; `NoOrphanCharge` excepts it) |
| "La Saga tiene un mecanismo de bypass por timeout" (`authorize_transaction.go:213`) | `BypassFraudCheck` is never called; a sale whose request or score is lost stays in FRAUD_CHECKING |
| "El proceso de reconciliación puede republicar si es necesario" (`authorize_transaction.go:528`) | nothing republishes an approval |
| "si esa transacción ya existe, su resultado sigue siendo el de la original" (`authorize_transaction.go:288`) | the check and the publication are not atomic: a valid event of the sale that is handled in between creates it, and the rejection is announced all the same |
| "porque Settlement ya registró la venta" (`reconcile.go:31`) | the approval's publication may be lost or come later; Settlement then keeps the reversal under review |
| "calls in progress would be reversed" otherwise (`config.go:147`) | neither waiting for a slot nor the overrun of a call is counted: with one slot, calls in progress are reversed with accepted values too. `NoCallInProgressIsReversed` is checked and proved from three holding times on |
| "FindAllActive retorna todas las reglas activas" (`fd_repository.go:25`) | a read that is interrupted between two rows returns the rules it had, without an error (`rows.Err()` is not looked at, `fd_postgres_repository.go:235`), and the cache serves them for a whole TTL; no sale is accused by it, but rules are not evaluated. `RulesAreRefreshed` therefore speaks of the weights of the rules that a list has, not of its having all of them |
| persisting the case and claiming the event is "atómico" (`fd_evaluate_transaction.go:62`, `:128`) | the case is saved on another connection: after a rolled-back claim a redelivery may announce a score that differs from the stored case |
| persisting notifications and claim is "atómico" (`nt_notify_handler.go:102`) | the same: a rolled-back claim leaves its notifications behind, and the redelivery makes new ones |
| "fuerza el reintento manual de una notificación DEAD" (`nt_admin_handler.go:28`) | it is sent, and the result is not saved, for DEAD has no transition (`docs/technical/NOTIFICATION.md:20` says so) |
| "garantiza que cada notificación llegue o quede en la DLQ" (`context/notification/README.md:5`) | one whose process dies before its dispatch stays PENDING, which the job does not list |
| APPROVED, REJECTED and CANCELLED "son finales" (`docs/technical/TERMINAL-GATEWAY.md:107`), and a session in PROCESSING "ya no es cancelable" (`:179`) | a payment, a cancellation or a result that read the session earlier overwrites them: a session may be cancelled and its card charged, or a second payment take an approved session back to PROCESSING |
| the outbox delivers "exactamente una vez" (`outbox.go:2`) | a cycle that is rolled back publishes its rows again, and once the deduplication window has passed they are stored twice; consumers drop them by their event id |
| "Un lote con una reversa en revisión no se envía: queda en `DISPUTED`" (`docs/runbooks/batch-close-failure.md:81`, and again in `:378`) | `ResubmitBatch` sends the batch it loaded (`st_admin_handler.go:201`) and its version is compared only by the save that follows: one that was reopened and took a reversal in between is sent as it was, and the save fails. `TotalsAreOfTheRows` and `OnlyReviewedIsSent` therefore speak of a batch that nobody saved since it was read |
| the version is raised so that nobody inserts an excluded reversal again (`st_postgres_repository.go:374`) | the recovery command, or a second event of the reversal, registers it again |

Further behaviours that no document denies: a result whose goroutine dies between
its commit and the notification is never told to the terminal; a row of the
outbox whose publication always fails keeps later rows of its cycle from going
out; a purchase that arrives late may reopen a review that an operator is
closing; the thresholds of the rules of Fraud Detection are stored and never
read; two operators who change one rule at once may save a weight whose request
was refused.

## Limits

Not modelled, and why:

- Limits whose only effect is to stop: the reconciler's and the automatic
  close's batches per run (a run takes every listed row, so starvation is not
  seen), the attempts of `retryOnStale`, and the deliveries (5, 5 and 3) after
  which JetStream gives up on Authorization's events. The other models have a
  limit of deliveries.
- The pool of connections. `FindOrCreateOpen` takes a second connection while it
  holds one, and several transactions of Settlement, Notification, Fraud
  Detection and the gateway save on another connection than the one of their
  transaction: with every connection held, everyone waits on everyone. The
  models have the effect of the second connection on atomicity, not the pool.
- The echo of the ISO 8583 client, whose contents are data: an echo without an
  answer is one of the ways a connection breaks. `writeMu` is a frame's being
  written in one step there, and a part of `Grace` in `AcquirerTiming`.
- What a property does not say. `ReversedOnItsConnection` is about one
  connection: over two, `NothingLeftToReverse` is violated. `ToldOnce` and
  `ClaimedIsStored` are about one event: a second rejection of a sale under a new
  event id (a malformed event that was abandoned after its publication, and
  redelivered) is told and notified again. `TotalsAreOfTheRows` lets the processor
  be given a batch twice, with the same totals, when `SaveSubmitted` fails after
  it accepted.
- What a run leaves to a theorem. `SettlementClose` has no reversals, so the
  totals after a correction are only in `SentTotals`; `NotificationRetry` has one
  channel, so an event whose notifications are saved in part is only in
  `ClaimedHasNotifications`.
- Data: amounts except in Settlement, rejection codes, EMV, JSON, message
  layout, time zones of merchants and the business day of a sale, which is part
  of the key that an event comes with.
- `RequestReversal` and `RequestBatchClose` of the gateway keep no state: they
  are the reversal and close requests that Authorization and Settlement receive.
- Authentication of terminals and operators, payment tokens, queries, HTTP, gRPC,
  metrics, tracing, TLS, the rate limiter, generated code, migrations and
  deployment have no behaviour these properties are about.

## Plan

What would add most next:

1. More of what the proofs rest on as theorems of its own: that the constants
   which one model takes from another (`FraudAnswers`, `HostReverses`, the events
   that Settlement and Notification consume) are what the other model provides.
2. `ConnPool`: nested connections and deadlock freedom.
3. A limit on the reconciler's run, and under which failures no sale starves.
4. A composition of session, saga and settlement through the bus: what the
   terminal shows, what the issuer holds and what is settled agree.
