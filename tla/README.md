# Verification of flip-style-transfer-engine

TLA+ modules for the money-transfer engine in `src/`, the TLC runs that check
them on small instances, and TLAPS proofs of the properties that matter most
for every size. Paths below are relative to `src/`.

## The system

A client posts a transfer to the **API**, which stores it as `PENDING` and
writes a `transfer.requested` row to the **outbox**. The **outbox relay**
publishes outbox rows to a **JetStream** stream. The **worker** consumes the
stream and calls the **saga**, which moves the transfer one step per call:

    PENDING -> DEBITED -> BANK_CALLED -> CREDITED -> COMPLETED
    PENDING -> FAILED          DEBITED -> COMPENSATING -> FAILED

Each step posts to the double-entry **ledger** or calls the **bank** through a
**circuit breaker**, updates the transfer's row under an optimistic lock, and
writes an event and the next outbox row. A **reconciler** sums the ledger.

What makes it hard: no database transaction spans a step of the saga or a
request of the API. Every repository call commits by itself, so a second
worker, an error or a crash can come between any two of them. Messages are
delivered at least once and to any worker.

### Inventory

| Part | State | Operations | Module |
|---|---|---|---|
| transfer aggregate (`internal/domain/transfer`) | state, version, flags, reference, reason | `New`, `Transition` | `TransferDomain` |
| ledger and money (`internal/domain/ledger`, `internal/domain/money`) | entries | `NewPosting`, `Entries`, `SignedAmount`, `Validate` | `LedgerEntries`, `TransferDomain` |
| ledger repository (`postgres/ledger_repo.go`) | rows of `ledger_entries`, open transactions | `PostEntries`, `GetBalance`, `GetAllEntries` | `LedgerStore` (as one step in `TransferSaga`) |
| accounts (`internal/domain/account`, `postgres/account_repo.go`) | status, currency, clearing accounts | `CanTransact`, `FindByID`, `LockForUpdate`, `Save` | `TransferDomain`, `TransferSaga`, `CreateTransfer`, `LedgerStore` |
| saga (`internal/application/saga`) | the call in progress and its copy of the row | `Execute` and its steps | `TransferSaga` |
| transfer repository, event store, outbox writer | rows of `transfers`, `transfer_events`, `outbox` | `Save`, `UpdateState`, `Append`, `Write` | `TransferSaga`, `CreateTransfer` |
| create command, middleware, handler | request in progress, Redis cache | `Handle`, `idempotencyMiddleware`, `SetIfAbsent`, expiry | `CreateTransfer` |
| outbox relay, publisher, stream | rows, locks, stream contents | `relay`, `Publish`, `EnsureStream` | `OutboxRelay` |
| circuit breaker | state, count, opening time | `Call` (two critical sections) | `CircuitBreaker` |
| bank mock | mode, call count | `InitiateTransfer` | `BankGateway` |
| consumer, worker binary, JetStream's side of a consumer | message states, prefetched messages, handlers | `Subscribe`, the handler, `Ack`, `Nak`, delivery, `AckWait` | `TransferEngine` |
| reconciler | snapshot, totals | `reconcile` | `LedgerStore` |
| balance endpoint (`http/handler.go`) | the account it has looked up | `GetAccountBalance` | `LedgerStore` |

The places where the code can go wrong and a test would hardly notice are
listed, line by line, under `hazards` in `PROJECT.json`.

## Modules

**TransferDomain** has no variables. `validTransitions`, `Transition` and `New`
are the aggregate; `Posting`, `CanPost` and `BalanceOf` the ledger. A posting
is identified by its transfer and one of four legs, so the ledger is a count
per transfer and leg, and an account's balance is a sum over these counts. The
empty string of `external_ref` and `failure_reason` is written `None`.

**TransferSaga** runs any number of `Execute` calls at once. `worker[w]` is the
call that worker `w` is in: the repository or bank call it makes next (`pc`),
its in-memory copy of the transfer (`t`) and the postings still to make. One
action is one such call together with what the code does up to the next:

| Action | Code |
|---|---|
| `Execute` | `FindByID` and the step map |
| `LockForUpdate`, `GetBalance` | the two checks of `reserveDebit` |
| `PostEntries`, `PostingRejected` | `NewPosting` and `PostEntries` of any leg, and their errors |
| `BankAcknowledges`, `BankFails` | `callBank`, and `startCompensation` on an error |
| `UpdateState`, `UpdateConflict` | the versioned UPDATE, and no row affected |
| `AppendEvent`, `WriteOutbox` | the two halves of `publishEvent` |
| `Abort` | any call returns an error, or the process dies |
| `SaveAccount` | a source account changes its status |

A commit whose acknowledgement is lost is the committing action followed by
`Abort`. `LockForUpdate` leaves no lock behind, because the query runs on the
pool and its implicit transaction ends with it.

**TransferContract** is the abstract specification: per transfer its state, the
legs posted at least once and whether the bank has acknowledged, with the
order in which these may change. It has no workers, copies or failures.
`TransferSaga!Contract` instantiates it with a refinement mapping.

**CircuitBreaker** has an action for each critical section of `Call` (`Enter`,
then `Fail` or `Succeed`), since the mutex is free while `fn` runs. `failing`
is a history variable. Time is `sinceOpened`, which stops at `resetTimeout`.
**BankGateway** puts the mock's failure modes behind the breaker, and a bank
whose calls succeed and fail at will (mode `other`).

**CreateTransfer** has one process per HTTP request, from the middleware to the
answer, with one action per store call. A transfer is named by the request that
creates it. Redis forgets keys at any time (`Expire`).

**OutboxRelay** has the table, the stream and any number of relays. A batch is
a set of row ids and its rows are taken smallest first, as `ORDER BY id` does.
Row locks last while a relay is `reading`. The stream exists from the start or
is created later. Rows become visible in id order in the model; in Postgres two
concurrent inserts may commit the other way round, which no property here
depends on.

**EventChannel** is the abstract specification of outbox, relay and stream: rows
stay as written, and the stream gains copies of rows whose subject it takes, in
any order and number. `OutboxRelay` implements it (`KeepsChannel`), and
`TransferEngine` uses it in place of the relay.

**LedgerEntries** has no variables: entries as records, `Accepts` (the checks of
`NewPosting`), `SignedAmount`, and `Wrap`, the wrap-around of an int64
whose largest number is `MaxInt`. **LedgerStore** has the tables and everyone who reads or writes
them, with one action per round trip:

| Action | Code |
|---|---|
| `Save` | `AccountRepo.Save`, which never changes a currency |
| `Deposit` | a balance seeded without a counter-entry, as the integration tests do |
| `Begin`, `Insert`, `InsertRefused`, `Commit`, `Break` | `NewPosting` and `PostEntries`: the transaction, its INSERTs, the foreign key, and a connection that is lost before or after the COMMIT took effect |
| `GetAllEntries`, `Report`, `AuditFails` | `reconcile` |
| `FindByID`, `GetBalance`, `BalanceFails` | the two queries of `GetAccountBalance`; a NUMERIC sum outside int64 fails to scan |

The row's `description` tells a seed from a posting. An account starts without
a row, so clearing accounts that nothing has seeded are part of it.
**LedgerContract** is what readers may rely on: the ledger grows by whole
postings or deposits, each under an id of its own, and never changes otherwise.
`TransferSaga`, where `PostEntries` is one step, relies on it in turn.

**TransferEngine** closes the loop: it extends `TransferSaga` with the stream,
JetStream's delivery and the worker. A message is `new`, `out` (delivered,
`AckWait` running), `due` for redelivery or `acked`.

| Action | Code |
|---|---|
| `Publish` | the relay, as `EventChannel` has it |
| `Deliver`, `AckWait` | JetStream with the consumer's defaults: explicit acks, `MaxAckPending`, redelivery without limit (external) |
| `HandleUnnamed`, `HandleSettled`, `HandleExecute` | `Subscribe` takes a message; the handler parses `transfer_id` and calls `Execute` |
| `SagaStep`, `StepFails`, `Hang` | `Execute` goes on, fails in a repository call, or waits for a bank that never answers |
| `Ack`, `Nak`, `AnswerLost` | the answer, whose error the loop ignores |
| `Crash` | a worker dies with its prefetched messages and is started again |
| `Call` | a direct call of `Execute`, as the integration tests make it |

A payload either names its transfer (the saga's `publishEvent`) or does not
(the API's `transfer.requested`, whose event has no `transfer_id` field). So
the worker never starts a saga by itself, and `Call` stands for whoever does.
Accounts stay active in this module; their status is `TransferSaga`'s matter.

**MC…** modules give the constants values. **…Proofs** modules hold theorems,
and **Sums** the lemmas about sums over finite sets that they share.

## Runs

Most runs end in seconds, `saga` and `ledger` in a minute and a half and
`engine` in two and a half. Distinct states are in parentheses.

| Run | Shows |
|---|---|
| `saga` (247,460) | two workers, two transfers, one of which is refused its debit each time, freezes, a fault: never paid and refunded, paid only if backed, settled states backed by the ledger, events announced once and truthfully, rows advance, contract kept, inductive invariant; under fairness and while the bank answers one worker, a transfer past its first step is settled |
| `bank` (24,778) | three callers and every mode of the bank: closed exactly while healthy, never half-open without a probe, blocked for the whole timeout unless a call under way succeeds; a recovered bank is back in service, a dead one is cut off but probed for ever |
| `create` (329,940) | any three of eight requests with one key or none: same answer to a request and its retries, durable when accepted, one transfer queued, a refused request leaves nothing behind |
| `relay` (132,344) | two relays, late stream, two faults: marked only if stored, every row the stream takes is published, `EventChannel` kept |
| `ledger` (1,256,749) | two writers, reconciler and balance request on 3-bit integers, missing accounts, a fault: nobody reads half a posting, the reported drift is what was seeded even when totals overflow, a balance is true or an error, `LedgerContract` kept |
| `engine` (172,694) | two workers, a direct caller, one mishap anywhere: a message is acked only when superseded, an announced transfer is never stranded; under fairness, messages alone settle it and the stream drains |

Six `claim_…` runs each refute one sentence of the repository; the counter-
example is what the code does, and `findings` in `PROJECT.json` quotes the
sentence.

- `claim_overdraft`: two workers overdraw an account, because the row lock is
  gone before the balance is read.
- `claim_settled_once`: a step repeated after a failure between the posting and
  the row update finds the balance reduced by its own debit, and the transfer
  ends FAILED with the debit in the ledger. `SettledOnce` would exclude a second
  debit, a second refund and a FAILED transfer that the bank has paid as well,
  which the code can reach too.
- `claim_outbox_atomic`: the API's row and its outbox row are separate commits.
- `claim_guaranteed_delivery`: unroutable events at the head of the batch starve
  the relay.
- `claim_double_publish`: two relays publish one row, though nothing fails,
  because the locks of `SKIP LOCKED` end with the query.
- `claim_accepted_processed`: nothing fails, and an accepted transfer stays
  PENDING, because its message names no transfer and goes round for ever.

Other differences between documents and code met while modelling follow from
the definitions and have no run of their own:

- `TransferContract` says what the code does and allows a debit of a FAILED
  transfer and an acknowledgement of one that is being compensated (`PostDebit`
  and `Acknowledge`), which `docs/api.md` does not.
- One `Execute` is one step (a test expects COMPLETED after one), and
  COMPENSATING has no audit event.
- Seeding a balance makes the reconciler report drift for ever, although
  `docs/adr/001` has `SUM(all entries) = 0` (`OnlySeedsDrift` says how much).
- Every API message is refused and stays unacked; `MaxAckPending` of them (1000
  by default) stop all deliveries.
- A failing credit is retried and never compensated; nothing creates the
  clearing accounts; the bank call has no deadline.
- A half-open breaker admits every caller, not one probe.
- A retry after a failure behind `Save` is answered with 500, as is a frozen
  account.
- A key reused with another body is answered with the first transfer: no
  fingerprint of the body is kept. `docs/adr/004`, `docs/failure-modes.md` and
  `docs/api.md` have a 422 with `idempotency_key_reused_with_different_payload`,
  which the handler can write and nothing returns. `SameAnswer` is therefore
  stated for requests with the same key and the same body.
- A transfer to the clearing account is refused its credit each time and stays
  BANK_CALLED, where `docs/architecture.md` has compensation on a failure at
  any step.

### Bounds

- *Two workers* (`saga`): the transfer in IDR goes through all its states. The
  one in USD, whose clearing account nobody has seeded, is refused its debit or
  fails when the source is frozen, and keeps a worker from the other. `alice`
  holds twice the amount, so that a second debit of the same transfer passes
  the check and both workers can post. The proofs cover any number of workers,
  transfers and faults.
- *Two transfers from one balance* in `claim_overdraft`; their amounts together
  exceed what `alice` holds. In `claim_settled_once` `alice` holds exactly the
  amount of the one transfer.
- *MaxFaults* bounds errors and crashes. One is enough for a saga that is
  resumed after having been cut short anywhere, while another worker goes on;
  two, in `create` and `relay`, reach a crash during the recovery from a crash.
- *maxFailures* is 3 with three callers, so the threshold is crossed with calls
  still in flight. *resetTimeout* is 3 ticks: failures and late
  successes fall before, during and after it. The flaky bank fails four times,
  once more than the threshold.
- *MaxArrivals* is 3: two requests that overlap and a retry after them, chosen
  from good bodies, a different body, no key and each kind of refusal.
- *batchSize* is 2 with up to 3 rows: a batch can be full, and rows wait behind
  it. *MaxUnroutable* is one less than a batch in `relay`, and a whole batch in
  `claim_guaranteed_delivery`.
- *MaxInt* is 3 in `ledger`, so int64 is -4..3 and three transactions of up to 3
  units overflow balances and totals in both directions. Three transactions of
  two writers let one posting overlap another and a deposit.
- `engine` has one transfer and one API row: transfers share nothing there but
  the queue. *MaxAckPending* is 2, one more than the messages that are refused
  for ever, and *MaxPrefetch* is 1, so that messages do wait for each other.
  *MaxMishaps* is 1, of any kind, at any point; *Repeats* names the one row
  that may be published again. The API's row is not among them: two copies of
  it would fill *MaxAckPending* and stop the queue, as 1000 of them do in
  production. The safety theorems hold for every value of these bounds.
- Deadlock is not checked for the relay, which has nothing to do once every row
  is published and the row bound is reached, nor for the bank, whose
  `ModeTimeout` never returns.

### Fairness

- Saga: a worker goes on with its call (weak fairness of `Step`) unless it
  waits for the bank, since `callBank` has no deadline. A transfer is executed
  again and again (strong fairness of `Execute`, since all workers may be busy
  at any one time), but only once an outbox row names it: the API's message
  does not, and the worker refuses it before `Execute`. From then on a failed
  or interrupted call is redelivered, and a successful one leaves an outbox row
  whose message calls the next step; this is an assumption about the saga's
  callers, which `TransferEngine` replaces by the queue itself (`NeverStranded`
  is why it is sound). What is not the program's to give is a hypothesis of
  `ResumesUntilSettled` itself: that there is a worker whose bank calls return,
  and that the transfer is not one to the clearing account.
- Engine: workers that are not waiting for the bank go on with their loop (weak
  fairness of `Work`); the relay publishes each row at least once, which is
  `EventuallyPublished`; `AckWait` ends; and no message is passed over for ever
  (strong fairness of `Deliver` per message, since a worker's prefetch may be
  full at any one time; with 500 messages fetched ahead by default, a refused
  message does not keep another out). At least one worker does not hang. A
  direct call of `Execute` is never forced, nor is any mishap.
- Gateway: time passes, calls return, callers keep calling.
- Relay: the ticker polls again, and a worker that creates the stream is
  started some time. Crashes and errors are never forced and are bounded.

## Proofs

Each component has one inductive invariant, types included (`Inv`, in the
engine `AllInv`), which its run checks and a theorem establishes for every
size (`Invariance`, `RelayInvariance`, `LedgerInvariance`, `EngineInvariance`).

**TransferSagaProofs.** `TypeOK /\ SagaInv` is inductive. The properties by
themselves are not, since they say nothing about the workers' copies. `SagaInv`
adds that

- a row's other columns are determined by its state (`WellFormed`), and the
  ledger and the bank are at least where the row says (`RowInv`);
- a copy in memory is a past state of its row, or one transition ahead of one
  with the effect already in place (`TaskInv`): a stale worker may repeat an
  effect, but only one that the row has been through;
- no two workers are about to announce the same state change (`OutboxInv`):
  only the one whose versioned UPDATE took effect gets there.

From it follow `PaidXorRefunded`, `Backed`, `Settled`, `Announced`,
`AnnouncedTrue`, the action property `NoLostUpdate`, and `Refinement` (the saga
implements `TransferContract`), for any number of transfers, workers and
faults, from `DomainAssumption` and `SagaAssumption` alone.

**SerialSagaProofs.** What two workers break and one keeps. The theorems on
effects assume `OneWorker` (no two workers, so also none); overdrafts need
`Funded` too: no transfer is from its own clearing account, and no source
starts in debt. `claim_overdraft` and `claim_settled_once` show that neither
the second worker nor the fault can be allowed.

- `SerialInv` is inductive on top of `Inv`: the worker's copy is its row up to
  the posting or bank call, and at `UpdateState` it is one version ahead, with
  its effects in place exactly once. So the only transfer whose effects are
  not those of its row is the one about to be updated, and between two calls
  there is none: `EffectsExactlyOnce`. `SettlesOnce` is the claim of
  `claim_settled_once` for a worker none of whose calls fails: a settled
  transfer that nobody works on is not about to be updated.
- `FloatBalance` adds up the legs of each transfer at the clearing account
  (`Moves`): its amount if it is under way and 0 otherwise. It needs that a leg
  which `NewPosting` refuses was never posted (the last conjunct of
  `SerialInv`), or a transfer to the clearing account would upset the sum.
- `FundsInv` says that the balance which `reserveDebit` has checked is still
  there when it posts the debit. A debit is the only posting that takes from a
  source; the others leave each balance as it is or raise it. `NoOverdraft`
  holds for any number of faults, a debit repeated after a crash included,
  since it passes the check again.

`BalanceAssumption` is used here: finitely many transfers, integer balances.

**Sums.** `SumFunctionOnSet` is a fold whose definition chooses an element of a
set and recurses. The library's induction theorems cannot be instantiated, so
induction is done on sets: a set of subsets of a finite set that contains each
of them whose proper subsets it contains is the whole power set (`EverySubset`,
from the least element of a set of numbers). From this follow that the fold
has a value (`FoldExists`), that it does not matter which element is taken out
first (`SumTake`), and the rules for changing, splitting, adding and negating.

**CircuitBreakerProofs.** `ClosedExactly` needs that a closed breaker has
counted every failure since the last success; `HalfOpenIsProbed` that a probe
ends the half-open state whatever its result. `Blocks` needs in addition that a
half-open breaker has waited for all of `resetTimeout` (`HalfOpenIsLate`). All
hold for any number of callers.

**CreateTransferProofs.** `CreateInv` is inductive: what is cached or answered
has been stored, logged and queued, and no two stored transfers share a key.
`Durable`, `Idempotent` and `OnePerKey` follow.
`RefusedIsClean` needs in addition that a request with a row is past `Save`
and that none is answered before it is done (`RefusedInv`).

**OutboxRelayProofs.** `RelayInv` is inductive: the row that a relay is about to
mark is in the stream, which only grows. `NoEventLost` follows, and
`RelayKeepsChannel`: every step of the relays and writers is a step of
`EventChannel` or leaves it alone. `DuplicatesBounded` needs to know who may
still add a copy of a row (`CopiesInv`). While the row is PENDING, each copy is
that of a relay about to mark it, or of a fault. Once it is PUBLISHED, nobody
selects it again, and the copies together with the relays that still hold it
in their batch are at most one per relay and one per fault.
`AloneNoDoublePublish` is the case of one relay: what `claim_double_publish`
refutes holds without a second one.

**LedgerStoreProofs.** `WholePostings` says nothing of open transactions;
`LedgerInv` adds that a transaction holds one whole posting, debit first, in
one of three stages, under an id that no entry and no other transaction has.
From it follow `NoHalfPosting` and `LedgerKept` (the tables implement
`LedgerContract`: a commit is one `PostWhole`). `DriftIsSeeds` rests on `Conserved`:
the signed sum of the ledger is that of its seeds, because every step of
`LedgerContract` adds a balanced posting or a seed; and so it is of the
reconciler's snapshot. The int64 totals are then the wrapped sum, since
wrapping after each addition or once at the end comes to the same (`WrapAdd`,
`TotalWraps`), for any `MaxInt`. `BalanceAnswered` splits the signed sum of an
account into its credits and its debits (`SumIsNet`), in the currency that was
read with the account, which `Save` does not change.

**TransferEngineProofs.** `EngineIsSaga` shows that every step of the engine is a
step of `TransferSaga` or leaves it alone, so every theorem above about the
saga holds of the engine. `EngineInv` then adds what a handler knows: while it
executes, it executes the transfer that its message names, and once it says
nil, that message is superseded (the saga's `WriteOutbox` has just appended a
later row, or the transfer was settled, which it stays). `AckIsSafe` follows.
`NoneStranded` takes the last outbox row of the transfer, which exists by
well-founded induction on the natural numbers: nothing supersedes it, so no
message of it is acked, and its subject is one that the stream takes, since a
terminal event is announced only by a settled transfer (`OutboxInv`).
`EngineUsesChannel` shows that the engine takes from `EventChannel` no more
than the relay gives.

All hold for any number of transfers, workers, accounts, requests, relays and
faults, from the named assumptions on the constants alone; only those of
SerialSagaProofs are about a single worker.

Every invariant, action property and refinement that a passing run checks is
proved. `ExactlyOnce`, `FloatHoldsInFlight`, `SoloInv` and `FewDuplicates` are
proved and need no run. Only model-checked are the liveness properties, since fairness and
ENABLED are outside the prover's reach: `ResumesUntilSettled`,
`EventuallyPublished`, `ClosesAfterRecovery`, `CutOffButProbed`,
`AnnouncedSettles` and `StreamDrains`.

## Not modelled

Logging and metrics, the wiring, configuration and shutdown of the binaries
(`cmd/api` and the first halves of the other mains), the port interfaces, which
have no behaviour of their own, `GET /v1/transfers/{id}`, which returns one
committed row, and the contents of ids, timestamps and descriptions.
`Money.Add`, `Money.Sub`, `Posting.Reversal`, `FindByIdempotencyKey` and the
table `processed_events` are not used by any binary. The API and the engine
are not composed in one module: what the engine takes over from the API are
the transfer and its outbox row, and `AcceptedIsDurable` is what makes them
available.
