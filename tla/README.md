# Verification of the payment services

TLA+ models of the payment platform in `src/` (Go services under `src/services`,
the Python fraud worker under `src/app/fraud`), TLC runs that check them on small
instances, and TLAPS proofs of the safety results for every instance.

## The system

A payment enters through the **gateway**, which authenticates the caller, charges the
request to a token bucket and calls a service over gRPC with mutual TLS. It is driven
by the **saga orchestrator**: it asks the **verification** service about the payer, debits the **wallet**, reserves
the transfer in the **ledger**, and enqueues `payment.execute` and
`fraud.score.requested` in the **outbox**. Outbox **publishers** bring rows to Kafka.
The **payment processor** charges the external rail and answers with
`payment.completed` or `payment.failed`; the orchestrator then confirms the transfer,
or cancels the reservation and refunds. The **fraud worker** scores the payment with
a language model and may publish `fraud.flagged`, which holds the saga in
`FRAUD_REVIEW` until an operator or the **reaper** decides. **Notification** and
**ledger consumers** read the events; records that cannot be decoded go to
**dead-letter** topics, from which an operator redrives them.

Nothing holds a lock across two calls; inside a call of a store, rows are locked until
its transaction ends. Safety rests on idempotent operations keyed
by payment, on committing Kafka offsets late, and on database rows; the models are
about what happens between those calls.

| Part | Source | Module |
|---|---|---|
| Saga orchestrator, review, reaper, consumer, boot | `internal/saga`, `internal/sagaconsumer`, `internal/sagagrpc` | `PaymentSaga` |
| What a payment promises | (abstract) | `PaymentOutcome` |
| Payment processor and rail | `internal/paymentprocessor` | `PaymentProcessor` |
| Outbox and publishers | `internal/outbox`, `repo/queries/outbox.sql.go` | `Outbox` |
| Fraud worker, sessions, leases, retention | `app/fraud/{worker,repo,integrations,runtime,retention}` | `FraudWorker` |
| Scoring graph and validator | `app/fraud/{graph,validator,guards}` | `FraudGraph` |
| Wallet and ledger store and its services | `internal/repo/wallets.go`, `internal/wallet`, `walletgrpc`, `ledgergrpc` | `WalletStore` |
| What the store promises | (abstract) | `Accounts` |
| Verification service | `internal/verification`, `verificationgrpc` | `Verification` |
| Notification and ledger consumers, dead letters, redrive tool | `internal/{notification,ledgerconsumer,deadletter}`, `cmd/dlq-redrive` | `DeadLetters` |
| Rate limiter | `internal/gateway/middleware` | `RateLimiter` |
| Gateway, authentication, the gRPC servers' answers, review queue, ledger pages, phase 1 API | `internal/gateway`, `internal/auth`, `internal/{saga,wallet,ledger,verification}grpc`, `internal/handler` | `Gateway` |
| Certificates and their rotation | `internal/mtls`, `app/fraud/integrations/grpc_client.py` | `Rotation` |
| Start, migrations, calls between services, shutdown | `cmd/*`, `repo.RunMigrations`, `app/fraud/main.py` | `Lifecycle` |
| Saga audit retention, config, telemetry, generated code, chat, web, load generator, infrastructure | | not modelled, see below |

`PROJECT.json` lists every part, the source lines of every definition, and the hazards.

## Modules

**PaymentSaga.** The threads of one process (gRPC handlers, consumer, reaper, boot).
`pc[t]` is the call a thread makes next and `cur[t]` the copy of the row it read;
one action is one remote call or one database operation with the code up to the
next. `row` is the table `sagas`; a write replaces the whole row, because
`updateSaga` has no version check. Wallet, ledger and verification are sets and
statuses with the idempotence and refusals of `repo/wallets.go`. `Crash` loses the
threads and the consumer's position; `Restart`, `ResumeOne` and `Serve` are
`main` and `ResumeNonTerminal`. After an error the consumer goes on with the next
record, as `Run` does.

**PaymentOutcome.** The abstract specification: money is taken at most once and ends
with the recipient or back with the payer, and only a reached end is announced.
`PaymentSaga!KeepsOutcome` is the refinement: `money` is read off the wallet and
ledger, `announced` off the outbox.

**PaymentProcessor.** Processes of one consumer group over one partition. A process
keeps what it fetched (`rec..last`) after the partition moved. `attempt` is
`payment_attempts`; `Charge` may charge and still report an error. `CallFails` is a
store call that returns an error.

**Outbox.** Publishers over one table. `Claim` takes the oldest unpublished rows, and
may pass over those of a claim running at the same time (`SKIP LOCKED`); `claimed_at`
is never read, so two publishers can hold one row. A batch is a set because
`RETURNING` gives no order. Every call may fail with or without its effect.

**FraudWorker.** Worker processes, leased sessions, the heartbeat as a task of its own,
partition moves, lease expiry, retention. Scoring is one step with any outcome. The
history variable `swept` remembers which sessions the retention sweep removed; what is
said of verdicts is said of the others.

**FraudGraph.** The inside of that step for one request: nodes, failures, guards, one
corrective retry, and the validator with scores in hundredths.

**WalletStore.** Calls of the wallet service, the ledger service and the ledger consumer
as transactions at READ COMMITTED. `pc[s]` is the next statement of session `s`; `seen`
holds the balances it read when it locked the wallets; the three lock variables say who
has a wallet, debit or reservation row. A transaction's writes appear with its commit,
so one `Write...` action holds the statements from the last lock to `Commit`. `Abort`
is a cancelled context or a lost connection; `DeadlockDetected` is the database's.

**Accounts.** The abstract store: each operation at once, on the tables as they are.
`WalletStore!ImplementsAccounts` is the refinement, with the same tables.

**Verification.** Submissions and admin commands of concurrent sessions. The key is
checked before the row is locked, the row is locked, written and committed, and the
event is enqueued afterwards; `Abort` is a failure or crash at any of these points, and
a lost answer of a commit.

**DeadLetters.** One consumer over one topic: `Effects` are done in turn (email and sms;
for the ledger consumer, the append), then the offset is committed; a record that cannot
be decoded is parked, then committed. Beside it one operator runs `dlq-redrive` to list,
discard or redrive, `opPosition` and `opCommitted` being the tool's own offsets. A
produce or commit may fail with or without its effect.

**RateLimiter.** The token bucket of each user against a discrete clock: `bucket[u]` holds
the tokens and the instant of the last whole refill; there is none until a user's first
request.

**Gateway** extends it. A request is a record in `log` that moves from arrival through
authentication, limiter, handler and service to its HTTP status. The service's part runs
statement by statement beside that of other requests: the insert of a saga and, when a
unique index refuses it, the look for the row that was in the way are two steps.
`LoseConnection` tells the caller 500 while the service goes on, and `Fail` is a failing
statement. The ledger is read page by page; a page's cursor passes through every encoding
on the way (store, gRPC token, gateway, JSON), each a function on time
stamps, and all keep the fractions of a second. What a payment does after its start is `PaymentSaga`'s subject.

**Rotation.** An operator replaces certificate, key and CA bundle of one service after the
other, a file being half-written for a while; `reading[e]` is what an end of a connection
has read of the three files so far, each read being a step of its own, and `creds[e]` the
last set that parsed. The first CAs of a half-written bundle parse, as in the code. The
history variable `floor[e]` is the generation a handshake owes: what was rolled out when
it began or, once a write has fallen into its reads, what the end used last.

**Lifecycle** extends it. A process walks through the steps of its `run` function (`Boot`),
each of which may fail, then serves calls until a signal, a failing listener or a kill.
`lock` has the service whose session holds the advisory lock of the migrations. Every
statement of `RunMigrations` goes through the pool: the unlock may run in another session,
and then only the end of the session frees the lock (`SessionEnds`); and the session may
be closed while the files run (`SessionLost`), which frees the lock too early and puts
the service among `lock.lost`. The saga calls the wallet before it serves
(`ResumeNonTerminal`).

`MC*` modules hold the instances for TLC. An operator commented `Mutant:` is a
plausible bug in the definition that follows it; no specification uses it.

## Runs

| Run | Shows |
|---|---|
| `saga` | two handlers, consumer, reaper, boot, a flag, one crash or error, stale writes, an unfunded payment: confirmed only if charged, terminal rows true, results committed only when kept; refinement of `PaymentOutcome` |
| `saga_liveness` | two payments and a crash: sagas end and the process serves again |
| `processor` | two processes, duplicated and invalid commands, a rebalance, one crash or failing call: completed means charged, offsets safe, one result and bounded calls while one process handles a payment, every command answered |
| `outbox` | a marked row was produced, every committed row is produced |
| `fraud_worker` | only stored verdicts are published, nothing unsettled is committed; without an expired lease no request is scored twice at once |
| `fraud_graph` | what is returned is stored, the graph ends |
| `wallet_store` | two transactions at a time: money conserved, one known deadlock only, every call returns; refinement of `Accounts` |
| `verification` | announced is what is stored, once; one owner of a key; every decision announced if nothing fails |
| `dead_letters` | nothing lost while no call fails, the operator's offset passes only what was decided, every message delivered or parked |
| `gateway` | an accepted payment is the one asked for and recorded once, a retry that names its payment never conflicts, the limiter gives no token too many or too few, a walk over the ledger is exact while entries commit, every request is answered |
| `lifecycle` | migrations overlap only where a session was lost under one, accepted calls finish before a stop, a rotation takes effect without restart, a handshake fails only on an outdated leaf or pool, every service starts and every stop ends |

Two further configurations are run by hand with `tlc -config`: `saga_review_liveness`
(`MCPaymentSaga`: an undecided review ends through the reaper) and `fraud_liveness`
(`FraudWorker`: every request is settled when no call fails). Both pass.

Runs other than `wallet_store` and `verification` switch deadlock checking off: with the
bounded inputs used up, every part is idle, as it is in operation.

### Disagreements with the documents

Each configuration checks a property that states the document and is violated by the
code. `doc_terminal` is a run of `PROJECT.json`, whose `findings` quote both sides; the
others are run by hand in the same way, on the `MC` module where there is one, and the
comment on the property quotes the document.

| Configuration | What the code does |
|---|---|
| `doc_terminal` | the consumer stores a deferred result in its copy of a saga in review, over the FAILED that an operator's reject has reached |
| `doc_paused` | a duplicate flag after resumption pauses a second time |
| `doc_announced` | a crash after FAILED is stored loses `tx.failed` |
| `doc_deferred` | resuming a review can clear a result deferred meanwhile |
| `doc_refunded` | an unverified failure beside a concurrent debit leaves the debit |
| `doc_duplicate` | two starts both drive the saga |
| `doc_restart` | one saga that cannot be resumed stops every boot |
| `doc_processor_status` | overlapping processes overwrite a settled status |
| `doc_processor_commit` | a failed command is passed over by the next commit |
| `doc_outbox_order` | publishers side by side drain a backlog out of order |
| `doc_fraud_lost` | a request to be retried is passed over by the next commit |
| `doc_fraud_first` | a new group skips what is already on the topic |
| `doc_fraud_lease` | a late renewal leaves the lease behind |
| `doc_parked` | a poison record whose dead-letter write failed is passed over by the next commit |
| `doc_statuses`, `ConflictIs409` | a conflicting idempotency key is answered with 500, not 409 |
| `doc_statuses`, `FundsIs422` | insufficient funds are answered with 500, not 422 |
| `doc_rotation`, `HandshakeNeverFails` | a half-written bundle has at least one CA, so it parses and replaces the last good pool, and the end refuses leaves of the CAs that are still missing; an end that made no handshake for a whole generation, and meets half-written files at the next, falls back on a leaf or bundle two generations old and is refused; so is one that kept a mixture (new leaf, old bundle) of the generation before |
| `doc_rotation`, `WorkerHandshakeNeverFails` | a worker started amid a rotation keeps torn or mixed files until its next restart |
| `doc_rotation`, `MigrationsNeverOverlap` | the pool closes the session that took the lock while the files run, as nothing pins it, and the next service starts to migrate |

A few more are visible in the models without a configuration of their own. A start with
an `Idempotency-Key` but no `payment_id` gets a fresh id each time, so an identical retry
is a conflict, though `services/docs/phase3/specs/02-saga-orchestrator.md` says the existing saga is
returned; `RetryNeverConflicts` is therefore about starts that name their payment. An
unsupported currency is answered 400 by the gateway and 422 by `cmd/api`. The transfers
handler of `internal/gateway` is mounted by nobody.
`docs` of the verification service say `user.verified` is published when the status
becomes verified; a fault between the commit and the event loses it for good, which is
why `EveryDecisionAnnounced` speaks of behaviours without a fault. They say duplicate
submissions are idempotent; a second one that runs beside the first is answered with a
key conflict. And `balance_after` of an entry appended by the ledger consumer is the
balance at the time of the append, not after the transfer.

## Bounds

Constants named `Max...` cap crashes, errors, expiries, moves and records. One or two
of each are enough for the races listed: they need two actors, one fault and one
duplicate. One payment suffices where the property is about one row (the store is
keyed by payment); two are used where the consumer's offset or the boot loop couples
them. Two of three commands, and two workers, are what an overlap needs.
Two sessions on two wallets, with a payment and a transfer in each direction, give every
pair of operations of the store that can meet; two users and two keys give every meeting
in `Verification`. A poison record between two good ones is what a skipped offset needs.
`MaxTopic` also cuts off a redrive that replays what the consumer parks again. Boundary
scores in `MCFraudGraph` lie on and beside every comparison of the validator.
`saga` allows one crash or one error (`OneFault`), and neither, nor a flag, together with
the unfunded payment; `processor` one fault in the same way. In `MCGateway` the requests
come in groups that touch the same rows or the same bucket, two or three of a group at a
time; three entries on pages of one, with equal and with different times, are what a cursor can
get wrong. In `MCLifecycle` five deployments of two or three services each meet the faults of
one kind of question: the chain gateway, saga, wallet for starting and stopping in any
order; two services that migrate, with a session lost under one; the saga and the wallet,
which are signalled together, or rotate through three generations with a change of CA; the
worker, which reads once; and those without migrations or gRPC. The bundles list their
CAs in either order, so that either CA is the half of one. The constraints (`Faults`,
`Rotated`, `Twice`) leave out what adds nothing: two ends that have both read a part of
their files, since files are rewritten one service at a time, in the order of
`gen-certs.sh`, and the reads of files at rest can be put off or brought forward; in the chain, where no file is rewritten, a server that reads
before its client; handlers and boot steps that meet no file while files are rewritten;
and more than two handshakes of one pair. They bound TLC alone: the proofs have
none of them. Two
consecutive generations overlap in what they trust (`OverlapAssumption`). That is assumed of
the operator; no document asks for it, and a test of `internal/mtls` shows the refusal
without it.
The proofs lift these bounds for the properties listed below. `SYMMETRY` is used on
handler threads, in runs without liveness only.

## Fairness

Weak fairness of a thread's next step (goroutines and the event loop are scheduled,
and calls return or fail), of polling, of the reaper's ticker and of restart (the
platform restarts a process). For the saga also that the rail answers each payment
once. A statement of a store transaction has strong fairness: a waiter for a row is
queued by the database, so it is not passed over for ever. In `Gateway` an open request
goes on. In `Lifecycle` a process is started again and goes on, the operator finishes the rewriting of files, a pool ends a session that holds
the lock (its maximum life time), and the lock has a fair queue; `MCFairSpec` states the
same with fewer conditions, since no deployment has two services of one rank. None is
assumed of operators, flags, duplicates, crashes or errors, which are
finitely many.

`saga_liveness` has no fraud flags and `saga_review_liveness` no crash. With both,
and the reaper, `SagaEnds` fails: the consumer confirms the transfer from a copy read
before the reaper rejected the payment, a crash follows, and the cancellation the boot
thread repeats is refused for good. It is the boot loop of `doc_restart` reached in
another way.

## Proofs

The runs list the properties and not the inductive invariants that imply them, nor
`TypeOK`, which is a conjunct of those; each was checked first by adding it to the
`INVARIANTS` of its component's run, and passes there, as does `TypeOK` of `FraudWorker`
(also in `fraud_liveness`) and `DeadLetters`.

- `PaymentSagaProofs`: `SagaInv` is inductive. The safety properties are not inductive
  by themselves, because a stale copy can be written back at any time. The
  strengthening: every copy of a row, stored or held, claims only what wallet, ledger
  and outbox bear out, and those facts are never taken back. From it the step simulation
  of `PaymentOutcome`, and the consumer's path through its handler (`ConsumerFlow`):
  commits only of kept results.
- `PaymentProcessorProofs`: completed means charged, with any errors and overlap; the
  offset is safe as long as no store call has failed. That premise is needed:
  `doc_processor_commit` is the counterexample without it. As long as the partition has
  not moved, one result and bounded calls: `SingleInv` adds that only one process has
  work, that the row agrees with what was published, and how far `attempt_count` runs
  ahead of the calls that were made.
- `FraudProofs`: in the scoring graph, returned is stored, calls are guarded and actions
  canonical, for all thresholds the configuration accepts. In the worker, flags are
  stored, commits settled and scoring exclusive, for any workers and requests.
  `FraudInv` says what a process may be about to do at each of its calls: a verdict in
  hand agrees with the stored one or has lost its lease, and the store will refuse it.
- `DeliveryProofs`: an outbox row that is marked was produced, for any number of
  publishers and faults; the strengthening is that the row about to be marked was
  produced. Of the dead letters, for any topic: the operator's offset passes only what
  was decided, and without a failing call no message is lost. `LettersInv` speaks of the
  offsets as they will be once the commits that are due are done (`Safe`), because a
  message may be lost between an effect and its commit only if it already is by then.
- `WalletStoreProofs`: `StoreInv` is inductive for any wallets, payments and sessions: a
  row that a session has read and will write is locked by it, so what it knows of the
  row is still true. From it the balances and operations are current when written, and
  every step is a step of `Accounts` or leaves the tables alone. `LocksInv` adds which
  locks a session can have at each statement; a ring of waiting sessions then has no
  member that waits for the least wallet, unless a compensation meets a repeated debit.
  `MoneyConserved` is proved with lemmas on sums over finite sets: one that fails for
  some set fails for a minimal one, and taking an element out of that contradicts it.
- `VerificationProofs`: `VerificationInv` is inductive: a row about to be updated is held
  and pending, and a session about to announce is the first for its user. From it events
  are true, keys have one owner and decisions are final, whatever fails.
- `LifecycleProofs`: `LifecycleInv` is inductive for every deployment and any number of
  faults. Migrations are serial, but for a lost session, because a service between the steps "lock" and "unlock"
  of its boot holds the lock or has lost its session: an unlock in the wrong session, or
  the late end of a session, frees it for nobody too early. Accepted calls finish because a connection leads to a
  server that serves: one that drains has hung up first, so no call can come after the
  drain. A rotation takes effect because a read is whole (`Whole`: every file read so far
  is of the generation that was rolled out when it began, and so are those still to be
  read) or a write has fallen into it, which lowers what it owes to the credentials in
  use; the leaf it ends with lies between those and the files (`Between`). A handshake
  succeeds unless an end is outdated because both leaves are of the last two generations,
  unexpired (`ExpiryInv`: leaves expire when no handshake under way can use them) and
  signed by a CA of either bundle (`OverlapAssumption`).
- `GatewayProofs`: `GatewayInv` is inductive for any users, payments, requests of the
  routes and entries, any burst, refill period and page size, and any number of requests,
  lost connections and failing statements. Its three parts:
  - *starts* (`StartsInv`): a row is that of some start and the only one of its user and
    key; a start that looks for a duplicate still has one, since rows are never deleted;
    one that succeeds has the row it asked for, which is what 202 and a conflict rest on;
  - *limiter* (`LimiterInv`): the tokens in a bucket and those taken since *any* instant
    are at most the burst and the refills since (`NotTooMany`), and since *some* instant,
    the last at which the bucket was full, not less (`NotTooFew`). The first bounds what is
    let through in every interval, the second what must have been let through before a
    refusal. A refill keeps both because it moves `last` by whole periods and not to
    the present. The lemmas on quotients are there for the two roundings;
  - *walk* (`WalkInv`): the cursor divides the entries (`Divides`): what was seen is not
    below it, what was there at the start and is not yet seen is. A page on its way brings
    what lies between two cursors (`Brings`); an entry that commits meanwhile, with any
    time in the past, may come between but moves no other across a cursor. That a page is
    the entries next to its cursor is `PageFacts`, from the finiteness of the ledger.

What is assumed of the constants: that they are of their type; wallets are finitely many
(`WalletsFinite`), as are the ledger entries of a wallet (`GatewayAssumption`); a request
names a route that its front mounts (`RoutesAssumption`) and `None` is neither a row nor a
cursor (`NoneAssumption`); every message is on the topic or a dead letter from the start;
deployments are sets of the services that have a boot sequence
(`DeploymentAssumption`), and whoever calls or is called over gRPC has files
(`UpstreamAssumption`); generations are numbered from 1, and the markers `None` and
`Ready` are the content of no file (`MaterialAssumption`); and the operator's
`OverlapAssumption`. TLC evaluates them on the instances.

Not proved and only model-checked: liveness (out of the prover's reach).
Proved and not repeated in a run: `RefundOnlyAfterCancel`, `ExecuteOnlyIfReserved`, `LockedBalanceCurrent`,
`OperationIsFresh`, `DecisionIsFinal`, `CallsAreGuarded`, `ActionIsCanonical`.

## Limits

- In `PaymentSaga` a remote call takes effect before it returns or not at all. Effects
  that arrive after their caller gave up are those of `WalletStore`, where any call may run
  at any time, beside or after any other.
- Whether the rail charges a repeated key once is the rail's affair; an unreadable
  success answer is reported as a failure by `http_rail.go`.
- `fraud.flagged` for a payment without a saga only writes an audit record and is left out.
- `PaymentSaga` knows balances as a yes or no (`Funded`); `WalletStore` has them, and the
  two are not composed. `ConfirmTransfer` writes entries and credits no wallet, in both.
- In `WalletStore` a payment has one idempotency key; commands that do not validate
  change nothing and are left out.
- `Verification` leaves out a `verification_id` chosen by the client. `Decide` is not
  reachable over gRPC in this version; it is modelled because the service offers it.
- `DeadLetters` has one partition and one operator at a time.
- Consumers and publishers that a shutdown cuts off are the `Crash` of their own modules;
  `Lifecycle` has the servers and the order of closing.
- What the health checks of the connection pool do, and when it ends a session, is modelled
  from how `RunMigrations` depends on it. A session is lost at any moment of a migration,
  `MaxLosses` times.
- A load or handshake that is under way when the next generation is issued, or old leaves
  expire, began after the roll-out of the one before (`Settled`): weeks lie between
  generations, seconds between the first read and the end of a handshake.
- A half-written key is one that does not match its certificate; a file that cannot be
  read at all is a certificate that does not parse.

## Not modelled

- `internal/saga/retention.go` deletes audit records past the retention window, but none of
  a saga that is still open. `PaymentSaga` counts an audit record as keeping a result,
  which is true for ever only of open sagas and, of the others, within that window.
- Configuration and telemetry read the environment and export metrics: no state that a
  protocol depends on. The chat service translates a request and a stream. Web client,
  load generator, drills and infrastructure are not part of the protocols; protobuf code is
  generated.
- The components are not composed into one specification. They meet in tables and topics:
  `PaymentSaga` uses the effects that `WalletStore` shows to be atomic and idempotent, the
  publication that `Outbox` shows to be at least once, and results that `PaymentProcessor`
  shows to be stable.
