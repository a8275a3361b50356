# PPOps: verification project

PPOps is a self-hosted daemon with which a merchant takes private RAILGUN
payments, and a separate command line tool with which a payer makes them. The
daemon creates payment intents, scans a view-only wallet for private notes whose
memo names an intent, decides which notes count, and tells the merchant's shop by
webhook. Nothing in it can spend. What can go wrong is bookkeeping under
concurrency and failure: money counted twice or not at all, an order shipped for
a payment that has disappeared, an event lost, two processes on one database.

The modules here are translated from the TypeScript sources; file and line of
every definition are in `PROJECT.json` ("map"). Paths below are relative to the
repository, `src/...` for the daemon and `tools/ppops-payer/src/...` for the payer.

## 1. Inventory

| Component | State | Operations | Hard because |
| --- | --- | --- | --- |
| Projection (`reconciliation/projection.ts`) | none, pure | derive status and amounts of an intent from its notes | boundary of expiry, order of notes, running total |
| Reconciler (`reconciliation/service.ts`) | tables settlements, intent_projections, outbox_events | reconcile one observation, refresh expirations | notes are seen repeatedly, out of order, reverted, spent; row, projection and event must agree for ever |
| Scanner (`railgun/scanner.ts`) | scanning flag | scan, recheck of known notes | observations are old when they are stored; a failed lookup aborts the cycle; the SDK may hang |
| RPC quorum (`railgun/rpc-quorum.ts`) | none, one round of answers | receipts, blocks and heights by majority | providers lag, disagree, fail, lie |
| Outbox and webhook delivery (`events/webhook.ts`, `db/database.ts`) | outbox rows, in-memory snapshot of a pass | insert, deliver pass, retry, dead letter, replay | awaits inside the pass, crashes, lost and late answers, stale clock reading |
| Intent service (`intents/service.ts`, `api/app.ts`) | payment_intents, intent_idempotency | create idempotently | an await between lookup and insert; retries after restart or expiry |
| Runtime lock (`security/runtime-lock.ts`, also in the payer) | a lock file | acquire, release, assertStopped | several processes, non-atomic takeover, crashes |
| Daemon (`runtime.ts`, `api/server.ts`, `cli.ts`) | lock, engine, database, server, timer, active scan, stopping flag | create, scan cycle, stop, exit | draining shutdown in the right order, the timer must always be rearmed, failures half way through the start |
| Health (`operations/health.ts`) | times of start, success, progress | updates, readiness, stall | a scan that hangs reports nothing itself |
| Backup and restore (`backup.ts`), installation (`cli.ts` init, `railgun/engine.ts`) | the files of the instance, pre-restore copies, backup directories | init, open the wallet and the ledger, backup, restore | many files, not atomic; the lock is looked at once; keys and state of different installations |
| Checkout (`api/payin.ts`, `api/checkout-model.ts`) | none, pure | stage and presentation of a payment | a second reading of the reconciler's rows, shown to payers |
| Example merchant (`examples/merchant.ts`) | orders, webhook_receipts | reserve, link, accept an event | duplicates, reordering, events before the link |
| Payer journal (`security/submission-journal.ts`) | one record per intent, nullifiers | reserve, retry, mark rejected, ambiguous, reported, mined, submitted | a payment must not be made twice; crash between steps; ambiguous broadcasters |
| Payer transfers and broadcaster session (`railgun/*-transfer.ts`, `broadcaster/session.ts`) | the command's proof, quote, price, charge; the Waku client | start, discover, estimate, prove, revalidate, reserve, submit, follow up, clean up | everything it looked at may have changed minutes later; timeouts racing late answers; a client that never starts |
| Payer command line (`cli.ts`) | the run's job: command, intent, proof, hash | pay self-signed, pay by broadcaster, retry, recover | recovery writes the journal outside the wallet lock; any run may die between two steps |

How they interact. The daemon has one scan loop: delivery pass, scan, one
reconcile transaction per observation, rechecks, second delivery pass. HTTP
handlers (create an intent, replay an event) run between any two awaits of that
loop and share the SQLite tables with it. The merchant's shop is another process,
reached by HTTP. Command line runs are processes of their own; the lock file is
what keeps them apart. SQLite transactions are synchronous, so each is one atomic
action in the models; every await is a point where other actions may happen.

What makes each component correct, in a sentence: the projection is a function of
the stored notes; the outbox tells the same story as the projections; an event is
crossed off only if the receiver accepted it, and is settled eventually; one key
makes one intent; one process owns the state; nothing is closed while it is in
use; what a directory holds belongs together and is not lost; the shop ships an
order once and reviews it when the payment is gone; a payer pays once, what was
proved, within the limits.

## 2. Modules

| Module | Models | State and actions |
| --- | --- | --- |
| `Projection` | `projection.ts`, classification in `scanner.ts` | pure operators; a note is a member of `Notes` with constant amount, reference and tree position, a row holds what decisions read |
| `PaymentFeed` | abstract specification | an intent is paid or not; each change is announced by one event with a higher revision |
| `Reconciliation` | `service.ts` over the tables | `projections`, `ledger` (settlements), `events` (outbox by dedupe key), `now`; actions `CreateIntent`, `ReconcileSighting`, `ReconcileRecheck`, `RefreshExpirations`, `Tick` |
| `ReconciliationProofs` | proofs about `Reconciliation` and `Checkout` | see section 5 |
| `Checkout` | `payin.ts`, the public request of `app.ts`, `checkout-model.ts` | EXTENDS `Reconciliation`, pure operators over its rows and projections: `PaymentStage`, `RequestJson`, `VerifyCheckoutRequest`, `Title`, `CanPay` |
| `Outbox` | `webhook.ts`, outbox columns, the cycle of `runtime.ts` | `outbox` rows, `phase` of the loop, `batch` snapshot, `answer` awaited, `requests` under way, `accepted` by the receiver; one action per step between awaits, plus `Crash`, `Restart`, `Replay`, `Answer`, and `ScanReturns`, which may never come |
| `OutboxProofs`, `IntentServiceProofs` | proofs, the former about `Merchant` too | see section 5 |
| `Merchant` | `examples/merchant.ts`, composed with `Outbox` and a writer following `transitionEventType` | adds the intent's status, event payloads, `orderStatus`, `shipped`, `receipts`, `linked`; `Accept` is the transaction of the shop and the answer to its request |
| `IntentService` | `intents/service.ts` | `intents`, `idempotency`, `calls`; `Arrive` runs to the await, `Commit` is the transaction |
| `RuntimeLock`, `RuntimeLockProofs` | `security/runtime-lock.ts` | `path`, `complete`, program counters, one action per system call; `assertStopped` of a backup or restore in two steps, the read and the check after which copying starts |
| `RpcQuorum` | `railgun/rpc-quorum.ts` | pure operators over the answers of one round: `ConsensusHeight`, `ConsensusValue`, each the set of values it may return, empty when it throws |
| `Daemon`, `DaemonProofs` | `runtime.ts`, `api/server.ts`, life of `railgun/engine.ts`, `operations/health.ts`, serve and scan-once of `cli.ts` | `phase` from launch to exit, what is open (`held`, `engine`, `database`, `server`), `requests`, `timer`, the step of the active `scan`, health as ages; the scan reads heights and receipts through `RpcQuorum` from providers of which some lie, in both finality modes; the engine's stop may give up, a start may fail midway; `Killed` and `SdkHangs` at any moment |
| `Store`, `StoreProofs` | `backup.ts`, init of `cli.ts`, `loadOrCreateWallet` of `engine.ts`, opening of `db/database.ts` | `file` (contents of every file, SQLite's write-ahead log among them), `aside` (pre-restore copies), `backup`, `lock`, a program counter per command; one action per file operation, `Dies` between any two, `DirectoryLost`, `ViewingKeyReplaced` |
| `SubmissionJournal` | `security/submission-journal.ts` of the payer | no variables; each operation is the set of journals it may write, empty when it throws |
| `Payer` | four commands of the payer's `cli.ts` with `broadcaster-transfer.ts` and `self-signed-transfer.ts` | `journal` file, `lock`, `pc`, `job` and `pending` write of each run, `sent`, `mined`, `failed` transactions; one action per step between awaits; a journal operation is its read (`Update`) and its rename (`Write`) |
| `PayerProofs` | proofs | see section 5 |
| `PayerWorld` | `request.ts`, `readiness.ts`, quotes of `broadcaster/session.ts`, `broadcaster/failures.ts`, `rpc-quorum.ts` of the payer | pure operators: `Accepted`, `Readiness`, `DiscoverableQuotes`, `SubmissionQuotes`, `Conservative` gas price, `ReceiptQuorum`, `Classify` |
| `Transfer`, `TransferProofs` | one transfer command: `cli.ts`, `self-signed-transfer.ts`, `broadcaster-transfer.ts`, `session.ts`, `execution-guards.ts` | `pc` with one action per awaited step, each of which may fail; quotes (`board`), clock, request, balance, account and providers change, and change back, between any two; ends with the result it prints |
| `MCReconciliation`, `MCIntentService`, `MCRuntimeLock`, `MCPayer`, `MCDaemon`, `MCStore`, `MCTransfer` | instances for TLC | constant functions, symmetry sets |

Conventions. Operators whose comment begins with "Wrong variant" are not part of a
specification: each is a plausible bug, and `PROJECT.json` ("mutants") says which
property notices it when it replaces the definition that follows it. Variables
marked "history" only record what happened.

Abstractions worth knowing. Amounts and times are naturals; hashes, signatures and
texts are identities; a reference can only be in a memo after its intent was
inserted (`Published`), because it is random. The clock is the reading a scan
cycle starts with. In `Outbox`, due times are relative to that reading. In
`RuntimeLock` a process is one run with one pid; pids are not reused. `Payer` takes
the lock to exclude and to be free after a crash, so that what it shows is about
the journal. Its broadcasters may answer anything, or nothing, and publish what
they got at any later time; only a definitive rejection is taken at its word.
In `Payer` receipts are true, the indexer and the wallet's view of its notes may
lag; `Transfer` has lying providers. A retry goes to a broadcaster that was not
tried before (the code excludes the fingerprints of earlier attempts), so an
attempt is identified by its run. `Payer` and `Transfer` are two views of the same
commands: `Payer` has several runs over one journal and little detail in each,
`Transfer` has one command with every step, and the record of one intent.

In `Daemon` times are ages that stop counting once they are too old to make a
difference, and one payment stands for all: what a scan does to the ledger is
`Reconciliation`, what it does to the outbox is `Outbox`. In `Store` the contents of
a file are what tells one installation from another: a generated secret is the
init that generated it, a ledger is the set of what was committed to it, each
commit with its writer and the viewing key it was written for; a wallet in LevelDB
is a viewing key and the key it is encrypted with. The database is two files:
`sqlite` and the write-ahead `log` that a connection plays into it when it opens and
removes when it is closed. A killed daemon leaves the log; `Copies` and `Readings`
say what a backup and a connection then read. What SQLite does with the log of
another database (replay it, ignore it) is a choice, `Foreign`. `Store` takes the runtime lock in one step. In `Transfer` a quote
is fit or not, a request genuine or not: the many ways to be malformed are one.

How the modules fit: `Checkout` EXTENDS `Reconciliation` EXTENDS `Projection`;
`Merchant` EXTENDS `Outbox`; `Daemon` EXTENDS `RpcQuorum`; `Transfer` EXTENDS
`PayerWorld`; `Payer` EXTENDS `SubmissionJournal`; `Reconciliation` implements
`PaymentFeed`, instantiated once per intent.

## 3. Runs

| Run | Checks | Shows |
| --- | --- | --- |
| `reconciliation` | `ProjectionMatchesLedger`, `EventsTellWhatIsPaid`, `ExpiryIsTold`, `PaidMeansEnoughInTime`, `CheckoutKnowsThePayments`, `SpendingKeepsEligibility`, refinement of `PaymentFeed` | the books agree with the notes, the events and the checkout page after any history; paid in time or late is decided by the blocks of the notes |
| `outbox` | `DeliveredWasAccepted`, `FirstAttemptsInOrder`, `RetriesAreMetered`, `DeliveredIsFinal`, liveness `EveryEventIsSettled` | at-least-once delivery, order of first attempts, no event stuck behind failing ones, unless a scan hangs |
| `merchant` | `FulfilledOnce`, `DeliveredIsRecorded`, `RevertedGoToReviewInOrder` | end to end, an order ships once and a delivered event is in the shop's database |
| `intents` | `OneIntentPerKey`, `RetryIsReplay` | idempotency across races, restarts and expiry |
| `lock` | `ExclusiveUnlessStolen`, `BackupSparesTheRunning` | the lock excludes but for one hole; nobody who had it when a backup read it has it when copying starts |
| `daemon` | `InUseIsOpen`, `FinalityIsReal`, liveness `HangIsNoticed`, `RunsUntilStopped` | nothing is closed under a scan or a request, only an engine that would not stop outlives the lock, a lying minority finalizes nothing, a hanging scan shows in the readiness, the timer is always set again and a stop ends |
| `store` | `ServesItsOwnState`, `KeysOfOneInit`, `NothingIsLost`, `RestoredDirectoryOpens` | keys, wallet and ledger of different installations never mix, nothing is overwritten, a restored directory can be served |
| `store_log` | `MovedAsideIsWhole` (violated) | a forced restore leaves a killed daemon's last commits out of the pre-restore copy |
| `payer` | types, `WriteAheadUnlessOverwritten`, `PaidAtMostOnce`, `BroadcasterReservationsHold`, `JournalTellsTheTruth`, `TerminalIsFinal` | payments are on record before they leave, are made once, and closed records stay closed |
| `payer_race` | `WriteAhead` (violated) | a recovery outside the lock erases a reservation |
| `payer_reuse` | `NoCrossIntentReuse` (violated) | a self-signed transfer takes notes that a broadcaster transfer has reserved |
| `transfer` | `SubmissionMatchesProof`, `CostIsBounded`, `ChangedRequestIsNotPaid`, `RecordTellsTheTruth`, `ReadinessAgrees`, `EachBroadcasterOnce`, liveness `CommandEnds` | a command pays what it proved, within its limits, to a request that is the same at the last look, and hangs only in a call without a timeout |

A property that is a conjunction names its parts: `RetriesAreMetered` is
`GivenUpWhenExhausted` and `OneAttemptPerCycle`, `OneIntentPerKey` is
`SameKeySameIntent` and `EveryIntentHasItsKey`, `JournalTellsTheTruth` is
`RejectedWasNotSent` and `CanonicalHashIsOnChain`, `CostIsBounded` is `WithinLimits`
and `GasPriceIsConservative`, `NothingIsLost` is `NothingIsDestroyed` and
`StartsEmptyOnlyWhenNew`, `RunsUntilStopped` is `KeepsScanning` and `StopEnds`.

Bounds, and why they suffice.

- `reconciliation`: one intent of two units, notes of one, two and one unit, two
  blocks (in time, too late), expiry at the only tick, four revisions. That is
  enough for partial, paid by one note or by two, paid late, overpaid, reverted
  after paid, expired after reverted, and for the note that completes the payment
  to be another one when an earlier block fills in. Receipts and buckets are two
  each: a note counts or has vanished, is spendable or spent without a proof of
  innocence. The others behave like one of these towards the properties checked
  ("included" and "ahead" are pending like a first "missing"; "failed" reverts like
  a missing receipt of a finalized row). The theorems have all of them.
- `outbox`: two events, a batch of one, so that the older event blocks the newer
  until it backs off; three attempts, so that a first and a later retry delay
  occur; one crash, one replay. `OutboxProofs` covers any numbers.
- `merchant`: three events are the shortest history with a second confirmation.
- `intents`: four calls, two keys, bodies that agree up to blanks and one that
  does not; the clock passes the expiry of the first between two calls.
- `lock`: four processes and three crashes: three dead owners in turn exhaust the two
  attempts of the fourth; `RuntimeLockProofs` covers any number.
- `daemon`: three providers, one of them a liar (the smallest set with a majority
  of two), heights 0 to 3 with a lag of one, the payment in block 2, one HTTP
  request, a staleness limit one longer than the stall limit so that the two are
  told apart. Starts, stops and kills are not bounded.
- `store`: five runs of any command, of which two are at work at the same time, two
  deaths or losses of the directory, two viewing keys, one write per ledger. Init,
  serve, backup, loss or replaced key, and restore with a serve after it are five;
  a third command at work adds nothing that two do not do to each other's files,
  and `StoreProofs` covers any number. `store_log` needs one command at a time and
  one death.
  Runs and keys are interchangeable (symmetry), and what a run that has ended had
  in memory is not part of the state (view): no action reads it.
- `payer`: three runs, so that a transfer, its retry and a recovery, or two retries,
  overlap; two intents and two notes, so that notes can be shared, disjoint or a
  part of others; one retry attempt per record (the code has three), so that three
  runs go through the first submission, the last retry and the one refused.
  `PayerProofs` covers any numbers for the properties it states.
- `transfer`: three broadcasters (one unfit), five quotes that rotate with and
  without a change of rate, at most two visible at once; two gas prices, a limit
  between what they cost; balances that are enough with and without the fee; one
  tick, after which the request is over and the shorter quotes too; three
  providers, one faulty; three ways a request changes (a payment is pending, it
  went to review, it is not genuine any more). All five commands.

Deadlock is not checked where the instance may legitimately come to rest: all
notes and revisions used up (`Reconciliation`), all calls answered
(`IntentService`), all processes exited (`RuntimeLock`), all runs ended (`Payer`,
`Store`), the command done (`Transfer`). `Outbox`, `Merchant` and `Daemon` never stop
and are checked for deadlock.

Fairness. Three modules have liveness properties.

- `Outbox` (`EveryEventIsSettled`): weak fairness of the daemon's own steps taken
  together. `scheduleScan` rearms its timer in a `finally`, every POST carries
  `AbortSignal.timeout`, and a supervisor restarts the process. Nothing is assumed
  of the receiver, of the reconciler's writes or of the scan: `refreshBalances` has
  no timeout and the next cycle waits for it (`railgun/scanner.ts:112`,
  `api/server.ts:104`), so `ScanReturns` is not fair and the property excepts a scan
  that never returns. Crashes are finite in number.
- `Daemon` (`HangIsNoticed`, `RunsUntilStopped`): weak fairness of the creating, the
  scanning and the stopping steps and of the clock. That the event loop goes on is
  what Node gives; the SDK's scan returns only if it does not hang, and hanging is
  a step of its own that may happen or not. Of the clients nothing is assumed: a
  stop waits for ever for a request whose client does not let go (`StopEnds` says
  so). Nor of a launch, a stop or a kill.
- `Transfer` (`CommandEnds`): weak fairness of the command's steps except those that
  await a call without a timeout (`Untimed`): the SDK's start, refresh, balance,
  estimate, proof and population, the client's peer counts, encryption and send,
  and a self-signed transfer's calls of its provider. The quorum reads and the load
  of the request end after 15 s, start and stop of the Waku client by
  `withTimeout`. The client's own start (`ClientUp`) is not fair either. So the
  property says where a command can hang, not that it cannot.

## 4. Findings

1. A recovery writes the payer's journal after it released the wallet lock
   (`cli.ts:1115`), so its write can erase a reservation made since it read the file;
   the transaction then leaves unrecorded (run `payer_race`, against
   `docs/THREAT-MODEL.md`). Every property of `Payer` that can fail for this reason
   is stated for histories without such a write (`overwritten`).
2. A self-signed transfer reserves no notes and is not compared with the
   reservations of broadcaster transfers, so two intents may spend one note while
   both are open (run `payer_reuse`). Among broadcaster transfers the promise holds
   (`BroadcasterReservationsHold`).
3. A restore with `--force` moves the database aside without its write-ahead log
   (`backup.ts:308`, `db/database.ts:142`, against `docs/DEPLOYMENT.md:123`, run
   `store_log`). What a killed daemon had committed last is then not under the
   pre-restore path but in a log beside the restored database, which the next
   connection may play into it. From that moment (`stray`) the properties of `Store`
   say nothing of the ledger any more.

Three more disagreements with the text are known and kept as the condition of a
property that holds instead of a run of their own:

- `payment.expired` is not emitted when an intent becomes EXPIRED by losing its
  payment after the expiry (`reconciliation/service.ts:30` against
  `docs/PAYMENT-STATES.md:45`): only the reversion is. Every other way into EXPIRED
  ends in a `payment.expired` (`ExpiryIsTold`).
- The example shop ships an order when a confirmation is delivered after its
  reversion (`examples/merchant.ts:86` against its own line 151). As long as no
  event overtakes another the promise holds (`RevertedGoToReviewInOrder`).
- Two processes can hold the runtime lock, because `acquire` renames whatever is at
  the path (`security/runtime-lock.ts:63` against `docs/OPERATIONAL-PROFILE.md:206`).
  `ExclusionHasOneHole` proves that there is no other way.

Limits of the code met while modelling, which no document denies:

- Backup and restore look at the lock once (`backup.ts:134`) and do not take it; a
  daemon may start while they work, or take over a stale lock between the read and
  the copying. `BackupSparesTheRunning` says what the look is good for: whoever had
  the lock when it was read has it no more; the properties of `Store` exempt such overlaps by name (`overlapped`).
- A restore that dies half way leaves moved and copied files mixed, and a daemon
  started then begins with an empty ledger without a word; exempt as `torn`. The
  old state is under its pre-restore path (`NothingIsDestroyed` holds there too).
- A backup taken after the viewing key was replaced passes its checks, is restored
  without complaint, and then refused by serve (the condition of
  `RestoredDirectoryOpens`).
- Closing the engine is waited for 15 s (`railgun/engine.ts:290`) and a start that
  fails midway undoes nothing but that, so the lock may be released while LevelDB
  is open. `InUseIsOpen` says that such a process has nothing left but its exit.
- `stop` waits for the active scan without a limit, so a hung SDK scan keeps a
  stopping daemon alive (`StopEnds` says "or hung"); if closing the server rejects,
  the process exits with everything open, which the lock's staleness check repairs.
- The second missed receipt of a reverted note makes it OBSERVED again: the page
  says "Payment detected" for a note that is gone. It never says that nothing was
  paid (`CheckoutKnowsThePayments`).
- A transfer compares the request with the one it started from at its last look
  only: a change that was taken back while the proof ran, and one after the look,
  go unseen (`ChangedRequestIsNotPaid`).
- A command hangs, with the wallet's lock, when a call without a timeout does not
  return (`CommandEnds` says which).
- `refreshExpirations` sees the 100 000 intents that `listIntents` returns and no
  more (`reconciliation/service.ts:97`).
- A failing cleanup (`session.stop`, `engine.stop`) replaces the result of a payment
  that went out: the command reports BROADCASTER_UNAVAILABLE or ENGINE_STOP_FAILED
  while the record is right.
- A self-signed transfer takes price and receipt from one provider; the truth of
  its record and of its price is that provider's, so `RecordTellsTheTruth` and
  `GasPriceIsConservative` are about broadcaster transfers. With five providers and
  two faulty ones the upper median of three readings may be one of theirs: the
  latter also needs the faulty ones to be at most half of those that must agree.

## 5. Proofs

All proofs are checked by TLAPS to the last leaf, for every value of the constants
that satisfies the named assumptions. Every safety property of a passing run is
stated by a theorem.

`ReconciliationProofs` (assumptions `DataAssumption`, `BoundsAssumption`,
`InputAssumption`). `EventsTellWhatIsPaid` is not inductive: a new event must have
a revision above all earlier ones of its intent. `IInv` therefore adds
`EventsBehindProjection` (no event of an intent is ahead of its projection's
revision) and `Linked` (a row is tied to the intent its memo names exactly if it
is matched, and that intent exists), and keeps `ProjectionMatchesLedger`.
Three steps carry the argument: storing a row changes the sums of the intent it
pays and of no other (`OtherSumsUnchanged`); a rebuild returns the same projection
or one with the next revision, and writes a crossing event exactly when paid
changes (`RebuildFacts`, `TransitionFacts`); appending an event with the next
revision to an alternating history keeps it alternating (`CrossingExtendsHistory`).
The refinement `ReconcilerIsAPaymentFeed` follows from the same facts: a reconcile
or a refresh is one feed step per intent, and a refresh changes no paid status
because the ledger stays as it is.
`NotesAreAnnounced` (`settlement.observed` is written exactly for matched notes) is
proved for every instance and not repeated by a run; `ExpiryIsTold` is checked by the
run `reconciliation` only.

`PaidInTimeIsEnoughInTime` compares two ways of counting: the code runs through the
notes in the order of blocks until the running total is enough and looks at the
time of that block; the property adds up the notes of the blocks in time. Both are
sums over finite sets, so the module first proves what such sums obey: the sum is
natural, takes any note out or in (`SumWithout`), and shrinks with the set
(`SumOfFewer`). The note at which the total is reached exists and is unique because
the order is total (`SortIsTotal`, `CrossingIsFirst`), and it is in time exactly if
the notes in time are enough (`CrossingInTime`). `CheckoutTellsTheTruth` needs that
stored notes are worth something (`SumIsPositive`), so that amounts of zero mean
no notes, and goes through the stages of the page.

`RuntimeLockProofs` (assumption `LockAssumption`). `HolderIsOnRecord` needs that
the owner a process checked is still dead when it renames (`TakeoverTargetsAreDead`),
hence that files belong to processes that have run (`FilesHaveOwners`).
`RunningDaemonsAreSpared` is an action property: whoever has the lock when the
backup reads it is the owner the file names (`TheInspectedHadIt`, from
`HolderIsOnRecord`), and if that one has ended when it is checked, nobody of them
has it any more.

`PayerProofs` (assumptions `JournalAssumption`, `NoTxAssumption`,
`PayerAssumption`). None of the properties is inductive. The argument is that a
journal only ever *grows* (`Grows`): no record disappears, changes its mode, its
notes or a hash it has, or changes at all once closed. One lemma per journal
operation says so, and the three reserving ones also say that the transaction can
be found in the result. `IInv` carries this across the gap between read and rename
(`WritesGrow`: what a run is about to write has grown from what it read) and across
the gap between reservation and sending (`ReservedBeforeSending`). A write that
replaces the journal it started from then keeps everything on record; any other
write sets `overwritten`. `NoDoublePayment` combines this with the chain
(`NotesAreSpentOnce`): two transactions for an intent are on record as the same
hash, or with the same notes, and notes are spent once.

What the records *say* needs more than growth. `RecordsInv` adds that what a run is
about to write is one operation applied to what it read (`WritesAreOperations`), so
that a write which overwrites nothing is its operation in one step. From that
follow, as long as nothing was overwritten: open broadcaster records hold
different notes (`HeldApart`), each intent has one first submission
(`FirstIsUnique`), a retry is among its record's attempts (`RunsAreOnRecord`),
nothing was or will be sent for a rejected record (`NothingSentWhenRejected`), and a
hash a run works with was found on chain or is its own (`HashesAreFound`).
`ReservationsHold` and `TheJournalIsTrue` are read off these.

`OutboxProofs` (assumption `OutboxAssumption`). A pass works from a snapshot while the
table changes under it. `OutboxInv` says that they agree where it matters: rows
still to be sent are pending with the attempts the snapshot has (`SnapshotOK`), an
answer is about the current row (`AnswerOK`), a fresh row that is older than a row
of the snapshot is in it (`OrderOK`), and what was sent in this cycle is not due
when the second snapshot is taken (`CycleOK`, because a retry is at least a second
away, `RetryIsLater`). `SnapshotIsOldest` is what `ORDER BY ... LIMIT` gives;
`LeastExists` finds the current row by well-founded inclusion, without induction.
`AttemptRecorded` is common to delivery, failure and dead letter.

The composition with the shop is a receiver (`MerchantIsAReceiver`: `Merchant`
implements `Outbox`), so `OutboxInv` is kept for free. `MerchantInv` adds that
requests are of posted events, what was accepted is in the shop's database
(`accepted` within `Recorded`: the answer follows the commit), that an order is
shipped at most once (the receipts refuse a duplicate, the status a second
confirmation), and `ReviewOK`: if receipts came in the order of the events and the
last crossing among them is a reversion, the order is under review.

`IntentServiceProofs` (assumption `IntentAssumption`). `IntentInv` follows the two tables
both ways: the row of a key names an intent made by a call with that key, an
intent is the one its own key names, and every answer agrees with the row of the
call's key. A lost race therefore finds the winner's row and answers from it.

`DaemonProofs` (assumptions `RpcAssumption`, `DaemonAssumption`). Finality: a set of
providers as large as the majority has an honest member
(`QuorumHasHonestMember`), so an agreed height is not above one an honest provider
reported, which the chain has reached, and an agreed receipt is the payment's or
none. Life of the process: `InUseIsOpen` is not inductive, because it does not say
where a scan may be running; `LifeInv` adds what is open in each phase
(`OpenInPhase`), in which phases a scan or a request may be active (`BusyInPhase`) and
that only serve has a server, a timer and a stop (`OnlyServeServes`). The engine may
be open in the phases after it was given up, and the lock is then the last thing
released but for the exit.

`StoreProofs` (assumptions `StoreAssumption` and `MissingAssumption`: a file that is not
there has no contents). None of the four properties is inductive, and each holds
only while certain things have not happened. `StoreInv` has a layer for each
condition:

- always, `StoreTyped`, `Prepared` (a command has what its next step needs) and
  `LockHeld` (whoever is past the lock has it, so there is one daemon at a time);
- until a command changed files during a backup or restore (`overlapped`),
  `AloneInv`: whoever copies or replaces files is alone with commands that have yet
  to lock (`Alone`), generated secrets are those of the init that wrote the
  configuration, wherever they lie (`OneInit`), a ledger lies beside a wallet that
  can be loaded or beside none (`PairOK`), a backup is complete (`BackupOK`), an
  init, daemon or backup still finds what it wrote or read (`InitOK`, `ServeOK`,
  `CopiedOut`), and a restore has emptied every place before it fills the first
  (`Replaced`) - which is why what it overwrites is under a pre-restore path;
- until a restore has died half way too (`torn`), `UndisturbedInv`: with no restore
  at work the directory is `Whole` (all generated secrets or none, the ledger was
  written for the wallet that is there, a ledger once made is there), and the one
  restore at work puts back what makes it so (`RestoresItsOwn`); a daemon that waits
  for the lock has read the secrets that are there or are being put back
  (`ReadTheSecrets`);
- until a restore has moved a database away from its log (`stray`), `LogOK` (a log
  lies beside the database it continues, and there is none while a restore fills
  or verifies the directory) and, undisturbed, `LedgerOK` (all that the two files give was
  written for the wallet that is there).

`WhatIsRead`, `EffectOfCommitting`, `EffectOfOpening` and `EffectOfClosing` say what
the two files are to a reader before and after each of these.

`NothingIsTakenBack` and `OneProcessMoves` reduce a step to its own process;
`OthersWhileFilesRest` and `OthersWhileFilesChange` say what the others keep. Each
layer then has one lemma per action. `DaemonsServeTheirOwn`, `KeysComeFromOneInit`
and `RestoresCanBeOpened` are read off the invariant; `CommandsLoseNothing` looks at
every action once more (`ChangedFilesAreKept`).

`TransferProofs` (assumptions `WorldAssumption`, `TransferAssumption`). The properties are
about the moment of reservation, far behind the steps that decided what is
reserved. `TransferInv` carries each decision along: the broadcaster chosen
and the quote prepared (`QuoteChosen`), the charge (`ChargeChosen`), the last look at
the request (`RequestLooked`), that nothing of a first attempt is on chain before
it is sent (`ChainFollows`), and that a reservation comes late (`ReservedIsLate`). A
step before the reservation keeps them by `BeforeReserving`. The gas price is a
separate invariant, `PriceInv`, under the assumption named in `CostsStayBounded`: the
median of the readings is at least one honest reading when the faulty providers
are at most half of those that must answer. `RequestLooked` is about the last look and
not about the history of the request: a request that is another one then is refused,
however often it changed. `ReadinessKeepsItsWord` is a fact about
two lists of conditions (`ReadinessIsAcceptance`), for any request, clock and
balance of the right type.

Induction over data has no rule here that the backends can instantiate. Where it
is needed (sums over sets of notes, the oldest row of a snapshot), the proofs argue
by a smallest counterexample instead, which well-founded inclusion provides
(`SmallestSet`). A recursion over unbounded data that needs more than finite sets
does not occur in what is proved.

Model-checked only: liveness (`EveryEventIsSettled`, `HangIsNoticed`,
`RunsUntilStopped`, `CommandEnds`), which is out of the prover's reach; and `TypeOK` of
`Outbox`, which no run lists (the retry delay is a power, which the backends do not
know; `OutboxInv` has the types its proofs use).

## 6. Plan

Done in this order: Projection, Reconciliation with PaymentFeed and its proofs,
Outbox, Merchant, IntentService, RuntimeLock with proofs, SubmissionJournal and
Payer with proofs; then Checkout, RpcQuorum and Daemon with proofs, Store, PayerWorld
and Transfer with proofs, the proofs of Outbox and IntentService; then the proofs of
Merchant, Checkout and Store, of what the payer's records say, of paid in time and
of readiness. Next:

1. Abstract specifications of what the outbox and the payer's journal promise
   (an event is written, accepted, crossed off; an intent is open, reserved, paid
   once), with the refinements as theorems over `OutboxInv` and `RecordsInv`.
2. The lock of `Store` and `Payer`, taken there in one step, as an abstract
   specification that `RuntimeLock` implements up to its one hole.

## 7. Not modelled, and why

- Cryptography (descriptor and webhook signatures, proofs), the wallet SDK and its
  LevelDB: third-party code; what it promises is stated where it is used.
- The browser's side of the checkout (`checkout-browser.ts`): it polls the request
  that is modelled and pins the signer; no state but the last answer.
- PPOI finalization, shielding and key set-up of the payer, its option parsing and
  printing; schemas and permissions of configuration and secrets; doctor and
  preflight: sequential checks without state.
- The mainnet gate, the pilot's receiver and the demo: evidence collection and
  local simulation, nothing the payments depend on.
- Errors of SQLite and of the file system in the daemon (a full disk, a locked
  database): the transaction throws and nothing of it is stored.
- Rate limiting, authentication and the read-only routes of the API.
- A memo whose intent the ledger does not know because an old backup was restored:
  `Reconciliation` assumes that a memo names a stored intent (`Published`).
