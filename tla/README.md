# TLA+ models of lillian_backend

lillian_backend sells image generations. A wallet holds entitlements (from
exchange codes) and credits (from USDT payments); a request debits one unit of
one of them and queues a task; worker goroutines of one or several processes
claim tasks, call an image provider, store the output, and charge or refund.
All state lives in one Postgres database. This directory models the parts where
money and concurrency meet, model-checks them with TLC and proves the most
important properties with TLAPS. Paths below are relative to the repository.

## 1. Inventory

| Component | Source | State | Operations | What makes it correct |
|---|---|---|---|---|
| Task lifecycle | `internal/httpapi/tasks.go`, `internal/app/app.go` | `tasks` rows; balance columns; each worker's copy of its row | create, claim, call, fall back, store, done, fail and refund, recover, start, stop | one worker per task; limits; a debit is kept for a done task and returned once for a failed one; every task settles |
| Admission | `tasks.go` `handleCreateTask` | row locks; the count of active tasks | read wallet, choose billing, lock, count, debit, insert | no negative balance, no lost update, the wallet's concurrency limit |
| Redemption and wallets | `internal/httpapi/wallet_api.go` | `wallets`, `wallet_entitlements`, `wallet_redemptions`, `license_keys` | create, restore, read, redeem | a code counts once, for one wallet |
| Recharge | `internal/httpapi/payments.go` | `payment_orders`, `wallets.credits`; the provider's transaction | open a transaction, insert the order, handle callbacks | credits are added once, for settled payments only |
| Provider selection and health | `tasks.go` 1087-1174, `product_api.go` 379-595 | `service_profiles`; each job's copy of its provider | select, record success and failure, cool down, upsert, delete | no call to a provider outside the tier; no cooldown without failures; every job ends whatever happens to its provider |
| Billing choice, sizes | `tasks.go` 1210-1398 | none | pure functions | the documented preference order |
| Prices and recharge plans | `payments.go` 325-523 | `service_credit_prices`, `credit_topup_plans` | admin upserts | one default plan; concurrent edits end; a refund returns the price that was paid |
| Runtime settings | `internal/httpapi/runtime_settings.go` | `app_settings` | load, update | bounds; a lowered limit holds in the end; no value stops the queue |
| Licence administration | `product_api.go` 78-339 | `license_keys` | create, list, note, delete | a deleted code is not redeemed |
| Migrations, pool | `internal/db/*.go`, `migrations/*.sql` | `schema_migrations`; connections | apply at start; open | each migration once; a waiting request gets a connection |
| Process | `cmd/backend/main.go`, `internal/app/app.go` | context, HTTP server | run, shut down | workers stop, the server drains |
| Storage, image client | `internal/storage/s3.go`, `tasks.go` 787-983 | none here | put, get, call | external calls that fail cleanly |
| Routes, config, admin page, admin SPA | `server.go`, `config.go`, `admin_page.go`, `web/admin` | none | wiring and rendering | not modelled |

How they interact. Admission and redemption write the same balance rows that
failed tasks, recoveries and payment callbacks add to; they exclude each other
by Postgres row locks only. Workers of all processes meet in the claim (one
advisory lock) and nowhere else: after the claim a worker trusts the copy it
scanned. Payment callbacks exclude each other by the order's row lock.
Administrators' edits take no locks that others respect: a worker reads the
limits before it claims, a request the price and the provider before its
transaction. A selection of a provider holds one pool connection while it waits
for a second one. Processes that start together race for the migrations.

What is hard. The refund after a failure is three statements without a
transaction, whose errors are ignored. A process may die between any two of
them. Recovery runs once per process start and may meet live workers of another
process. Callbacks are repeated, late and out of order. The paying row is chosen
before it is locked. Requests and redemptions lock rows in different orders.
`PROJECT.json` lists each hazard at its line with the properties that cover it.

## 2. Modules

| Module | Models | Abstracts |
|---|---|---|
| `CreditLedger` | what a debit promises: reserved once, then spent or returned in full, never both | how |
| `WalletLedger` (with `Totals`) | what balances promise, as if one transaction ran at a time: debits that come back at most once, whole and where they were taken; deposits that are offered, then made once or withdrawn | rows, locks, transactions |
| `TaskLifecycle` | `handleCreateTask` (as one step), `processNextQueuedTask`, `claimNextQueuedTask`, `executeTask`, `failTaskAndRefund`, `recoverStaleWalletRunningTasks`, `StartTaskWorkers`, `App.Run` | payloads, images, provider priorities; the admission count |
| `BillingSelection` | who pays for an image of a tier, and the buckets that may serve it (pure functions) | |
| `TaskAdmission` (with `BillingSelection`, `Totals`) | `handleCreateTask` statement by statement, `RedeemLicenseToWallet`, recovery row by row, edits of prices, creation and deletion of codes; row locks, snapshots, deadlocks | how a task fares after the insert |
| `Totals` | sums of balances over a set, counted as a cardinality | |
| `Payments` | `handleCreateWalletTopup`, `handleEPUSDTCallback`, `validateEPUSDTPaidCallback` | signatures; the amount, pid, currency, token and network checks are one Boolean |
| `ProviderRouting` (with `BillingSelection`) | `selectServiceProfileForWallet`, the worker's load, call, record and fallback, `handleAdminUpsertServiceProfile`, `handleAdminDeleteServiceProfile`; the pool | balances (what the wallet holds is a constant), limits |
| `RuntimeSettings` | `handleAdminUpdateRuntimeSettings`, `loadRuntimeSettings`, the claim that uses the limits, and what its counts see of a task: fallback, end, lost last write, stop and recovery | the rest of a task's life |
| `RechargePlans` | `handleAdminUpsertTopupPlan`: its transaction, row locks and deadlocks | the columns that are what the edit says; the recharge (in `Payments`) |
| `Startup` | `ApplyMigrations`, `New` and `Run` up to serving, `main` | the SQL of a migration |
| `MCTaskLifecycle`, `MCTaskAdmission`, `MCPayments`, `MCProviderRouting`, `MCAdministration` | the small instances | |
| `TaskLifecycleProofs`, `TaskLedgerProofs`, `TotalsProofs`, `TaskAdmissionProofs`, `PaymentsProofs`, `WalletLedgerProofs`, `ProviderRoutingProofs`, `AdministrationProofs` | lemmas and theorems | |

**TaskLifecycle.** One step is one database transaction, one statement outside a
transaction, or one outcome of an external call. `pc[w]` is the point a worker
goroutine has reached, `held[w]` the `taskRow` it scanned when it claimed (it
never reads it again: `failTaskAndRefund` decides from that copy). `stale[t]`
says that `updated_at` is older than the recovery cutoff; every write of the row
clears it and `Age` sets it. `Age` may hit a task whose worker is alive, because
`PutBytes` has no timeout and the cutoff is computed from a setting that may be
lowered while a call runs. `refunds` is a history variable. Two constants say
which environment is meant: `Overlap` (may a process start while another runs:
replicas, rolling restarts) and `LostWrites` (may a statement whose error the
code ignores fail). The refusal of a request by the active-task count is left to
`TaskAdmission`: it only removes behaviours here.

**TaskAdmission.** `billing[r]` is chosen from a read outside the transaction;
the transaction then locks one row (`LockAccount`), counts committed active tasks
(`CountActive`), needs the wallet's row `FOR KEY SHARE` for the foreign key
`tasks.wallet_id` (`InsertTask`), and commits. A redemption locks the wallet,
the code and the entitlement. A recovery marks the abandoned tasks and then
updates one account row after the other, entitlements before wallets and each in
any order, because the code walks Go maps. Writes take effect at the commit,
which is when others see them; the rows written are locked until then. Postgres
is external: its lock modes, its re-reading of a row after a wait, and its
aborting of a deadlocked transaction are modelled from how the statements use
them. A price may be edited at any time; the task keeps the units it was asked
for, and a refund returns those.

`Stuck(S)` says of a set of transactions that each of them waits for another one of
the set; `Deadlocked` are the transactions on a cycle of waits of any length, one of
which the database aborts. The ledger this module implements (`ImplementsWalletLedger`)
has the rows with a balance as its accounts, tasks as debits and codes as deposits. A
debit is taken at the commit of the request and returned at the refund's or the
recovery's; a code is offered while it is active and made when it is redeemed.

**Payments.** The provider is external and may send again, at any time, whatever
is true of its transaction. `LateOrders` are the orders of which a callback that
is not "paid" may be handled after one that was; `ForeignOrders` those whose
callbacks may carry a trade id that is not the order's. Status numbers other
than 1, 2, 3 behave like 1 and are not modelled apart. It implements the same ledger:
there are no debits, and the deposits are the creditings of orders (one per order, or
up to `MaxCredited` of a late one), offered when the provider settles the transaction.

**ProviderRouting.** `stage[j]` is the statement or call a job has reached, first
in its request and then in its worker; `route[j]` is what it remembers: the
billed service, the provider as it read it (with the `failure_count` it will
write back plus one), the providers it tried, and `tasks.service_profile`. A job
in `touch` or `retouch` has the rows of its query open and waits for a second
connection; every other statement takes and returns one at once, so it only needs
a free one. The context of a request ends (`TimeOut`), a worker's does not. Each of
the three statements of a fallback may fail: the selection's error ends the job, those
of the two UPDATEs are ignored (`TouchAgain`, `MoveTask`).
`failed` is history. What a wallet holds is the constant `Held`; whether the
request is then admitted is left open, or refused for sure (`Refused`).

**RuntimeSettings.** The three rows are written by three statements in one order,
so that two updates may mix and one may stop half-way. `limits[w]` is what a
worker has read and uses for one claim; each row that is not read gives its default.
The claim counts `running` and, per provider, `profile`. A fallback changes the profile
of a running task and looks at no limit; a worker whose last write fails leaves its
task in `running`, and a stop leaves those of all workers there, until a start recovers
those that are stale by then. One process runs at a time; overlapping processes meet in
`TaskLifecycle`.

**RechargePlans.** The edit that makes a plan the default one clears all others
by one UPDATE, which locks the rows one after the other in any order (`todo`,
`holder`), then upserts its own; an insert by another edit is not seen by an
UPDATE that has begun. Cycles of waits are aborted by the database.

**Startup.** A process looks for the version, runs the file, records the version
and commits; the look is a statement of its own. `INSERT INTO schema_migrations`
waits for another transaction that has inserted the version. A process that fails
exits and is started again. `Shipped` lets builds of different age start together,
`AutoMigrate` some of them serve without migrating.

## 3. Runs

| Run | Question | Bounds | Outcome |
|---|---|---|---|
| `task_restarts` | With one process at a time, stopping anywhere: do tasks and balances follow the ledger (`ImplementsLedger`, `RefundedOnce`, `NoFreeImages`, `DoneIsPaid`), are outcomes final, and does every task settle where no process stops (`UninterruptedTasksSettle`)? | 2 tasks, 2 accounts (unit cost 1 and 2), 2 providers, 2 processes of 2 workers | holds |
| `task_replicas` | With overlapping processes and failing writes: one worker per task, global limit? | same, limit below the number of workers | holds |
| `task_double_refund` | `RefundedOnce` with overlapping processes | 1 task, 2 processes | violated |
| `task_interrupted` | `EveryTaskSettles` with a stop and a start | 1 task, 2 processes | violated |
| `task_provider_cap` | `ProviderConcurrency` | 2 tasks, 2 providers | violated |
| `admission_accounts` | Are balances explained by codes, credits and tasks, is the overshoot at most one? | 3 requests, 3 redemptions, 2 wallets, 2 codes, 1 edit of the price | holds |
| `admission_ends` | Do statements under row locks follow a serial ledger (`ImplementsWalletLedger`), does a recovery that may be aborted leave balances explained, does every deadlock need a redemption, and does every transaction end in spite of deadlocks? | 2 requests (one 4K), 2 redemptions, 1 recovery, 1 wallet | holds |
| `admission_over_limit` | `ServiceConcurrency` | 2 requests, 1 redemption | violated |
| `payments` | Do concurrent callbacks follow a serial ledger (`ImplementsWalletLedger`), is a punctual order credited once, does the wallet match its orders, does `paid_at` account for credits, does an order keep its trade id, is a settled order credited in the end? | 2 orders (one late, one with foreign trade ids), 2 handlers, 2 trade ids | holds |
| `payment_credited_twice` | `CreditedOnce` with late reports | 1 order, 1 handler | violated |
| `providers` | Is the tier served by the right bucket, is health earned, do workers alone never exhaust the pool (`WorkersLeaveConnections`), does every job end? | 3 requests, 3 providers of 2 buckets, 2 workers, 3 connections, an edit and a deletion | holds |
| `administration` | Do lowered limits hold and queues drain, in spite of fallbacks, lost writes and stops; is there one default plan, and do edits end; is every migration applied once, and does every process come up? | 3 tasks, 2 workers, 2 providers (one with a limit of its own), 2 updates, 1 mishap; 3 plans, 2 edits; 3 processes (one that does not migrate), 3 migrations, 2 failures | holds |

`administration` checks three modules that share no variable. Its variable `part`
says which of them moves in a behaviour, so that the states add up instead of
multiplying; a property of one module holds of the initial states of the others
and is about all behaviours of its own.

Why the bounds are enough. A second task is needed for the limits, for the queue
and for a stuck task to block another; a second process for everything about
recovery; two workers for interleavings within a process; two providers for the
one fallback the code allows; two accounts because refunds of one must not reach
the other, with costs 1 and 2 because a refund of the wrong amount is invisible
at cost 1 (in `TaskAdmission` a task costs 2 or 3 credits for the same reason).
A third request is needed to exceed a limit of one by more than one.
Two redemptions by different wallets meet on one code, two by one wallet on its
row. Two handlers are what a lost row lock needs. `MaxCredited` stops a late
order from being credited for ever.
In `providers` the pool is as small as `docs/deployment.md:150` allows: larger
than the number of workers. With two workers and the request that is refused
three selections can hold all three connections, and each wants a fourth;
the third provider is what a fallback needs when the best one of its bucket has
been moved, and only `high1` is deleted so that both ways to lose it occur.
Three plans are two that exist and one an edit inserts; a third migration is what
one build has and the other does not. `MaxMishaps` bounds together the failed readings,
claims and last writes of `RuntimeSettings` and its stops, `MaxFailures` the deaths of a
process in `Startup`: liveness needs some bound, and until it is reached they may come
at any point. One mishap is enough: a lost write leaves one task running, which fills
a lowered limit or that of a provider, and a stop leaves two, which fill the default
one as well (both properties also hold with two, in a longer run). The
global limit can be lowered to 1 and the provider limit raised to 2; one provider has a
limit of its own, which no setting changes. The history counters are bounded by the
number of tasks.

`CHECK_DEADLOCK FALSE` is set everywhere: all requests may have been answered and
all processes may have stopped for good.

What the violated ones show (details in `PROJECT.json`, "findings"):
- `failTaskAndRefund` ignores how many rows its first UPDATE changed and returns
  the debit of a task that another process's recovery has already refunded. For
  the same reason (the UPDATE to `done` names the id only) `DoneIsPaid` does not
  hold with `Overlap` either: a refunded task can become done.
- Recovery only runs when a process starts, and only for tasks that are stale
  then. A quick restart leaves a running task that nobody works on; it keeps its
  credit, and its slot of the global and provider limits.
- The fallback does not look at the other provider's limit.
  (These two are why `QueueDrains` has two exceptions: tasks left running that fill a
  limit, and fallbacks to the provider without end. TLC refutes it without either.)
- Paying with credits and paying with an entitlement lock different rows, so two
  requests can be admitted where one may be. `OvershootByOne` bounds the damage.
- A "pending" or "expired" callback after "paid" resets the order; the next
  repetition of "paid" credits it again. `paid_at`, which would tell, is kept.

What is remarkable among what holds: however many requests and recoveries lock rows
in whatever order, they never wait in a circle; it takes a redemption, which locks
the wallet first where a request comes to it last; the waiting of selections for each other's
connections ends, because requests give up and the pool is larger than the number
of workers, so that workers alone cannot exhaust it; a migration file may run
twice but never commits twice, the loser exits and finds it applied when it is
started again; an aborted recovery undoes both the marks and the refunds.

### Fairness

`TaskLifecycle` (`FairSpec`): weak fairness of each worker's step (goroutines are scheduled,
and calls return or time out), of the passing of time, and of starting a process
when none runs (`restart: unless-stopped` in `docs/deployment.md`). No fairness
makes requests arrive, calls succeed or processes stop. `EveryTaskSettles`
assumes that some process eventually stays up; `UninterruptedTasksSettle`, which
holds, that none stops.

`TaskAdmission`: weak fairness of the statements of a transaction that has
begun (a recovery's too), and of Postgres ending a deadlock. No timeout is used: the property shows
that none is needed.

`Payments`: a handler ends; the provider repeats the "paid" callback until it is
answered (the code answers an error whenever it rolled back), and of infinitely
many attempts not every one fails: strong fairness, because a handler of another
callback may hold the row in between.

`ProviderRouting`: weak fairness of a request that is under way (its context ends,
if nothing else happens) and of the worker of a job. Each may be kept waiting by
the others; nothing makes a request arrive, an administrator act or a cooldown end.

`RuntimeSettings`: weak fairness of each worker's loop: a call ends, with its
timeout at the latest. Nobody has to submit, update, or finish an update.
`RechargePlans`: a begun edit goes on, and the database ends a deadlock.
`Startup`: a process goes on and is started again (`restart: unless-stopped`);
failures are not fair, and are bounded.

## 4. Proofs

All theorems hold for every value of the constants that satisfies the named
assumptions: any number of tasks, accounts, costs, processes, workers, providers,
orders, wallets and handlers.

`TaskLifecycleProofs`
- `TypeCorrect`: `TypeOK`.
- `TaskExecutedByOne`: `ExclusiveExecution`, with overlap and lost writes. The
  inductive invariant `ExclusiveInv` adds that a task some worker holds is not
  queued (nothing re-queues a task, so its claim cannot be repeated) and that the
  workers of a process that is not up are off.
- `DoneTasksArePaid`, `OutcomesAreFinal`: without `Overlap`, lost writes allowed.
  `SingleInv` says that at most one process is up, and ties each place of a worker
  to the row it works on: before the first statement of `failTaskAndRefund` the
  row is still running, reserved and not refunded. Recovery runs when nobody works.
- `DebitsRefundedOnce`: without `Overlap` and `LostWrites`. `OnceInv` adds that a
  running task's debit is with it, and that between the statements the row is in
  error. With lost writes it is false: a lost mark leaves a refunded task running.

`TaskLedgerProofs`: `LifecycleImplementsLedger`, from the same invariants: the
initial states correspond, and every step reserves, spends, returns the debit of
a set of tasks (recovery returns several at once), or changes nothing the ledger
sees.

`PaymentsProofs`
- `TypeCorrect`; `PaymentTimeIsKept` and `NothingCreditedUnpaid` with late reports
  and other trade ids allowed. They rest on `LockInv` (the row is as the handler
  read it, because handlers exclude each other) and `CreditInv`.
- `PunctualOrdersCreditedOnce`: `PunctualCreditedOnce`, from `PaidOnceInv` (a
  punctual order is paid exactly when it was credited once, and no handler is
  about to overwrite a paid one). For late orders it is false: see
  `payment_credited_twice`.
- `TradeIdsAreKept`: `TradeIsKept`. `TradeInv` adds that what a handler is about to
  write is the order's own trade id or none; the answer of the provider comes before
  there is a row, hence before there is a handler.
- `RechargeImplementsLedger`: `ImplementsWalletLedger`. Besides `LockInv`, `CreditInv`
  and `PaidOnceInv` it needs `BoundInv` (a handler in its transaction finds the order
  credited less than `MaxCredited` times: nobody else credits it meanwhile). A
  settlement is an offer of all the order's creditings, a "paid" callback that finds
  the order unpaid makes the next one, everything else is a stutter.
- `WalletsMatchOrders`: `WalletMatchesOrders`. `WalletInv` says that a wallet has
  what its orders brought each time they were credited; with `PaidOnceInv` that is
  what their rows say.

`TaskLifecycleProofs` besides the above
- `RunningStayWithinLimit`: `GlobalConcurrency`, with overlap and lost writes. It is
  inductive by itself: only a claim adds to the running tasks, one, below the limit.
- `EveryImageIsPaid`: `NoFreeImages`, without `Overlap` and `LostWrites`. It is not
  inductive: a task in error has left `covered` before its debit is back. `PaidInv`
  counts every task whose debit nobody returned; `OnceInv` makes each refund, also
  the joint one of a recovery, take as much from that set as the balance gains.

`TotalsProofs`: what the proofs need of sums. A total is defined as the number of
units, and not by a fold, because what a recursive definition computes is beyond
the provers, whereas unions and cardinalities of finite sets have theorems.

`TaskAdmissionProofs`
- `TypeCorrect`: `TypeOK`, so no balance is ever negative. `LockInv` is what makes it
  inductive: between the lock and the commit a request holds the row that pays, the
  balance it found there still is enough, and nobody else writes it; likewise a
  redemption and its code.
- `EntitlementsAreExplained`, `CreditsAreExplained`: each commit, refund and recovery
  moves a balance by what it moves the tasks or codes that explain it. A recovery
  has marked tasks that are billed until its commit (`Marked`), each by one
  recovery, and gives every row the total of its own.
- `AdmittedByLimit`: `OvershootByOne`. A wallet and service have two rows that can
  pay, hence at most two requests that have counted and not committed. `OvershootInv`
  counts them with the active tasks: whoever counts finds the limit not reached.
- `RequestsNeverDeadlock`: `DeadlockNeedsRedemption`, for any number of transactions,
  so for cycles of any length, where the run has two requests and a recovery.
  `HolderInv` says what a transaction holds at which place: a request only the row that
  pays, from its count on, and its share of the wallet's row only before its commit. So
  a request that waits for its first row holds nothing, and one that waits for the
  wallet's row at its insert waits for a redemption or for a request that can go on; an
  UPDATE of a recovery does not exclude `FOR KEY SHARE`. What is left of a stuck set
  without redemptions are recoveries that wait for each other, and no two of them have
  marked tasks at the same time (`Marked`).

`WalletLedgerProofs`
- `AdmissionImplementsLedger`: `ImplementsWalletLedger`, from the invariants of
  `TaskAdmissionProofs` and `ActiveInv` (the code a redemption is about to redeem is
  active: it has the row). The commit of a request is a debit of what the row holds
  then; a refund returns one debit and the commit of a recovery a set of them, whose
  totals per account are those the recovery gathered per row; the commit of a
  redemption is a deposit; edits of codes offer and withdraw; every other statement is
  a stutter. It is the strongest statement about these transactions: no interleaving
  of their statements can be told from a serial one by the balances.

`ProviderRoutingProofs`
- `TypeCorrect`; `HealthEarned`: `HealthIsEarned`. The counts in the database and
  those in the copies of the jobs are never above the calls that failed
  (`CountsAreOld`): a stale copy is an old count, a job that is about to record has
  added its own failed call, and one that was read before that call is smaller.
- `TierServed`: `TierIsServed`, from the order of `CandidateBuckets` and an invariant
  that ties the service of a job to its tier.
- `PoolSurvivesWorkers`: `WorkersLeaveConnections`. No more tasks are with workers than
  there are workers (`ClaimedInv`), and `PoolAssumption` has more connections than that.

`AdministrationProofs`: about each of the three modules, and what follows for the
specification the run checks.
- `StartupTypeCorrect`; `MigratedOnce`: `AppliedOnce`. The transactions that have inserted a
  version are alone with it, and it is not applied.
- `SchemaServed`: `ServedSchema`: a process has passed only applied migrations, for
  they are never taken back. A process that does not migrate (`AutoMigrate`) may serve
  without them, and is not meant.
- `PlansTypeCorrect`; `OneMigratedDefault`: `OneDefault`. An edit that is about to commit a
  default plan holds the rows of all others that existed, and none of these is the
  default one when it has committed.
- `SettingsTypeCorrect`: `SettingsTypeOK`, from which no limit that is stored or used is
  ever 0 or above its most, whatever is asked for and however updates and readings
  mix. `SettingsTypeInv` adds that a worker that executes has a task.
- `AdministrationTypeCorrect` and `AdministrationSafe`: `TypeOK` of `MCAdministration`, and
  the other three invariants, of the specification the run checks. A step of one of the
  three modules is a step or a stutter of each (`PartStep`), every behaviour is one of
  `RechargePlans` (`PlansAreAPart`), and the invariants of `Startup` also hold where all
  processes are up from the start (`UpIsServed`).

Only model-checked: liveness (`EveryTaskSettles`, `UninterruptedTasksSettle`,
`EveryTransactionEnds`, `SettledIsCredited`, `EveryJobEnds`, `LoweredLimitHolds`,
`QueueDrains`, `EveryEditEnds`, `EveryProcessComesUp`): fairness is beyond the proof
system. Every invariant, action property and refinement of a run that holds is stated
by a theorem.

## 5. Plan

Done: all modules of section 2 with their runs, and the proofs of section 4: every
safety property and every refinement of the runs that hold. Left, in the order of
what it would add:

1. The composition of `TaskLifecycle` with `RuntimeSettings`: recovery's cutoff,
   computed from an upstream timeout that is edited, instead of `Age` at any time. (What
   the limits count, tasks left running and fallbacks included, is in both.)
2. The shutdown of the HTTP server with requests under way; wallets that are created
   and restored while they pay.

## 6. Not modelled

Formatting of requests, responses and messages; decoding of images; signatures
and encryption; authentication; listing and reading endpoints, which change
nothing; the S3 and HTTP clients beyond success and failure; configuration, routes
and the admin pages, which hold no state. The creation of a wallet is one INSERT,
and restoring one is a read. The claim by id (`processTask`) has no caller. Clock
skew between processes and the precision of `created_at` are ignored: tasks are
ordered by number. The ten seconds the HTTP server has to shut down are left out.

Known limits of what is modelled:
- A worker that was given up on may mark its task done after the recovery of an
  overlapping process has refunded it, and each statement of `failTaskAndRefund` may
  fail alone. `DoneIsPaid` and `OutcomeIsFinal` are checked by `task_restarts`, where
  neither happens; they are proved with lost writes, and false with overlap.
- `TaskAdmission` recovers only tasks whose worker is gone. That a recovery may take the
  task of a live worker, and the double refund that follows, is in `TaskLifecycle`.
- A process without a database has neither rows nor workers and is left out of `Startup`.
- `RuntimeSettings` has one process at a time, and `max_concurrent` of a provider is not
  edited there.
- `TierIsServed` is about the provider at its selection. It may be moved to another
  bucket, disabled or put on cooldown before the call, which is made all the same.
- A recharge keeps the copy of the plan it read, so an order has the terms its
  transaction was opened with, whatever edits come in between; nothing is stated of it.
- An order whose insert failed after its transaction was opened has no row: a payment
  of it is credited to nobody. `SettledIsCredited` is about the orders that exist.
- The upsert of a provider writes back the key, the limit and the mode it read
  before; only bucket, status and priority are modelled. The last edit wins for
  every column, and no document says which should.
- No property says that two failures are enough for a cooldown: counts written from
  stale copies may lose one, and one read before a cooldown ends it.
- Two edits that each insert a new default plan leave two. `creditTopupPlan` takes
  the first by `sort_order`; `OneDefault` is about the plans that existed.
- A "pending" callback with another trade id replaces the order's, after which the
  genuine one is rejected. `TradeIsKept` and `SettledIsCredited` leave such orders out.
- `docs/deployment.md:156-157` speaks of HD keys and entitlements; a wallet without
  an HD entitlement may fall back to HD providers for 1K, and credits pay for 2K and
  4K. `TierIsServed` states what holds of both.
