# A TLA+ model of sub2api

sub2api is a gateway that sells access to AI APIs: users pay for balance or for
subscriptions, create API keys, and send requests that the gateway forwards over
a pool of upstream accounts. This directory models the parts of the backend in
which several actors change the same rows, and checks what should hold of them
whatever the interleaving, the failure and the retry. Paths below are relative
to `src/backend/internal/` unless they start with `src/`.

`PROJECT.json` has the machine-readable index: components, runs, mutants, the map
from definitions to source lines, findings, hazards and theorems.

## 1. The system

| part | state | operations | what is hard |
|---|---|---|---|
| payment orders (`service/payment_order.go`, `payment_order_lifecycle.go`, `payment_order_expiry_service.go`) | `payment_orders` row: status, paid_at, payment_trade_no, expires_at, updated_at | create, cancel, expire, verify, reconcile | the provider is asked first and the row updated later; sweeps run beside requests |
| payment fulfilment (`service/payment_fulfillment.go`, `handler/payment_webhook_handler.go`) | the row, the redeem code named by `recharge_code`, the audit log | notification, lock, redeem, rebate, complete, fail, retry | duplicated and late notifications; a statement that fails after it committed |
| payment refund (`service/payment_refund.go`) | the row, the user's balance or subscription, the gateway | request, prepare, lock, deduct, gateway, roll back, restore | compensation of a half-done refund, which can fail itself |
| payment audit log (`service/payment_stats.go`) | `payment_audit_logs`, unique per order and action | write, look up | handlers use it as an idempotency key, yet write errors are dropped |
| payment providers (`payment/provider/*`) | at the third party | create, query, cancel, refund, notify | external |
| redeem codes (`service/redeem_service.go`, `repository/redeem_code_repo.go`) | `redeem_codes` row, Redis lock and error counter | create, redeem, batch update, expire, delete | conditional update and benefit in one transaction, but for the extension of a subscription; the Redis lock fails open |
| subscriptions (`service/subscription_service.go`, `subscription_expiry_service.go`) | `user_subscriptions` row | assign or extend, adjust, reduce, revoke, expire | expiry computed from a row that is not locked |
| idempotency records (`service/idempotency.go`, `repository/idempotency_repo.go`, `service/idempotency_cleanup_service.go`) | `idempotency_records` row: status, fingerprint, locked_until, expires_at, response | claim, reclaim, replay, succeed, fail, clean up | instants read at the start of a request and used much later |
| system operation lock (`service/system_operation_lock_service.go`, `handler/admin/system_handler.go`) | one idempotency record | acquire, renew, release | lease expiry against a slow operation; a crashed holder |
| concurrency slots (`service/concurrency_service.go`, `repository/concurrency_cache.go`) | Redis sorted sets of slots, wait counters | acquire, release, wait, start-up clean-up | slots of dead processes |
| OAuth refresh (`service/oauth_refresh_api.go`) | account credentials, Redis lock, token cache | refresh, save, publish version | refresh tokens are single use; the lock fails open |
| usage billing (`repository/usage_billing_repo.go`, `service/billing_cache_service.go`) | dedup table, balances, quotas, caches | claim, apply effects | retries of a command, stale caches |
| scheduler snapshot (`service/scheduler_snapshot_service.go`, `repository/scheduler_cache.go`, `scheduler_outbox_repo.go`) | `scheduler_outbox` rows, watermark, lock, versioned list and account entries in Redis | enqueue, poll, handle, clean up, rebuild, fall back to the database | several instances, rows committed out of order, locks that expire, old data with a new version number |
| upstream WebSocket pool (`service/openai_ws_pool.go`) | connections with a lease token each, pins, dials in progress | acquire, lease, release, evict, ping, prewarm, close | the token is outside the pool's mutex; evictors close after they unlock |
| leader lock (`service/leader_lock.go`) | Redis key | try, release | two leaders around an expiry |
| gateway forwarding, authentication, generated code (`src/backend/ent`), frontend | | | no protocol between concurrent steps that a model would add to |

How they interact: a webhook, an administrator or a sweep runs a *handler*, a Go
function that issues SQL statements one after another (PostgreSQL, READ
COMMITTED) and calls the provider in between. Nothing but conditional updates,
unique keys and the audit log keeps two handlers for the same order apart.
Fulfilment calls the redeem service (balance) or the subscription service;
a refund calls both in reverse.

A change of an account, by an administrator, by the gateway after an upstream
error or by billing when a quota is used up, writes a row of the outbox; the
outbox workers of all instances turn the rows into rebuilt lists in Redis, which
the gateway reads to choose an account. For accounts that speak WebSocket it then
takes a connection of the account's pool.

What makes the payment part correct:

* an order is credited at most once, and only for money the provider took;
* two handlers never work on an order at the same time;
* a status never moves outside the order's state machine;
* an order is settled only when everything before it was done, and a paid order
  is settled in the end, or is at least flagged;
* a refund takes back once what it pays back once, and one that fails leaves the
  order as it was.

## 2. Modules

| module | models |
|---|---|
| `PaymentOrder` | shared state, workers, failures, conditional updates |
| `PaymentFulfillment` | `payment_fulfillment.go` and the webhook handler |
| `PaymentLifecycle` | `payment_order.go`, `payment_order_lifecycle.go` |
| `PaymentRefund` | `payment_refund.go` |
| `PaymentService` | the composition: `Next`, fairness, all payment properties, the refinement |
| `PaymentLedger` | the abstract promise: charge, then grant once, then pay back |
| `MCPaymentService` | instances for TLC |
| `PaymentTypeProofs`, `PaymentOrderProofs`, `PaymentLedgerProofs` | the proofs |
| `IdempotencyStore` | `idempotency_repo.go`: the record of one key and the statements on it; time |
| `IdempotencyCoordinator` | `idempotency.go` (`Execute`) and the clean-up service; extends the store |
| `SystemOperationLock` | `system_operation_lock_service.go` and the system handlers; extends the store |
| `MCIdempotencyCoordinator`, `MCSystemOperationLock` | instances for TLC |
| `IdempotencyProofs`, `SystemOperationLockProofs` | the proofs |
| `RedeemService` | `redeem_service.go`, the term of a subscription in `subscription_service.go`, the expiry sweep |
| `WSConnPool` | `openai_ws_pool.go` |
| `SchedulerSnapshot` | `scheduler_snapshot_service.go`, `scheduler_cache.go`, `scheduler_outbox_repo.go` and the writers of events |
| `MCRedeemService`, `MCWSConnPool`, `MCSchedulerSnapshot` | instances for TLC |
| `RedeemProofs`, `WSConnPoolProofs`, `SchedulerProofs` | the proofs |

### State and actions of the payment modules

A *worker* is a goroutine running one handler: `pc` is the next statement it will
issue, `ord` the order it works on, `src` who called it (this decides what
happens to the result: only the webhook handler turns `nil` into a 2xx), `plan`
the `RefundPlan`. One action is one SQL statement, one transaction or one
provider call, with everything the code does before the next one; so every
interleaving of statements of two handlers is a behaviour. A worker's `Begin`
action models the first read of its handler and the early returns that follow it.

The row is `status`, `paidAt`, `tradeNo` (payment_trade_no: empty, the order's own
out_trade_no, or a number of the provider's), `due` (expires_at has passed) and `fresh` (updated_at is
within `paymentGraceMinutes`): the two instants are reduced to what the code
asks of them. `code` is the redeem code of the order, `audit` the set of audit
actions that a handler reads back. `granted`, `rebated` and `deducted` are the
user's side of the ledger; `upstream`, `acked` and `gwRefunded` the provider's.
A worker carries the trade number it was given or has read in `plan.number`: a
provider may give none, and then `gwRefund` has nothing to send.

*Failures.* `Fault(point)` makes the call named `point` report an error. A
statement that fails may have committed, so most failing branches leave the
effect open; `auditWrite` and `auditRead` are the audit entries and look-ups whose
error the code drops. A worker may die before any statement (`Crash`). `FailurePoints`
chooses which calls may fail in an instance, `MaxFaults` how often in all.

*Abstractions.* Amounts other than refunds, currencies, fees, signatures and
metadata comparisons are one predicate (`NotificationMatches`). A customer can
pay only after `invokeProvider` succeeded, since only then does he get a payment
link. What `prepDeduct` finds to deduct is any part of the refund, because the
balance is spent concurrently by other requests; for a subscription it is all
the days or none. Whether an affiliate rebate is accrued or skipped is a free
choice. The provider may refuse a refund at any time and never returns more than
was paid. `InsertNothing` exists only because the model has finitely many rows.

### State and actions of the idempotency modules

`rec` is the row of one (scope, key hash), absent or with a status, a
fingerprint, `locked_until`, `expires_at` and the payload that the stored response
answers. A *caller* is a request; its locals are `print` (its fingerprint),
`seen` (id and status of the row it last read or claimed) and `age` (the time
since it read `now`). Every statement of `Execute` and `Acquire` uses that one
reading, so instants are kept relative to the present: `rec.lock` and `rec.exp`
are the time left, a caller's `now` is `-age`, and `Tick` moves everything at
once. This keeps the state finite without a bound on the clock; `Past` stands for
all instants that no caller can tell apart, NULL included.

Each statement is an action: `Create` (INSERT ... ON CONFLICT DO NOTHING),
`ReadExisting` and `RereadExisting` (SELECT and the branches on what it returns),
`Reclaim` (the conditional UPDATE), `ExecuteOperation` (the callback),
`MarkSucceeded`, `MarkFailedRetryable`, `Cleanup`. `DeleteExpired` selects the expired
rows and then deletes them by id, at READ COMMITTED two steps (`SelectExpired`,
`DeleteVictim`): a row that is claimed in between is deleted under its new owner. Such
a claim counts as a fault. For the lock they are `Create`,
`ReadExisting`, `Reclaim`, `Renew` (one round of `renewLoop`), `FinishOperation`
and `Release`. Any statement may fail, and a caller may die between any two; a
claim that commits and reports an error looks like a death after it. A failing
`json.Marshal` of the response is a failing `MarkSucceeded`.

*Ghosts.* `shield` is the time left of the life time that the last effect began;
`revived` remembers that some request has taken over an expired success, `torn` that
a claim fell into a running clean-up, `lapsed` (of the lock) that the lease of an
operation which took over another id's row ran out.

*Abstractions.* All callers use one key, since other keys are other rows. The
callback takes effect, or fails without one: what a callback that does half its
work leaves behind is that callback's affair. Requests without a key, or when the
coordinator only observes, run the callback unprotected and touch no record.
`CleanupBatchSize` only delays deletions. `renewal` is the time until the next
round of the holder's `renewLoop`; a renewal and a release have two seconds to
complete, less than the ten of a unit of time. A renewal that is still under way
after the release is left out: by then the row no longer says processing, or is
held by a later operation whose lease it would extend.

*Bounds.* `MaxAge` is the time a request takes from `now` to its end, `MaxClaim`
that from `now` to its claim of the record, `MaxFaults` the number of failures.
`AgeAssumption` says that a request ends before the record it wrote expires
(minutes against 24 hours, or 1 hour for system operations).

What makes this part correct: one request at a time runs the operation behind a
key, and it takes effect once in the life time of the record; who repeats a
request gets the response to it, not to another one; what the record says is
true; and a key or a lock whose owner died becomes free again.

### State and actions of `RedeemService`

One user and one group. `code` is the status of each redeem code, `sub` the
subscription rows (`live` is deleted_at IS NULL), `funds` the balance and the
concurrency, `lock` the Redis keys. A *worker* is one call of `Redeem`, `loc` what
it has read and what its open transaction will make visible; row and index locks
of PostgreSQL are the predicates `CodeLocked`, `RowLocked` and `InsertPending`,
the connection pool is `ConnFree`. `Extend` is a transaction of its own, as in
`withSubscriptionUpdateTx`: it takes a second connection and is durable at once.
`adm` is one administrator's operation between its check and its write
(`BatchUpdate`, `ExpireRedeemCode`, `AssignSubscription`, `ExtendSubscription`),
`DeleteCode`, `Revoke` and `ExpirySweep` are single statements. `Spend` is the charge
for a request that was served; it takes the balance below zero if need be
(`usage_billing_repo.go`). A charge waits for a transaction that has written the
user's row; since both add to the balance their order makes no difference. Time is counted in days. `Abort` is a failing
call or a cancelled context, `GiveUp` a client that leaves while its request waits
for a connection, `Crash` the end of the process.

*Ghosts.* `redeemed`, `grants` and `revived` count, per code, the commits as used,
the benefits that became durable and the edits that overwrote a used code (one that
expires it too, since it can then be enabled again);
`paid` sums the days granted. `worth` is what the codes and the usage so far leave of
the balance and of the concurrency at least and at most, the floor under which no
code should take it (zero, or the debt that usage left), and two things that can
happen to a negative code: it was clamped by a value that dropped before its commit
(`raced`), or by one below zero, which makes the deduction a credit (`credited`).

*Abstractions.* Administrators' direct edits of a balance. `RedeemService.Delete` has
no caller: the handlers delete without its check, which is `DeleteCode`. The affiliate rebate after the commit, the error count of the rate
limit, notes, usage windows and caches. Values are whole days and units.

### State and actions of `WSConnPool`

The pool of one account. A connection is open or `closed`, has its `token` in
`leaseCh` or not, and is `listed` in the pool or not; the three are independent, as
in the code. `doomed` are the connections that somebody has unlisted and will close
after he has released the mutex. A *request* is one call of `acquire` and the lease
it returns: what happens under `ap.mu` (`Reuse`, `Create`, `Queue`, `Refuse`) is one
step; taking the token, looking at `closedCh` again (`Lease`, `PutBack`), dialing,
the health check and closing are steps of their own. A retry keeps the waiter count
of the first try, since its decrement is deferred. The background is `Cleanup`,
`PingSweep` and `PingEnds`, `Prewarm` and `Shutdown`.

*Abstractions.* Ages, idle times, load, cooldowns and the order among candidates
are free choices, so that every choice the code could make is covered. The clean-up
that `acquire` runs at intervals is the action `Cleanup` just before. Reading and
writing messages is the lessee's affair; he may call `MarkBroken` at any time.

### State and actions of `SchedulerSnapshot`

One account in no group and one bucket. `db` numbers the committed changes of the
account, `snap` and `data` say at which change the active list and the account's
entry were loaded. `row` is the outbox with its uncommitted rows ("open"); the
statement that lists rows clears their dedup keys. *Writers* change the account by
one statement (`Change`), in the billing transaction with its event (`TxChange`) or
only touch it (`Touch`), then enqueue, commit and refresh the entry. *Tasks* are the
pollers, the full rebuild and requests that fall back to the database; they share
the steps from `TryLock` to `Unlock`, requests without the lock. The version numbers
of snapshots are only compared, so they are kept as an order (`ahead`, `late`).

*Ghosts.* `handled` are the rows whose event was handled to its end, `slow` those
not committed when a later one was listed, `broken` says that the lock was lost
while held or that a request wrote a list.

*Abstractions.* Bulk and group events rebuild more buckets by the same steps. A
failing call ends the poll as in the code; whether the deferred unlock still works
is open. Ages (10 seconds for the clean-up, the lag thresholds) are free choices.

## 3. Runs

Payment runs: one order, two workers, `Amount` 1 or 2, at
most two faults. Two workers are enough for every race between two handlers, and
a third handler on the same order would have to pass the same conditional updates;
two faults allow a failure and the failure of its compensation or retry, and a
crash in the middle of a retry. `Amount = 2` is the smallest that has partial
refunds. Workers are symmetric (the safety runs use that; the runs with liveness
properties do not).

| run | expects | what it checks |
|---|---|---|
| `balance` | pass | a balance order and its refunds under two failures of any call, lost answers, failing reads and dropped audit entries included, or crashes: `GrantedOnce`, `GrantedOnlyIfCharged`, `SettledIsGranted`, `RebatedOnce`, the locks (`Exclusive`, `RefundExclusive`), the state machine (`StatusFlow`) and the refinement `ImplementsLedger` |
| `refund` | pass | full and partial refunds of a balance order, with or without a trade number: `DeductedOnce`, `MoneyBackIsFinal`, `FailedRefundIsUndone`, `RefundIsBalanced`, `TypeOK` |
| `subscription` | pass | a subscription order and its refunds, where a deduction can revoke the subscription for good, under all failures but those of the assignment and of `markCompleted`: `SubscriptionGrantedOnce`, `AckedIsRecorded` |
| `liveness` | pass | `PaidIsSettledOrFlagged` under fairness, with two recoverable failures |
| `subscription_retry` | violation | `markCompleted` fails once and the retry extends the subscription again, against the comment in `doSub` |
| `idempotency` | pass | two requests at a time, two payloads, expiry, a clean-up in two steps, one failure: `OneOwner`, `ReplayAnswersRequest`, `RecordTellsEffect`, `EffectOnceUntilRevived`, `TypeOK`, and, under fairness, `OrphanIsFreed` |
| `system_lock` | pass | operations longer than the lease, two operation ids, one failure: `OneOperation`, `HeldIsRenewed`, `TypeOK`, and, under fairness, `DeadLockIsFreed` |
| `redeem` | pass | two requests, a subscription code, a reducing one and a negative balance code, usage, one edit, one failure: `RedeemedOnce`, `GrantedAsRedeemed`, `TermIsPaid`, `FundsMatchCodes`, `TypeOK` |
| `redeem_atomicity` | violation | `Redeem` fails after it has extended a subscription: the days stay and the code can be redeemed again (`AtomicRedeem`), against the comment at `service/redeem_service.go:421` |
| `ws_pool` | pass | two requests, at most two connections at a time: `OneLessee`, `TokenIsKept`, `CapacityKept`, `NoneLeaks` and, under fairness, `AcquireEnds` |
| `outbox` | pass | two writers, the outbox workers of two instances, one failure: `NoneSkipped`, `NoRollback`, `TypeOK` |
| `scheduler` | pass | a writer, an outbox worker, the full rebuild and a falling-back request: under fairness `EventuallyFresh` |

Idempotency runs: with a life time of 3, a timeout of 2, claims within 1 and
requests within 2 units, records expire while requests are under way, leases end
before records do, and an old clock reading differs from a new one. Two callers
race for what a third, who died or returned and began again, has left behind. In
the lock run a unit is one renewal interval, the lease is four (three in the code,
where a claim takes much less than an interval) and a claim takes up
to one, so that it holds for the claim, a failing renewal and the next one; an
operation takes up to five, longer than the lease. Nearly every request has an
operation id of its own (`buildSystemOperationID`), so there are two: an operation
that takes over the other's row does not renew, and the run reaches the end of its
lease and a second operation beside it, which `lapsed` excepts. There is one failure,
because two renewals that fail in a row could end the lease. What holds for any ids
and any number of failures is proved (section 4). The runs have three record ids,
because a clean-up may remember one.

Redeem run: a term that can be extended and reduced, an expiry that can pass
(`MaxNow = 1`) and a limit that can be reached (`MaxExpires = 4`), two connections
so that an extension may have to wait for its second one. The negative code exceeds
the balance of 1, so that it is clamped; a charge of 2 takes the balance to -1, the
bound `MaxDebt`, between its read and its commit (`raced`) or before the read
(`credited`). One edit lets a code be overwritten after its redemption; that an
expired one is enabled again takes two, and is left to the proof. Pool run: `MaxConns = 2`
is the smallest pool in which one connection is evicted while another is waited
for, and `MaxDials` the smallest number that lets one be replaced. Outbox runs:
two rows are enough for one to overtake the other and for two pollers to hold
different batches; `scheduler` has two changes, so that the second may be lost in
any step of the first.

What the passing runs leave out, and why: `AckedIsRecorded` is checked without the
failures `confirmRead` and `alreadyRead`, because the code answers 2xx when it
cannot read the order; `MoneyBackIsFinal` without `gatewayAnswer`, because a
refund whose answer is lost is rolled back although the money went out;
`DeductedOnce`, `FailedRefundIsUndone` and `RefundIsBalanced` without `deductAnswer`, a
deduction that commits and reports an error, `auditWrite`, an entry
REFUND_ROLLBACK_FAILED that is dropped, and `auditRead`, its lookup failing: after
each of them a retry deducts again. `AckedIsRecorded` and `PaidIsSettledOrFlagged` are
also checked without `auditWrite`, because a dropped PAYMENT_AFTER_EXPIRY is answered
with 2xx all the same. `balance` has all of them. These are listed among the hazards.
`RefundIsBalanced` excepts the orders that were refunded without a trade number and
say so (REFUND_NO_TRADE_NO). `OneOperation` and `HeldIsRenewed` end with `lapsed` and
`torn`, the properties of the coordinator that need an owner with `torn`.
`NoRollback` ends with a lost lock and with a snapshot written by a request.
`GrantedAsRedeemed` counts an extension when it is written; another one may still
overwrite it. `scheduler` has one row and one writer: a row that commits late and an
event that is deduplicated in its transaction do not occur in it.

*Fairness* (`FairSpec`). A handler that runs goes on (`WF` on `Step(w)`): nothing
in it blocks for ever. Providers repeat a success notification until they get a
2xx, and administrators retry an order that stays FAILED or PAID: strong fairness,
because in the model a request needs one of two workers to be free, while the
server starts a goroutine for each request. Nothing is assumed of customers, of
cancellation, of the sweeps or of failures. The liveness run leaves out crashes
and a failing `markFailed`: after these the order stays RECHARGING, a status that
no handler accepts again, and the code makes no claim about it (a hazard).

For the pool: a request that can go on does (`WF` on its steps: dials, health checks
and leases end by their timeouts), evictors close what they evicted, and a Go
channel serves its receivers in order, so that a waiter is not passed over for ever
(`SF` on `Take`). Cancellation is not assumed: `AcquireEnds` does not rely on it. The pool's limit is a
constant, where the code reads it again from the account with each request.

For the scheduler: goroutines go on, the tickers of the outbox workers and of the
full rebuild fire again and again, and a lock that nobody deletes expires. Nothing
is assumed of requests. It is the full rebuild that carries `EventuallyFresh`: the
mutant that lets it skip a bucket which can be read breaks it, because a poll that
finds the bucket locked counts as done.

For the coordinator: requests under way go on, time passes, and the clean-up loop
runs at its intervals (`WF`); nothing is assumed of the clients. For the lock:
handlers and renewal loops go on, time passes, and somebody keeps asking for a
system operation (`SF` on `Begin`, because in the model a request needs a free
caller). This last one is an assumption about the administrators, without which
nobody would notice that the lock is free; the clean-up is not assumed to run, so
that it is the lease, not the deletion of the row, that frees the lock.

## 4. Proofs

The payment theorems hold for every set of orders and workers, every amount,
every set of failure points and every number of faults, from `OrdersAssumption`
and `BoundsAssumption`, less the failure points named below; the idempotency and lock theorems for every set of
callers, fingerprints and ids, all durations and any number of faults, from
`NoneAssumption`, `TimeAssumption`, `AgeAssumption` or `ClaimAssumption`, and the
condition named below; the redemption theorems for every set of requests and codes,
every value of a code, every balance to begin with and every charge, any number of
edits, days and faults, from `RedeemAssumption`; the pool theorems for every finite set of requests and any
limits, from `PoolAssumption`; the scheduler theorems for every set of writers,
pollers, rebuilds and readers, every limit of a poll, any number of changes, rows
and faults, from `SchedulerAssumption`:

| theorem | states |
|---|---|
| `TypeCorrect` | `Spec => []TypeOK` |
| `PaidBeforeGranted` | `Spec => []GrantedOnlyIfCharged` |
| `OneFulfiller`, `OneRefunder` | `Spec => []Exclusive`, `Spec => []RefundExclusive` |
| `StatusFollowsFlow` | `Spec => StatusFlow` |
| `CreditedOnce`, `RebateOnce` | `Spec => []GrantedOnce`, `Spec => []RebatedOnce` |
| `SettledAfterGrant` | `Spec => []SettledIsGranted` |
| `LedgerImplemented` | `Spec => ImplementsLedger` |
| `BenefitTakenOnce`, `FailureUndone`, `RefundBalanced` | `Spec => []DeductedOnce`, `Spec => []FailedRefundIsUndone`, `Spec => []RefundIsBalanced`, without the failures `deductAnswer`, `auditWrite` and `auditRead` |
| `MoneyBackFinal` | `Spec => []MoneyBackIsFinal`, without `gatewayAnswer` |
| `ExtendedOnce` | `Spec => []SubscriptionGrantedOnce`, without `assign` and `complete` |
| `AckIsRecorded` | `Spec => []AckedIsRecorded`, without `confirmRead`, `alreadyRead` and `auditWrite` |
| `CoordinatorTypeCorrect`, `LockTypeCorrect` | `Spec => []TypeOK` of the coordinator and of the lock |
| `ReplayIsRight` | `Spec => []ReplayAnswersRequest` |
| `RequestsExclude` | `Spec => []OneOwner`, if `MaxClaim < Timeout` |
| `RecordIsTrue` | `Spec => []RecordTellsEffect`, if `MaxClaim < Timeout` |
| `EffectOnce` | `Spec => EffectOnceUntilRevived`, if `MaxClaim < Timeout` |
| `ShortOperationsExclude` | `Spec => [](OneOperation /\ (~torn => ~lapsed))`, if `MaxAge < Timeout` |
| `RenewedOperationsExclude` | `Spec => [](OneOperation /\ HeldIsRenewed)`, if `MaxClaim + Interval * (MaxFaults + 1) < Timeout` |
| `RedeemTypeCorrect`, `PoolTypeCorrect` | `Spec => []TypeOK` of the redemption and of the pool |
| `CodeRedeemedOnce` | `Spec => []RedeemedOnce` |
| `NeverForNothing` | `Spec => []GrantedAsRedeemed` |
| `TermsArePaid` | `Spec => []TermIsPaid` |
| `FundsFollowCodes` | `Spec => []FundsMatchCodes` |
| `LeaseIsExclusive`, `TokenNeverLost` | `Spec => []OneLessee`, `Spec => []TokenIsKept` |
| `PoolIsBounded`, `ConnsDoNotLeak` | `Spec => []CapacityKept`, `Spec => []NoneLeaks` |
| `SchedulerTypeCorrect` | `Spec => []TypeOK` of the snapshots and the outbox |
| `NothingSkipped` | `Spec => []NoneSkipped` |
| `NeverOlder` | `Spec => NoRollback` |

None of these invariants is inductive. For payments the argument has four layers,
each proved from the ones below it:

1. `MoneyFirst` (`PaymentOrderProofs`): an order without money at the provider is
   untouched (`UnpaidIsUntouched`), a worker past `confirmPayment` works on a paid
   order (`WorkIsPaidFor`), and the order whose creation is under way has no
   payment yet (`CreationIsPrivate`). The last part is why the unconditional
   update to FAILED after a failed `invokeProvider` is harmless.
2. `Locks`: a fulfiller between lock and `markCompleted` finds its order
   RECHARGING and is alone (`FulfillerHolds`), a refunder finds it REFUNDING and
   is alone (`RefundExclusive`). The exception is a worker on its way to
   `markFailed` after a `markCompleted` that committed and reported an error.
   `StatusFlow` follows: every unconditional update is made by a holder.
3. `Books` (`PaymentLedgerProofs`): how far a fulfiller has come tells what has
   been granted (`FulfillerProgress`); the redeem code counts the credits and the
   audit log the rebates (`LedgerMatches`).
4. Four independent accounts (`PaymentLedgerProofs`), each with the failures it
   cannot survive as a hypothesis; every other failure and crashes are allowed.
   `RefundBooks` is kept per order, while nobody refunds it, and per refunder: where
   the refunder stands tells what has been deducted, put back and paid, and what the
   audit log makes of it, so that a retry knows whether to deduct; a refund without a
   trade number is on record there before the order says REFUNDED. A deduction that
   commits and reports an error, or a failed rollback whose audit entry is lost too or
   not found, leaves the order's account wrong for the retry. Lost answers of the gateway do not
   touch this account, only `MoneyBack`: money that went out is on record in the
   status, or its refunder is still about to write it. `TermsMatch` ties the days of a
   subscription order to the status and the holder's step. `AckBooks` says that a
   status behind the payment, or an answer 2xx under way, implies a payment on record
   (`PaidAtIsSet`, `AnswerIsInformed`), because an acknowledgment may be given from a
   read made before other handlers moved the order.

Frame lemmas (`StartFrame`, `RowFrame`, `EffectFrame`, `ProviderFrame`,
`OthersStay`, `StatusWrites`) say once which actions leave which variables alone.

The invariant of the coordinator is `CoordInv` (`IdempotencyProofs`). Its core is
`View`: a caller about to reclaim a record that says processing either read it
after its expiry, or somebody has claimed it since with a lease that this caller's
clock reading still respects. The second half needs `MaxClaim < Timeout`; a request
that stalls for the whole processing timeout between reading the clock and its
claim writes a lease that is over already, and a second caller can then claim the
same record. `OwnerHolds` ties the row to its owner, so that marks by id hit the
right record; `View` adds that an expired success stays one until it is revived,
and `Shielded` that until then the row itself, processing or succeeded with the
expiry of the last effect, keeps everybody from a second one.

For the lock, `LeaseHolds` says that the row of a holder names its record, says
processing, and that its lease does not end before the holder does; so nobody can
insert, reclaim or clean up the row. `MaxAge < Timeout` restricts the theorem to
operations shorter than the lease: longer ones depend on renewal. For these
`RenewalHolds` is an account of time: the lease of a holder lasts at least until its
next round of `renewLoop`, plus one interval for each failure still to come
(`LeaseLeft`); a round that fails uses one of them up, a round that succeeds restores
the whole lease. It is kept for holders whose id is in the row: when an operation
takes the lock over from one with another id the row keeps the old fingerprint, the
renewals find the ownership lost, and the lease runs out if it operates for longer.
From then on (`lapsed`) nothing is claimed; until then `TookOver` still has the lease
of its claim. `ShortOperationsExclude` says that this never happens to short ones.

The invariant of the redemption is `RedeemInv` (`RedeemProofs`). `Marks` says that
a code marked by an open transaction is still unused for everybody else and marked
by that request alone: this, and not the Redis lock, which any request may lose,
makes a code count once (`Counts`; a disabled code is included because an edit may
enable it again). `Grants` counts an extension, which commits before Redeem does,
as a grant that is not redeemed yet. `Terms` bounds the expiries that are computed
but not written: what a request or an administrator will write exceeds what is
granted now by at most what that write will grant, and `now + paid` never
decreases, so an overwritten expiry can only be too short. `Paths` ties a request's
step to the kind of its code. `FundsInv` says the same of balance and concurrency,
with a floor that is never above zero: a code that was clamped by a value of zero or
more, which has not dropped since, leaves zero or more; one that was clamped by a
value below zero adds to it; and a charge moves both bounds and the floor.

The invariant of the pool is `PoolInv` (`WSConnPoolProofs`). A close puts a token
into the channel while the lessee still has its own, so that holders are unique
only while the connection is open (`Tokens`); `OneLessee` holds beyond that because
a lease begins only after closedCh was checked with the token in hand. `Effect`
sums up what each step of a request does to the token. The limit rests on counting:
`creating` is `prewarm` plus the requests at their dial (`DialingMoves`,
`OtherStep`), and a dial that ends gives up its place before or when it lists a
connection.

The invariant of the scheduler is `SchedulerInv` (`SchedulerProofs`). `Covered` says
of a watermark that every committed row up to it is handled or was too late; a
second poller may set the shared watermark back, and any value it writes is
covered. `Batch` says the same of a poller at work: up to the last row of its batch
whatever is not handled is in the batch, and the batch is handled up to the current
event. It holds when the rows are listed because a poll takes the first visible
rows after a covered watermark without a gap (`FirstRows`, by counting) and a
row still open below them is late from then on. `NeverOlder` rests on `Locked`:
while the lock is kept one task holds it, and what it has loaded is not older than
the active list (`Loads` bounds both by the database). `Transactions` is needed
for the numbers: a quota transaction writes the next number because no other change
of the account can be made under it.

Only model-checked: the liveness properties, which are out of the prover's reach
(`PaidIsSettledOrFlagged`, `OrphanIsFreed`, `DeadLockIsFreed`, `AcquireEnds`,
`EventuallyFresh`). Every invariant and action property of a passing run is proved as
well. `TypeOK` of the pool is only proved: its run is spent on the other properties.
The hypotheses on failure points are those of the runs or weaker: the `refund` run
leaves out `gatewayAnswer` for all its properties, `BenefitTakenOnce`, `FailureUndone`
and `RefundBalanced` allow it.

## 5. Disagreements met while modelling

Shown by a run: `subscription_retry` and `redeem_atomicity`. The others have no run
of their own; the passing runs leave out or except the case that leads to them:

* the rollback of a refund fails and its audit entry is not written, or not found by a
  lookup that fails, and the retry deducts again (`service/payment_refund.go:285`,
  `service/payment_fulfillment.go:446`);
* a refund of an order without a trade number returns nothing, keeps the deduction and
  ends REFUNDED (`service/payment_refund.go:326`);
* a payment of an expired order whose audit entry is dropped is answered with 2xx and
  on record nowhere (`service/payment_fulfillment.go:193`);
* two concurrent creations exceed the limit on pending orders of
  `src/docs/PAYMENT.md:65` (`service/payment_order.go:244`), and the daily amount
  limit in the same way;
* a payment made between the expiry sweep's query and its update, notified after
  the grace period, is flagged and not credited (`src/docs/PAYMENT.md:260`);
* two requests read the same expired success, and the second takes effect again
  after the first (`service/idempotency.go:292`, `idempotency_test.go:394`);
* an operation that takes the system lock over from another id, the usual case, cannot
  renew it (`service/system_operation_lock_service.go:175`); if it outlives the lease a
  second operation starts beside it;
* the clean-up of idempotency records deletes by id what it has selected, a record that
  was claimed meanwhile too (`repository/idempotency_repo.go:229`);
* `ExpireRedeemCode` marks a used code as expired, and `BatchUpdate` can then enable it
  for a second redemption (`service/admin_service.go:3404`);
* a charge, or another negative code, between the read of a negative code and its
  commit leaves the balance below zero, against "余额最低为 0" at
  `service/redeem_service.go:444` (and 454 for the concurrency); and one that is
  redeemed while the balance is below zero, as usage may leave it, is clamped to minus
  a negative balance, and credits the user (`FundsMatchCodes` excepts both);
* an outbox row that commits after a later one was listed is never read; the ten
  seconds of `repository/scheduler_outbox_repo.go:111` delay its deletion only.

## 6. Not modelled, and the plan

Not modelled: choice of provider instance, fees, currencies, daily limits and
cancel rate limits (they decide whether an order is created, not what happens to
it); the providers' wire protocols; statistics; usage windows and quota resets of
subscriptions; the choice among schedulable accounts (a heuristic over load and
priority); concurrency slots (each operation is one Lua script), the OAuth token
refresh, the balance cache and the leader lock; gateway forwarding and dialect
translation, which is most of the code (data transformation without a protocol
between concurrent steps); authentication; generated code; the frontend.

Next, in this order:

1. `OAuthRefresh`: the refresh lock, the second read, the save and the version in
   the token cache. Property: a refresh token is exchanged once while the lock
   works, and no reader keeps an older token for good.
2. `ConcurrencySlots`: slots of dead processes, the start-up clean-up of one
   instance beside others.
3. `UsageBilling`: the dedup key with the caches behind it.
4. Proofs: the safety properties of these new modules.
