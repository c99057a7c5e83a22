--------------------------- MODULE PaymentService ---------------------------
(***************************************************************************)
(* The payment system of sub2api: order creation and closing, payment      *)
(* notifications and fulfilment, and refunds, run by concurrent workers    *)
(* over the same rows.                                                     *)
(***************************************************************************)
EXTENDS PaymentFulfillment, PaymentLifecycle, PaymentRefund

\* A worker that is free takes up a request or an iteration of a sweep.
Start(w) ==
    \/ CheckPendingLimit(w)
    \/ \E o \in Orders :
         \/ Deliver(w, o) \/ DeliverMismatch(w, o)
         \/ CancelOrder(w, o) \/ ExpireTimedOutOrder(w, o)
         \/ VerifyOrder(w, o) \/ ReconcilePendingOrder(w, o)
         \/ RetryFulfillment(w, o)
         \/ RequestRefund(w, o) \/ PrepareRefund(w, o)

\* A worker that is busy takes the next step of its handler.
Step(w) == Notification(w) \/ Fulfillment(w) \/ ResetForRetry(w)
              \/ Lifecycle(w) \/ Refund(w)

Environment(o) == UserPays(o) \/ OrderTimesOut(o) \/ GraceElapses(o)

Next ==
    \/ \E w \in Workers : Start(w) \/ Step(w) \/ Crash(w)
    \/ \E o \in Orders : Environment(o)

Spec == PaymentInit /\ [][Next]_vars

\* Fairness.  A handler that runs goes on running; the provider repeats a
\* notification until it gets a 2xx; an administrator retries an order that
\* stays FAILED or PAID.  Strong fairness because a request never waits for
\* one of the model's few workers to be free: the server starts a goroutine
\* for each.
ProviderRedelivers(o) == ~acked[o] /\ \E w \in Workers : Deliver(w, o)

AdminRetries(o) == \E w \in Workers : RetryFulfillment(w, o)

Fairness ==
    /\ \A w \in Workers : WF_vars(Step(w))
    /\ \A o \in Orders : SF_vars(ProviderRedelivers(o))
    /\ \A o \in Orders : SF_vars(AdminRetries(o))

FairSpec == Spec /\ Fairness

-----------------------------------------------------------------------------
(* Safety.                                                                 *)

\* A balance order is credited at most once, however many notifications,
\* reconciliations and retries run it and wherever they fail (doBalance,
\* the redeem code as idempotency key).
GrantedOnce == \A o \in BalanceOrders : granted[o] <= 1

\* The same for subscription orders: the comment in doSub says the audit
\* log "Prevents double-extension on retry after markCompleted fails".
SubscriptionGrantedOnce == \A o \in SubscriptionOrders : granted[o] <= 1

\* Nothing is granted unless the provider took the customer's money: not by
\* a mismatched notification, not by a retry of an order whose creation
\* failed (confirmPayment, RetryFulfillment's PaidAt check).
GrantedOnlyIfCharged == \A o \in Orders : granted[o] > 0 => upstream[o] = "paid"

\* An order that is COMPLETED or in a refund status was granted and, for a
\* balance order, its rebate was decided (markCompleted comes last).
SettledIsGranted ==
    \A o \in Orders : status[o] \in Settled =>
        /\ granted[o] > 0
        /\ o \in BalanceOrders => RebateClaimed(o)

\* The inviter gets the rebate of an order at most once, and only for an
\* order that was credited (applyAffiliateRebateForOrder).
RebatedOnce ==
    \A o \in Orders : rebated[o] <= 1 /\ (rebated[o] = 1 => granted[o] > 0)

\* The status updates lock the order: two workers never fulfil the same
\* order, and none fulfils while another refunds.  (A worker whose
\* markCompleted took effect but reported an error may still be on its way
\* to markFailed, which then finds the order no longer RECHARGING.)
Exclusive ==
    \A v, w \in Workers :
        v # w /\ ord[v] = ord[w] /\ pc[v] \in FulfillSection =>
            /\ pc[w] \notin FulfillSection
            /\ pc[v] # "markFailed" => pc[w] \notin RefundSection

\* Two refunds of an order never run at the same time, and the order is
\* REFUNDING as long as one runs (ExecuteRefund's lock).
RefundExclusive ==
    \A w \in Workers : pc[w] \in RefundSection =>
        /\ status[ord[w]] = "REFUNDING"
        /\ \A v \in Workers : v # w /\ ord[v] = ord[w] => pc[v] \notin RefundSection

\* A success notification is acknowledged only once the payment is recorded
\* on the order or flagged in the audit log (toPaid, alreadyProcessed).
AckedIsRecorded ==
    \A o \in Orders : acked[o] =>
        paidAt[o] \/ "PAYMENT_AFTER_EXPIRY" \in audit[o]

\* ExecuteRefund takes the benefit back once, over all attempts: "Skip
\* balance deduction on retry if previous attempt already deducted but
\* failed to roll back".
DeductedOnce == \A o \in Orders : deducted[o] <= Amount

\* Money that went back at the gateway is not forgotten: the order cannot
\* return to a status in which it would be refunded again.
MoneyBackIsFinal ==
    \A o \in Orders : gwRefunded[o] > 0 =>
        status[o] \in {"REFUNDING", "REFUNDED", "PARTIALLY_REFUNDED"}

\* A refund that failed leaves nothing behind: unless a rollback failed, an
\* order back in COMPLETED or REFUND_REQUESTED still has its benefit.
FailedRefundIsUndone ==
    \A o \in Orders :
        /\ status[o] \in {"COMPLETED", "REFUND_REQUESTED"}
        /\ "REFUND_ROLLBACK_FAILED" \notin audit[o]
        => deducted[o] = 0

\* A finished refund paid the customer back and, unless an earlier rollback
\* failed, took no more balance from the user than it paid back; or else the
\* audit log says that it paid nothing back (gwRefund without a trade number
\* keeps the deduction and lets the order become REFUNDED).
RefundIsBalanced ==
    \A o \in Orders :
        /\ status[o] \in {"REFUNDED", "PARTIALLY_REFUNDED"}
        /\ "REFUND_NO_TRADE_NO" \notin audit[o]
        =>  /\ gwRefunded[o] > 0
            /\ o \in BalanceOrders /\ "REFUND_ROLLBACK_FAILED" \notin audit[o]
               => deducted[o] <= gwRefunded[o]

-----------------------------------------------------------------------------
(* Action properties.                                                      *)

\* The statuses that may follow each status.
Successors ==
    [s \in Statuses |->
        CASE s = "NONE" -> {"PENDING"}
          [] s = "PENDING" -> {"PAID", "CANCELLED", "EXPIRED", "FAILED"}
          [] s \in {"CANCELLED", "EXPIRED"} -> {"PAID", "FAILED"}
          [] s = "FAILED" -> {"PAID", "RECHARGING"}
          [] s = "PAID" -> {"RECHARGING"}
          [] s = "RECHARGING" -> {"COMPLETED", "FAILED"}
          [] s = "COMPLETED" -> {"REFUND_REQUESTED", "REFUNDING"}
          [] s \in {"REFUND_REQUESTED", "REFUND_FAILED"} -> {"REFUNDING"}
          [] s = "REFUNDING" -> RefundStatuses \cup {"COMPLETED"}
          [] s \in {"REFUNDED", "PARTIALLY_REFUNDED"} -> {}]

\* No update overwrites a status it does not know.  Of the unconditional
\* ones, restoreStatus, markRefundOk and handleGwFail never hit an order
\* that another handler has moved on; a failed invokeProvider may turn one
\* that was cancelled or expired meanwhile into FAILED, never a paid one; a
\* refunded order stays refunded.
StatusFlow ==
    [][\A o \in Orders :
          status'[o] # status[o] => status'[o] \in Successors[status[o]]]_vars

-----------------------------------------------------------------------------
(* Liveness.                                                               *)

\* A paid order is settled in the end, or flagged as paid after its grace
\* period (alreadyProcessed).
PaidIsSettledOrFlagged ==
    \A o \in Orders :
        upstream[o] = "paid" ~>
            (status[o] \in Settled \/ "PAYMENT_AFTER_EXPIRY" \in audit[o])

-----------------------------------------------------------------------------
(* Refinement: for balance orders the service implements PaymentLedger.    *)

Ledger == INSTANCE PaymentLedger WITH
    Orders <- BalanceOrders,
    charged <- {o \in BalanceOrders : upstream[o] = "paid"},
    grants <- [o \in BalanceOrders |-> granted[o]],
    refunds <- [o \in BalanceOrders |-> gwRefunded[o]]

\* The detailed specification implements the abstract one.
ImplementsLedger == Ledger!LedgerSpec
=============================================================================
