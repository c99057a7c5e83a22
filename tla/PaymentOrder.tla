---------------------------- MODULE PaymentOrder ----------------------------
(***************************************************************************)
(* The state that the payment handlers of sub2api share: the               *)
(* payment_orders row, the redeem code and the audit log that make         *)
(* fulfilment idempotent, the payment provider as the handlers see it, and *)
(* the workers (HTTP requests and background sweeps) that run the          *)
(* handlers.  A handler is a sequence of database statements and provider  *)
(* calls; every one of them is a step of its own, so that the steps of     *)
(* several workers interleave and a worker can fail or die between two.    *)
(***************************************************************************)
EXTENDS Integers, FiniteSets

CONSTANTS
    Orders,             \* order rows that may be created, all of one user
    SubscriptionOrders, \* those that buy a subscription, not balance
    OutTradeNoOrders,   \* those whose provider is queried by out_trade_no
    Workers,            \* concurrent handlers
    NoOrder,            \* the order of a worker that has none
    Amount,             \* what an order is worth, in the smallest refund unit
    MaxPending,         \* cfg.MaxPendingOrders
    FailurePoints,      \* the calls that may fail in this instance
    MaxFaults           \* bound on the number of failures in a behaviour

ASSUME OrdersAssumption ==
    /\ NoOrder \notin Orders
    /\ SubscriptionOrders \subseteq Orders
    /\ OutTradeNoOrders \subseteq Orders

ASSUME BoundsAssumption ==
    /\ Amount \in Nat \ {0}
    /\ MaxPending \in Nat
    /\ MaxFaults \in Nat

BalanceOrders == Orders \ SubscriptionOrders

-----------------------------------------------------------------------------
(* Order statuses (OrderStatus* of payment_service.go).                    *)

UnpaidStatuses == {"NONE", "PENDING", "CANCELLED", "EXPIRED", "FAILED"}

RefundStatuses == {"REFUND_REQUESTED", "REFUNDING", "PARTIALLY_REFUNDED",
                   "REFUNDED", "REFUND_FAILED"}

Settled == {"COMPLETED"} \cup RefundStatuses

Statuses == UnpaidStatuses \cup {"PAID", "RECHARGING"} \cup Settled

\* Mutants: a lock that does not exclude the order it has just locked.
FulfillableTwice == {"PAID", "FAILED", "RECHARGING"}
RefundableTwice == {"COMPLETED", "REFUND_REQUESTED", "REFUND_FAILED", "REFUNDING"}

\* The statuses that Execute*Fulfillment and ExecuteRefund can lock.
Fulfillable == {"PAID", "FAILED"}
Refundable == {"COMPLETED", "REFUND_REQUESTED", "REFUND_FAILED"}

\* The audit actions that some handler reads back, or that a property needs.
AuditActions == {"SUBSCRIPTION_SUCCESS", "AFFILIATE_REBATE_APPLIED",
                 "AFFILIATE_REBATE_SKIPPED", "REFUND_ROLLBACK_FAILED",
                 "PAYMENT_AFTER_EXPIRY", "REFUND_NO_TRADE_NO"}

\* payment_trade_no: empty, the order's own out_trade_no, or the number the
\* provider gave the payment.
TradeNos == {"empty", "out", "own"}

RebateDecided == {"AFFILIATE_REBATE_APPLIED", "AFFILIATE_REBATE_SKIPPED"}

VARIABLES
    \* the payment_orders row
    status, paidAt,
    tradeNo,    \* payment_trade_no
    fresh,      \* updated_at lies within paymentGraceMinutes of now
    due,        \* expires_at has passed
    \* what fulfilment and refund did for the order
    code,       \* the redeem code named by recharge_code
    granted,    \* times the balance was credited or the term extended
    rebated,    \* times the inviter's rebate was accrued
    audit,      \* UNIQUE(order_id, action): a set of actions per order
    deducted,   \* what refunds took from the user, net of rollbacks
    \* the payment provider
    upstream,   \* the payment at the provider
    acked,      \* the provider got a 2xx for the success notification
    gwRefunded, \* money the provider returned to the customer
    \* the workers
    pc, ord, src, plan,
    faults

rowVars == <<status, paidAt, tradeNo, fresh, due>>
effectVars == <<code, granted, rebated, audit, deducted>>
providerVars == <<upstream, acked, gwRefunded>>
workerVars == <<pc, ord, src, plan>>
vars == <<rowVars, effectVars, providerVars, workerVars, faults>>

-----------------------------------------------------------------------------
(* Workers.                                                                *)

\* A fulfiller holds the order from lock to markCompleted or markFailed,
\* a refunder from lock to its last status update.
FulfillSection == {"lookup", "create", "redeem", "assign", "rebate",
                   "complete", "markFailed"}

RefundSection == {"deduct", "gateway", "rollback", "restore",
                  "refundFailed", "refundOk"}

\* Steps that only a payment confirmed by the provider can lead to.
PaidSteps == {"toPaid", "already", "exec", "lock", "reset"}
                \cup FulfillSection \cup RefundSection

Steps == {"idle", "insert", "invoke", "confirm", "query", "cas",
          "request", "refundLock"} \cup PaidSteps

\* Who started the handler: it decides what happens to its result.
Sources == {"none", "user", "webhook", "mismatch", "check", "admin",
            "cancel", "expire", "verify"}

\* The local variables of a handler: the refund plan, and the trade number
\* it read from the row or that came with the notification.
NoPlan == [amt |-> 0, deduct |-> 0, from |-> "NONE", revoked |-> FALSE,
           number |-> "empty"]

Plans == [amt : 0..Amount, deduct : 0..Amount, from : Statuses,
          revoked : BOOLEAN, number : TradeNos]

Carry(w, number) == plan' = [plan EXCEPT ![w].number = number]

Begin(w, o, s, step) ==
    /\ pc[w] = "idle"
    /\ pc' = [pc EXCEPT ![w] = step]
    /\ ord' = [ord EXCEPT ![w] = o]
    /\ src' = [src EXCEPT ![w] = s]

Goto(w, step) ==
    /\ pc' = [pc EXCEPT ![w] = step]
    /\ UNCHANGED <<ord, src>>

Finish(w) ==
    /\ pc' = [pc EXCEPT ![w] = "idle"]
    /\ ord' = [ord EXCEPT ![w] = NoOrder]
    /\ src' = [src EXCEPT ![w] = "none"]
    /\ plan' = [plan EXCEPT ![w] = NoPlan]

-----------------------------------------------------------------------------
(* Failures.  A statement that fails may have taken effect all the same:   *)
(* the connection can break after the commit.                              *)

NoFault == UNCHANGED faults

Fault(point) ==
    /\ point \in FailurePoints
    /\ faults < MaxFaults
    /\ faults' = faults + 1

\* The process dies, or the request is cancelled, between two statements.
Crash(w) ==
    /\ pc[w] # "idle"
    /\ Fault("crash")
    /\ Finish(w)
    /\ UNCHANGED <<rowVars, effectVars, providerVars>>

\* Mutant: the status is updated whatever it has become.
CasStatusUnchecked(o, from, to) == status' = [status EXCEPT ![o] = to]

\* UPDATE ... WHERE id = o AND status IN from SET status = to.
CasStatus(o, from, to) ==
    status' = IF status[o] \in from THEN [status EXCEPT ![o] = to] ELSE status

\* UPDATE ... WHERE id = o SET status = to.
SetStatus(o, to) == status' = [status EXCEPT ![o] = to]

\* writeAuditLog drops its error: the entry may be missing ("auditWrite").
WriteAuditLog(o, action) == audit' = [audit EXCEPT ![o] = @ \cup {action}]

-----------------------------------------------------------------------------
PaymentInit ==
    /\ status = [o \in Orders |-> "NONE"]
    /\ paidAt = [o \in Orders |-> FALSE]
    /\ tradeNo = [o \in Orders |-> "empty"]
    /\ fresh = [o \in Orders |-> TRUE]
    /\ due = [o \in Orders |-> FALSE]
    /\ code = [o \in Orders |-> "none"]
    /\ granted = [o \in Orders |-> 0]
    /\ rebated = [o \in Orders |-> 0]
    /\ audit = [o \in Orders |-> {}]
    /\ deducted = [o \in Orders |-> 0]
    /\ upstream = [o \in Orders |-> "none"]
    /\ acked = [o \in Orders |-> FALSE]
    /\ gwRefunded = [o \in Orders |-> 0]
    /\ pc = [w \in Workers |-> "idle"]
    /\ ord = [w \in Workers |-> NoOrder]
    /\ src = [w \in Workers |-> "none"]
    /\ plan = [w \in Workers |-> NoPlan]
    /\ faults = 0

RowOK ==
    /\ status \in [Orders -> Statuses]
    /\ paidAt \in [Orders -> BOOLEAN]
    /\ tradeNo \in [Orders -> TradeNos]
    /\ fresh \in [Orders -> BOOLEAN]
    /\ due \in [Orders -> BOOLEAN]

EffectOK ==
    /\ code \in [Orders -> {"none", "unused", "used"}]
    /\ granted \in [Orders -> Nat]
    /\ rebated \in [Orders -> Nat]
    /\ audit \in [Orders -> SUBSET AuditActions]
    /\ deducted \in [Orders -> Int]

ProviderOK ==
    /\ upstream \in [Orders -> {"none", "open", "paid", "closed"}]
    /\ acked \in [Orders -> BOOLEAN]
    /\ gwRefunded \in [Orders -> Nat]

WorkerOK ==
    /\ pc \in [Workers -> Steps]
    /\ ord \in [Workers -> Orders \cup {NoOrder}]
    /\ src \in [Workers -> Sources]
    /\ plan \in [Workers -> Plans]
    /\ \A w \in Workers : pc[w] \notin {"idle", "insert"} => ord[w] \in Orders

\* The values every variable ranges over, and that a busy worker has an
\* order (all the handlers).
TypeOK == RowOK /\ EffectOK /\ ProviderOK /\ WorkerOK /\ faults \in Nat
=============================================================================
