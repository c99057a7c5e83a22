-------------------------- MODULE MCPaymentService --------------------------
(***************************************************************************)
(* PaymentService instantiated for TLC.                                    *)
(***************************************************************************)
EXTENDS PaymentService, TLC

CONSTANTS o1, w1, w2, none

OneOrder == {o1}
TwoWorkers == {w1, w2}

WorkerSymmetry == Permutations(TwoWorkers)

\* Every failure of order creation, notification and fulfilment.
FulfillmentFailures ==
    {"crash", "invoke", "query", "cas", "toPaid", "exec", "lock", "lookup",
     "create", "redeem", "rebate", "assign", "complete", "markFailed",
     "reset", "tradeNo"}

\* Those that leave the order in a status some handler can go on from.
RecoverableFailures ==
    {"query", "cas", "toPaid", "exec", "lookup", "create", "redeem",
     "rebate", "complete", "reset", "tradeNo"}

CompleteFails == {"complete"}

\* Failures of a refund after which its bookkeeping is still right.
RefundFailures ==
    {"crash", "refundLock", "deduct", "rollback", "restore", "refundFailed",
     "refundOk"}

\* Those after which a subscription order is still extended and shortened
\* only once.
SubscriptionFailures ==
    (FulfillmentFailures \ {"assign", "complete"}) \cup RefundFailures

\* Every failure of every handler.
AllFailures ==
    FulfillmentFailures \cup RefundFailures \cup
    {"confirmRead", "alreadyRead", "deductAnswer", "gatewayAnswer",
     "auditRead", "auditWrite"}
=============================================================================
