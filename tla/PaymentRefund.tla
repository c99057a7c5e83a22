---------------------------- MODULE PaymentRefund ----------------------------
(***************************************************************************)
(* payment_refund.go: a refund takes the benefit back from the user,       *)
(* returns the money at the gateway, and undoes the first if the second    *)
(* fails.  The user's balance is spent concurrently, so what a plan finds  *)
(* to deduct is any part of the refund.                                    *)
(***************************************************************************)
EXTENDS PaymentOrder

(* RequestRefund, by the user: validateRefundRequest, then the update.     *)

RequestRefund(w, o) ==
    /\ o \in BalanceOrders
    /\ status[o] = "COMPLETED"
    /\ Begin(w, o, "user", "request")
    /\ UNCHANGED <<rowVars, effectVars, providerVars, plan, faults>>

SaveRefundRequest(w) ==
    /\ pc[w] = "request"
    /\ CasStatus(ord[w], {"COMPLETED"}, "REFUND_REQUESTED")
    /\ Finish(w)
    /\ UNCHANGED <<paidAt, tradeNo, fresh, due, effectVars, providerVars,
                   faults>>

-----------------------------------------------------------------------------
(* PrepareRefund and ExecuteRefund, by an administrator.                   *)

\* Mutant: prepDeduct goes by the order's amount, not the refund's.
DeductionsOfOrder(o, amt) == {0, Amount}

\* What prepDeduct may put in the plan for a refund of amt: nothing, the
\* part of amt the balance still covers, or the order's days whole.
Deductions(o, amt) == IF o \in SubscriptionOrders THEN {0, Amount} ELSE 0..amt

PrepareRefund(w, o) ==
    /\ status[o] \in Refundable
    /\ Begin(w, o, "admin", "refundLock")
    /\ \E amt \in 1..Amount : \E d \in Deductions(o, amt) :
         plan' = [plan EXCEPT ![w] = [amt |-> amt, deduct |-> d,
                                      from |-> status[o], revoked |-> FALSE,
                                      number |-> tradeNo[o]]]
    /\ UNCHANGED <<rowVars, effectVars, providerVars, faults>>

LockRefund(w) ==
    /\ pc[w] = "refundLock"
    /\ LET o == ord[w] IN
       \/ /\ status[o] \in Refundable
          /\ SetStatus(o, "REFUNDING")
          /\ Goto(w, "deduct")
          /\ NoFault
          /\ UNCHANGED plan
       \/ /\ status[o] \notin Refundable
          /\ Finish(w)
          /\ NoFault
          /\ UNCHANGED status
       \/ /\ Fault("refundLock")
          /\ \/ CasStatus(o, Refundable, "REFUNDING")
             \/ UNCHANGED status
          /\ Finish(w)
    /\ UNCHANGED <<paidAt, tradeNo, fresh, due, effectVars, providerVars>>

\* Mutant: a retry does not look for REFUND_ROLLBACK_FAILED.
NeverDeducted(o) == FALSE

AlreadyDeducted(o) == "REFUND_ROLLBACK_FAILED" \in audit[o]

\* hasAuditLog drops the error of a failed lookup and reports no entry.
LookupMisses(o) == AlreadyDeducted(o) /\ Fault("auditRead")

\* A subscription whose remaining term is too short is revoked instead.
Deduct(w) ==
    /\ pc[w] = "deduct"
    /\ LET o == ord[w]
           d == plan[w].deduct
       IN
       \/ /\ d > 0
          /\ (~AlreadyDeducted(o) /\ NoFault) \/ LookupMisses(o)
          /\ deducted' = [deducted EXCEPT ![o] = @ + d]
          /\ \E gone \in BOOLEAN :
               /\ gone => o \in SubscriptionOrders
               /\ plan' = [plan EXCEPT ![w].revoked = gone]
          /\ Goto(w, "gateway")
       \/ /\ d = 0 \/ AlreadyDeducted(o)
          /\ plan' = [plan EXCEPT ![w].deduct = 0]
          /\ Goto(w, "gateway")
          /\ NoFault
          /\ UNCHANGED deducted
       \/ /\ d > 0
          /\ AlreadyDeducted(o) => "auditRead" \in FailurePoints
          /\ \/ Fault("deduct") /\ UNCHANGED deducted
             \/ /\ Fault("deductAnswer")
                /\ deducted' = [deducted EXCEPT ![o] = @ + d]
          /\ Goto(w, "restore")
          /\ UNCHANGED plan
    /\ UNCHANGED <<rowVars, code, granted, rebated, audit, providerVars>>

\* gwRefund.  Without a trade number nothing is refunded and the refund
\* counts as done.  The provider returns no more than was paid; it may
\* refuse, or refund and have its answer lost.
RefundAtGateway(w) ==
    /\ pc[w] = "gateway"
    /\ LET o == ord[w]
           refunded == [gwRefunded EXCEPT ![o] = @ + plan[w].amt]
           covered == gwRefunded[o] + plan[w].amt <= Amount
       IN
       \/ /\ plan[w].number = "empty"
          /\ \/ WriteAuditLog(o, "REFUND_NO_TRADE_NO") /\ NoFault
             \/ Fault("auditWrite") /\ UNCHANGED audit
          /\ Goto(w, "refundOk")
          /\ UNCHANGED gwRefunded
       \/ /\ plan[w].number # "empty" /\ covered
          /\ gwRefunded' = refunded
          /\ Goto(w, "refundOk")
          /\ NoFault
          /\ UNCHANGED audit
       \/ /\ plan[w].number # "empty"
          /\ Goto(w, "rollback")
          /\ NoFault
          /\ UNCHANGED <<gwRefunded, audit>>
       \/ /\ plan[w].number # "empty" /\ covered
          /\ Fault("gatewayAnswer")
          /\ gwRefunded' = refunded
          /\ Goto(w, "rollback")
          /\ UNCHANGED audit
    /\ UNCHANGED <<rowVars, code, granted, rebated, deducted, upstream, acked,
                   plan>>

\* Mutant: the rollback forgets to give the balance back.
KeepDeduction(o, d) == deducted

GiveBack(o, d) == [deducted EXCEPT ![o] = @ - d]

\* RollbackRefund, called by handleGwFail.  A revoked subscription cannot be
\* extended again.  The audit entry may fail to be written as well.
RollbackRefund(w) ==
    /\ pc[w] = "rollback"
    /\ LET o == ord[w]
           d == plan[w].deduct
           undone == GiveBack(o, d)
       IN
       \/ /\ d = 0 \/ ~plan[w].revoked
          /\ deducted' = undone
          /\ Goto(w, "restore")
          /\ NoFault
          /\ UNCHANGED audit
       \/ /\ d > 0 /\ plan[w].revoked
          /\ WriteAuditLog(o, "REFUND_ROLLBACK_FAILED")
          /\ Goto(w, "refundFailed")
          /\ NoFault
          /\ UNCHANGED deducted
       \/ /\ d > 0
          /\ Fault("rollback")
          /\ deducted' \in {deducted, undone}
          /\ WriteAuditLog(o, "REFUND_ROLLBACK_FAILED")
          /\ Goto(w, "refundFailed")
       \/ /\ d > 0
          /\ Fault("auditWrite")
          /\ Goto(w, "refundFailed")
          /\ UNCHANGED <<deducted, audit>>
    /\ UNCHANGED <<rowVars, code, granted, rebated, providerVars, plan>>

\* restoreStatus goes by the status the plan saw, not the one it locked.
Restored(from) == IF from = "REFUND_REQUESTED" THEN from ELSE "COMPLETED"

RestoreStatus(w) ==
    /\ pc[w] = "restore"
    /\ \/ /\ SetStatus(ord[w], Restored(plan[w].from))
          /\ NoFault
       \/ /\ Fault("restore")
          /\ UNCHANGED status
    /\ Finish(w)
    /\ UNCHANGED <<paidAt, tradeNo, fresh, due, effectVars, providerVars>>

\* The end of handleGwFail when the rollback failed.
MarkRefundFailed(w) ==
    /\ pc[w] = "refundFailed"
    /\ \/ /\ SetStatus(ord[w], "REFUND_FAILED")
          /\ NoFault
       \/ /\ Fault("refundFailed")
          /\ UNCHANGED status
    /\ Finish(w)
    /\ UNCHANGED <<paidAt, tradeNo, fresh, due, effectVars, providerVars>>

\* Mutants: a partial refund leaves the order completed; a wrong literal.
RefundStatusKept(amt) == IF amt < Amount THEN "COMPLETED" ELSE "REFUNDED"
RefundStatusMisspelt(amt) == IF amt < Amount THEN "PARTIAL_REFUND" ELSE "REFUNDED"

RefundStatus(amt) == IF amt < Amount THEN "PARTIALLY_REFUNDED" ELSE "REFUNDED"

MarkRefundOk(w) ==
    /\ pc[w] = "refundOk"
    /\ \/ /\ SetStatus(ord[w], RefundStatus(plan[w].amt))
          /\ NoFault
       \/ /\ Fault("refundOk")
          /\ UNCHANGED status
    /\ Finish(w)
    /\ UNCHANGED <<paidAt, tradeNo, fresh, due, effectVars, providerVars>>

-----------------------------------------------------------------------------
Refund(w) ==
    \/ SaveRefundRequest(w) \/ LockRefund(w) \/ Deduct(w)
    \/ RefundAtGateway(w) \/ RollbackRefund(w)
    \/ RestoreStatus(w) \/ MarkRefundFailed(w) \/ MarkRefundOk(w)
=============================================================================
