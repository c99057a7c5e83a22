------------------------- MODULE PaymentFulfillment -------------------------
(***************************************************************************)
(* payment_fulfillment.go and the webhook handler: from a success          *)
(* notification to the credited balance or the extended subscription.      *)
(***************************************************************************)
EXTENDS PaymentOrder

\* HandlePaymentNotification returns.  The webhook handler answers 2xx on
\* nil and 500 on an error; checkPaid and the admin ignore the result.
Return(w, ok) ==
    /\ acked' = IF ok /\ src[w] = "webhook"
                THEN [acked EXCEPT ![ord[w]] = TRUE] ELSE acked
    /\ Finish(w)

-----------------------------------------------------------------------------
(* The provider and the customer (external).                               *)

UserPays(o) ==
    /\ upstream[o] = "open"
    /\ upstream' = [upstream EXCEPT ![o] = "paid"]
    /\ UNCHANGED <<rowVars, effectVars, acked, gwRefunded, workerVars, faults>>

\* The number in a notification: no provider checks that it is there.
NotifiedNumbers(o) == IF o \in OutTradeNoOrders THEN {"empty", "own"} ELSE {"own"}

\* Success notifications arrive late, repeatedly and in any number.
Deliver(w, o) ==
    /\ upstream[o] = "paid"
    /\ Begin(w, o, "webhook", "confirm")
    /\ \E number \in NotifiedNumbers(o) : Carry(w, number)
    /\ UNCHANGED <<rowVars, effectVars, providerVars, faults>>

\* A notification for the order whose provider, merchant metadata or amount
\* is not the order's.
DeliverMismatch(w, o) ==
    /\ status[o] # "NONE"
    /\ Begin(w, o, "mismatch", "confirm")
    /\ UNCHANGED <<rowVars, effectVars, providerVars, plan, faults>>

\* paymentGraceMinutes pass since the row was last updated.  updated_at
\* matters for expired orders only.
GraceElapses(o) ==
    /\ status[o] = "EXPIRED" /\ fresh[o]
    /\ fresh' = [fresh EXCEPT ![o] = FALSE]
    /\ UNCHANGED <<status, paidAt, tradeNo, due, effectVars, providerVars,
                   workerVars, faults>>

-----------------------------------------------------------------------------
(* Notification.                                                           *)

\* Mutant: confirmPayment does not compare the notification with the order.
AnyNotificationMatches(w) == TRUE

NotificationMatches(w) == src[w] # "mismatch"

\* confirmPayment: reject what does not match the order; a failed read of
\* the row is reported as success.
ConfirmPayment(w) ==
    /\ pc[w] = "confirm"
    /\ \/ /\ NotificationMatches(w)
          /\ Goto(w, "toPaid")
          /\ NoFault
          /\ UNCHANGED <<acked, plan>>
       \/ /\ ~NotificationMatches(w)
          /\ Return(w, FALSE)
          /\ NoFault
       \/ /\ Fault("confirmRead")
          /\ Return(w, TRUE)
    /\ UNCHANGED <<rowVars, effectVars, upstream, gwRefunded>>

\* Mutant: a payment does not revive a cancelled order.
PayableUnlessCancelled(o) ==
    status[o] = "PENDING" \/ (status[o] = "EXPIRED" /\ fresh[o])

Payable(o) ==
    \/ status[o] \in {"PENDING", "CANCELLED"}
    \/ status[o] = "EXPIRED" /\ fresh[o]

MarkPaid(o, number) ==
    /\ status' = [status EXCEPT ![o] = "PAID"]
    /\ paidAt' = [paidAt EXCEPT ![o] = TRUE]
    /\ tradeNo' = [tradeNo EXCEPT ![o] = number]

\* The number of the notification is not used after the update.
ToPaid(w) ==
    /\ pc[w] = "toPaid"
    /\ LET o == ord[w] IN
       \/ /\ Payable(o)
          /\ MarkPaid(o, plan[w].number)
          /\ Goto(w, "exec")
          /\ Carry(w, "empty")
          /\ NoFault
          /\ UNCHANGED acked
       \/ /\ ~Payable(o)
          /\ Goto(w, "already")
          /\ Carry(w, "empty")
          /\ NoFault
          /\ UNCHANGED <<status, paidAt, tradeNo, acked>>
       \/ /\ Fault("toPaid")
          /\ \/ Payable(o) /\ MarkPaid(o, plan[w].number)
             \/ UNCHANGED <<status, paidAt, tradeNo>>
          /\ Return(w, FALSE)
    /\ UNCHANGED <<fresh, due, effectVars, upstream, gwRefunded>>

AlreadyProcessed(w) ==
    /\ pc[w] = "already"
    /\ LET o == ord[w] IN
       \/ /\ status[o] = "FAILED"
          /\ Goto(w, "exec")
          /\ NoFault
          /\ UNCHANGED <<audit, acked, plan>>
       \/ /\ status[o] \in {"PAID", "RECHARGING"}
          /\ Return(w, FALSE)
          /\ NoFault
          /\ UNCHANGED audit
       \/ /\ status[o] = "EXPIRED"
          /\ \/ WriteAuditLog(o, "PAYMENT_AFTER_EXPIRY") /\ NoFault
             \/ Fault("auditWrite") /\ UNCHANGED audit
          /\ Return(w, TRUE)
       \/ /\ status[o] \notin {"FAILED", "PAID", "RECHARGING", "EXPIRED"}
          /\ Return(w, TRUE)
          /\ NoFault
          /\ UNCHANGED audit
       \/ /\ Fault("alreadyRead")
          /\ Return(w, TRUE)
          /\ UNCHANGED audit
    /\ UNCHANGED <<rowVars, code, granted, rebated, deducted, upstream,
                   gwRefunded>>

-----------------------------------------------------------------------------
(* Fulfilment.                                                             *)

\* executeFulfillment and the status checks of Execute*Fulfillment.
ExecuteFulfillment(w) ==
    /\ pc[w] = "exec"
    /\ LET o == ord[w] IN
       \/ /\ status[o] \in Fulfillable
          /\ Goto(w, "lock")
          /\ NoFault
          /\ UNCHANGED <<acked, plan>>
       \/ /\ status[o] \notin Fulfillable
          /\ Return(w, status[o] = "COMPLETED")
          /\ NoFault
       \/ /\ Fault("exec")
          /\ Return(w, FALSE)
    /\ UNCHANGED <<rowVars, effectVars, upstream, gwRefunded>>

LockOrder(w) ==
    /\ pc[w] = "lock"
    /\ LET o == ord[w] IN
       \/ /\ status[o] \in Fulfillable
          /\ SetStatus(o, "RECHARGING")
          /\ Goto(w, IF o \in SubscriptionOrders THEN "assign" ELSE "lookup")
          /\ NoFault
          /\ UNCHANGED <<acked, plan>>
       \/ /\ status[o] \notin Fulfillable
          /\ Return(w, TRUE)
          /\ NoFault
          /\ UNCHANGED status
       \/ /\ Fault("lock")
          /\ \/ CasStatus(o, Fulfillable, "RECHARGING")
             \/ UNCHANGED status
          /\ Return(w, FALSE)
    /\ UNCHANGED <<paidAt, tradeNo, fresh, due, effectVars, upstream,
                   gwRefunded>>

\* Mutant: a code that exists counts as redeemed.
RedeemActionByExistence(o) == IF code[o] = "none" THEN "create" ELSE "rebate"

\* resolveRedeemAction: the step that the state of the code calls for.
RedeemAction(o) ==
    CASE code[o] = "none" -> "create"
      [] code[o] = "unused" -> "redeem"
      [] code[o] = "used" -> "rebate"

\* doBalance: GetByCode; a failed lookup counts as a missing code.
LookupCode(w) ==
    /\ pc[w] = "lookup"
    /\ \/ /\ Goto(w, RedeemAction(ord[w]))
          /\ NoFault
       \/ /\ Fault("lookup")
          /\ Goto(w, "create")
    /\ UNCHANGED <<rowVars, effectVars, providerVars, plan>>

\* The code column is unique: creating it twice is an error.
CreateCode(w) ==
    /\ pc[w] = "create"
    /\ LET o == ord[w]
           created == [code EXCEPT ![o] = "unused"]
       IN
       \/ /\ code[o] = "none"
          /\ code' = created
          /\ Goto(w, "redeem")
          /\ NoFault
       \/ /\ code[o] # "none"
          /\ Goto(w, "markFailed")
          /\ NoFault
          /\ UNCHANGED code
       \/ /\ Fault("create")
          /\ code' \in {code, IF code[o] = "none" THEN created ELSE code}
          /\ Goto(w, "markFailed")
    /\ UNCHANGED <<rowVars, granted, rebated, audit, deducted, providerVars,
                   plan>>

\* Mutant: the balance is credited but the code stays unused.
CreditOnly(o) ==
    /\ granted' = [granted EXCEPT ![o] = @ + 1]
    /\ UNCHANGED code

\* One transaction: the code goes from unused to used and the balance is
\* credited; if the code is no longer unused, Redeem fails.
UseCodeAndCredit(o) ==
    /\ code' = [code EXCEPT ![o] = "used"]
    /\ granted' = [granted EXCEPT ![o] = @ + 1]

Redeem(w) ==
    /\ pc[w] = "redeem"
    /\ \/ /\ code[ord[w]] = "unused"
          /\ UseCodeAndCredit(ord[w])
          /\ Goto(w, "rebate")
          /\ NoFault
       \/ /\ (code[ord[w]] # "unused" /\ NoFault) \/ Fault("redeem")
          /\ \/ (code[ord[w]] = "unused" /\ UseCodeAndCredit(ord[w]))
             \/ UNCHANGED <<code, granted>>
          /\ Goto(w, "markFailed")
    /\ UNCHANGED <<rowVars, rebated, audit, deducted, providerVars, plan>>

\* applyAffiliateRebateForOrder: one transaction claims the rebate in the
\* audit log and accrues it, or records that there is nothing to accrue.
\* Mutant: the claim looks for one of the two audit actions only.
RebateSkippedOnly(o) == "AFFILIATE_REBATE_SKIPPED" \in audit[o]

RebateClaimed(o) == audit[o] \cap RebateDecided # {}

ClaimRebate(o) ==
    IF RebateClaimed(o)
    THEN UNCHANGED <<audit, rebated>>
    ELSE \/ /\ WriteAuditLog(o, "AFFILIATE_REBATE_APPLIED")
            /\ rebated' = [rebated EXCEPT ![o] = @ + 1]
         \/ /\ WriteAuditLog(o, "AFFILIATE_REBATE_SKIPPED")
            /\ UNCHANGED rebated

ApplyAffiliateRebate(w) ==
    /\ pc[w] = "rebate"
    /\ \/ /\ ClaimRebate(ord[w])
          /\ Goto(w, "complete")
          /\ NoFault
       \/ /\ Fault("rebate")
          /\ \/ ClaimRebate(ord[w])
             \/ UNCHANGED <<audit, rebated>>
          /\ Goto(w, "markFailed")
    /\ UNCHANGED <<rowVars, code, granted, deducted, providerVars, plan>>

\* doSub: the group must still be active; the audit log is meant to tell
\* that the term was already extended, but hasAuditLog reports a failed
\* lookup as a missing entry ("auditRead").
AssignSubscription(w) ==
    /\ pc[w] = "assign"
    /\ LET o == ord[w]
           assigned == [granted EXCEPT ![o] = @ + 1]
       IN
       \/ /\ granted' = IF "SUBSCRIPTION_SUCCESS" \in audit[o]
                        THEN granted ELSE assigned
          /\ Goto(w, "complete")
          /\ NoFault
       \/ /\ Fault("auditRead")
          /\ granted' = assigned
          /\ Goto(w, "complete")
       \/ /\ Fault("assign")
          /\ granted' \in {granted, assigned}
          /\ Goto(w, "markFailed")
    /\ UNCHANGED <<rowVars, code, rebated, audit, deducted, providerVars, plan>>

\* The audit entry is written only after the status update succeeded.
MarkCompleted(w) ==
    /\ pc[w] = "complete"
    /\ LET o == ord[w] IN
       \/ /\ CasStatus(o, {"RECHARGING"}, "COMPLETED")
          /\ \/ /\ IF o \in SubscriptionOrders
                   THEN WriteAuditLog(o, "SUBSCRIPTION_SUCCESS")
                   ELSE UNCHANGED audit
                /\ NoFault
             \/ Fault("auditWrite") /\ UNCHANGED audit
          /\ Return(w, TRUE)
       \/ /\ Fault("complete")
          /\ \/ CasStatus(o, {"RECHARGING"}, "COMPLETED")
             \/ UNCHANGED status
          /\ Goto(w, "markFailed")
          /\ UNCHANGED <<audit, acked, plan>>
    /\ UNCHANGED <<paidAt, tradeNo, fresh, due, code, granted, rebated,
                   deducted, upstream, gwRefunded>>

MarkFailed(w) ==
    /\ pc[w] = "markFailed"
    /\ \/ /\ CasStatus(ord[w], {"RECHARGING"}, "FAILED")
          /\ NoFault
       \/ /\ Fault("markFailed")
          /\ UNCHANGED status
    /\ Return(w, FALSE)
    /\ UNCHANGED <<paidAt, tradeNo, fresh, due, effectVars, upstream,
                   gwRefunded>>

-----------------------------------------------------------------------------
(* RetryFulfillment, by an administrator.                                  *)

RetryFulfillment(w, o) ==
    /\ paidAt[o]
    /\ status[o] \in {"FAILED", "PAID"}
    /\ Begin(w, o, "admin", "reset")
    /\ UNCHANGED <<rowVars, effectVars, providerVars, plan, faults>>

\* The number of rows updated is not looked at.
ResetForRetry(w) ==
    /\ pc[w] = "reset"
    /\ \/ /\ CasStatus(ord[w], {"FAILED", "PAID"}, "PAID")
          /\ Goto(w, "exec")
          /\ NoFault
          /\ UNCHANGED plan
       \/ /\ Fault("reset")
          /\ \/ CasStatus(ord[w], {"FAILED", "PAID"}, "PAID")
             \/ UNCHANGED status
          /\ Finish(w)
    /\ UNCHANGED <<paidAt, tradeNo, fresh, due, effectVars, providerVars>>

-----------------------------------------------------------------------------
Notification(w) == ConfirmPayment(w) \/ ToPaid(w) \/ AlreadyProcessed(w)

Fulfillment(w) ==
    \/ ExecuteFulfillment(w) \/ LockOrder(w)
    \/ LookupCode(w) \/ CreateCode(w) \/ Redeem(w)
    \/ ApplyAffiliateRebate(w) \/ AssignSubscription(w)
    \/ MarkCompleted(w) \/ MarkFailed(w)
=============================================================================
