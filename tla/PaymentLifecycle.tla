-------------------------- MODULE PaymentLifecycle --------------------------
(***************************************************************************)
(* payment_order.go and payment_order_lifecycle.go: creating an order,     *)
(* cancelling and expiring it, and asking the provider whether it was paid *)
(* when a notification may have been missed.                               *)
(***************************************************************************)
EXTENDS PaymentOrder

(* CreateOrder.                                                            *)

PendingOrders == {o \in Orders : status[o] = "PENDING"}

\* checkPendingLimit counts in the transaction that inserts, but at the
\* default isolation level another transaction can insert in between.
CheckPendingLimit(w) ==
    /\ Cardinality(PendingOrders) < MaxPending
    /\ Begin(w, NoOrder, "user", "insert")
    /\ UNCHANGED <<rowVars, effectVars, providerVars, plan, faults>>

InsertOrder(w) ==
    /\ pc[w] = "insert"
    /\ \E o \in Orders :
         /\ status[o] = "NONE"
         /\ SetStatus(o, "PENDING")
         /\ pc' = [pc EXCEPT ![w] = "invoke"]
         /\ ord' = [ord EXCEPT ![w] = o]
    /\ UNCHANGED <<paidAt, tradeNo, fresh, due, effectVars, providerVars,
                   src, plan, faults>>

\* No row is left to insert: the model's bound on orders, not the code's.
InsertNothing(w) ==
    /\ pc[w] = "insert"
    /\ \A o \in Orders : status[o] # "NONE"
    /\ Finish(w)
    /\ UNCHANGED <<rowVars, effectVars, providerVars, faults>>

\* The number CreatePayment returns: alipay and wxpay return the
\* out_trade_no, easypay what its API answered, or nothing.
CreatedNumbers(o) == IF o \in OutTradeNoOrders THEN TradeNos ELSE {"own"}

\* invokeProvider.  Only on success does the customer get a way to pay; on
\* any error the row becomes FAILED whatever its status has become.
InvokeProvider(w) ==
    /\ pc[w] = "invoke"
    /\ LET o == ord[w] IN
       \/ /\ upstream' = [upstream EXCEPT ![o] = "open"]
          /\ \E number \in CreatedNumbers(o) :
               tradeNo' = IF number = "empty" THEN tradeNo
                          ELSE [tradeNo EXCEPT ![o] = number]
          /\ fresh' = [fresh EXCEPT ![o] = TRUE]
          /\ NoFault
          /\ UNCHANGED status
       \/ /\ SetStatus(o, "FAILED")
          /\ fresh' = [fresh EXCEPT ![o] = TRUE]
          /\ NoFault
          /\ UNCHANGED <<upstream, tradeNo>>
       \/ /\ Fault("invoke")
          /\ UNCHANGED <<status, upstream, tradeNo, fresh>>
    /\ Finish(w)
    /\ UNCHANGED <<paidAt, due, effectVars, acked, gwRefunded>>

OrderTimesOut(o) ==
    /\ status[o] = "PENDING" /\ ~due[o]
    /\ due' = [due EXCEPT ![o] = TRUE]
    /\ UNCHANGED <<status, paidAt, tradeNo, fresh, effectVars, providerVars,
                   workerVars, faults>>

-----------------------------------------------------------------------------
(* Cancel, expire, verify: each reads the row, with the trade number in    *)
(* it, then asks the provider.                                             *)

CancelOrder(w, o) ==
    /\ status[o] = "PENDING"
    /\ Begin(w, o, "cancel", "query")
    /\ Carry(w, tradeNo[o])
    /\ UNCHANGED <<rowVars, effectVars, providerVars, faults>>

\* One iteration of ExpireTimedOutOrders.
ExpireTimedOutOrder(w, o) ==
    /\ status[o] = "PENDING" /\ due[o]
    /\ Begin(w, o, "expire", "query")
    /\ Carry(w, tradeNo[o])
    /\ UNCHANGED <<rowVars, effectVars, providerVars, faults>>

VerifyOrder(w, o) ==
    /\ status[o] \in {"PENDING", "EXPIRED"}
    /\ Begin(w, o, "verify", "query")
    /\ Carry(w, tradeNo[o])
    /\ UNCHANGED <<rowVars, effectVars, providerVars, faults>>

\* One iteration of ReconcilePendingWxpayOrders.
ReconcilePendingOrder(w, o) ==
    /\ o \in OutTradeNoOrders
    /\ status[o] = "PENDING" /\ ~due[o]
    /\ Begin(w, o, "verify", "query")
    /\ Carry(w, tradeNo[o])
    /\ UNCHANGED <<rowVars, effectVars, providerVars, faults>>

\* cancelCore goes on to the status update, reconcilePaid just returns.
NotPaid(w) ==
    IF src[w] = "verify"
    THEN Finish(w)
    ELSE Goto(w, "cas") /\ Carry(w, "empty")

\* The number QueryOrder reports with a payment: easypay's answer may lack
\* it and then repeats the out_trade_no it was asked with.
ReportedNumbers(o) == IF o \in OutTradeNoOrders THEN {"out", "own"} ELSE {"own"}

\* paymentOrderShouldPersistUpstreamTradeNo: a number that is neither the
\* one the row held when it was read nor the one the query was made with.
ShouldPersist(reported, read) == reported = "own" /\ read # "own"

\* checkPaidWithOptions.  A payment found at the provider is handled like a
\* notification, after its trade number was saved (which refreshes
\* updated_at, and may fail) or else with the number that was read; an
\* unpaid one is closed at the provider if that is possible.
CheckPaid(w) ==
    /\ pc[w] = "query"
    /\ LET o == ord[w] IN
       \/ /\ upstream[o] = "paid"
          /\ \E reported \in ReportedNumbers(o) :
               \/ /\ ShouldPersist(reported, plan[w].number)
                  /\ \/ /\ tradeNo' = [tradeNo EXCEPT ![o] = reported]
                        /\ fresh' = [fresh EXCEPT ![o] = TRUE]
                        /\ NoFault
                     \/ Fault("tradeNo") /\ UNCHANGED <<tradeNo, fresh>>
                  /\ Carry(w, reported)
               \/ /\ ~ShouldPersist(reported, plan[w].number)
                  /\ NoFault
                  /\ UNCHANGED <<tradeNo, fresh, plan>>
          /\ pc' = [pc EXCEPT ![w] = "confirm"]
          /\ src' = [src EXCEPT ![w] = "check"]
          /\ UNCHANGED <<upstream, ord>>
       \/ /\ upstream[o] # "paid"
          /\ \/ UNCHANGED upstream
             \/ /\ upstream[o] = "open" /\ src[w] # "verify"
                /\ upstream' = [upstream EXCEPT ![o] = "closed"]
          /\ NotPaid(w)
          /\ NoFault
          /\ UNCHANGED <<tradeNo, fresh>>
       \/ /\ Fault("query")
          /\ NotPaid(w)
          /\ UNCHANGED <<upstream, tradeNo, fresh>>
    /\ UNCHANGED <<status, paidAt, due, effectVars, acked, gwRefunded>>

\* The end of cancelCore.
CancelCore(w) ==
    /\ pc[w] = "cas"
    /\ LET o == ord[w]
           final == IF src[w] = "expire" THEN "EXPIRED" ELSE "CANCELLED"
       IN
       /\ \/ /\ CasStatus(o, {"PENDING"}, final)
             /\ NoFault
          \/ /\ Fault("cas")
             /\ UNCHANGED status
       /\ Finish(w)
    /\ UNCHANGED <<paidAt, tradeNo, fresh, due, effectVars, providerVars>>

-----------------------------------------------------------------------------
Lifecycle(w) ==
    \/ InsertOrder(w) \/ InsertNothing(w) \/ InvokeProvider(w)
    \/ CheckPaid(w) \/ CancelCore(w)
=============================================================================
