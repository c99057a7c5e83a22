------------------------- MODULE PaymentTypeProofs --------------------------
(***************************************************************************)
(* Type correctness of PaymentService, for any number of orders and        *)
(* workers, any set of failures and any number of them; and the frame of   *)
(* the handlers' steps: which of them write what.                          *)
(***************************************************************************)
EXTENDS PaymentService, TLAPS

-----------------------------------------------------------------------------
(* Which steps write what.                                                 *)

\* A step that moves on within its handler, or ends it.
Moves(w) ==
    \/ Finish(w)
    \/ \E s \in Steps : Goto(w, s) /\ UNCHANGED plan
    \/ \E s \in Steps : Goto(w, s) /\ Carry(w, "empty")

\* The steps of the handlers that write the payment_orders row, the effects
\* of fulfilment and refund, and what the provider knows.
WritesRow(w) ==
    \/ ToPaid(w) \/ LockOrder(w) \/ MarkCompleted(w) \/ MarkFailed(w)
    \/ ResetForRetry(w)
    \/ InsertOrder(w) \/ InvokeProvider(w) \/ CheckPaid(w) \/ CancelCore(w)
    \/ SaveRefundRequest(w) \/ LockRefund(w) \/ RestoreStatus(w)
    \/ MarkRefundFailed(w) \/ MarkRefundOk(w)

WritesEffects(w) ==
    \/ AlreadyProcessed(w) \/ CreateCode(w) \/ Redeem(w)
    \/ ApplyAffiliateRebate(w) \/ AssignSubscription(w) \/ MarkCompleted(w)
    \/ Deduct(w) \/ RefundAtGateway(w) \/ RollbackRefund(w)

WritesProvider(w) ==
    \/ Notification(w) \/ ExecuteFulfillment(w) \/ LockOrder(w)
    \/ MarkCompleted(w) \/ MarkFailed(w)
    \/ InvokeProvider(w) \/ CheckPaid(w) \/ RefundAtGateway(w)

\* Starting a handler only moves the worker.
LEMMA StartFrame ==
  ASSUME NEW w \in Workers, Start(w)
  PROVE  UNCHANGED <<rowVars, effectVars, providerVars, faults>>
  BY DEF Start, Deliver, DeliverMismatch, CancelOrder, ExpireTimedOutOrder,
     VerifyOrder, ReconcilePendingOrder, RetryFulfillment, RequestRefund,
     PrepareRefund, CheckPendingLimit

\* So does a crash.
LEMMA CrashFrame ==
  ASSUME NEW w \in Workers, Crash(w)
  PROVE  UNCHANGED <<rowVars, effectVars, providerVars>>
  BY DEF Crash

\* No other step of a handler writes the row.
LEMMA RowFrame ==
  ASSUME NEW w \in Workers, Step(w), ~WritesRow(w)
  PROVE  UNCHANGED rowVars
  <1>1. CASE Notification(w) \/ Fulfillment(w) \/ ResetForRetry(w)
    BY <1>1 DEF WritesRow, Notification, Fulfillment, ConfirmPayment,
       AlreadyProcessed, ExecuteFulfillment, LookupCode, CreateCode, Redeem,
       ApplyAffiliateRebate, AssignSubscription
  <1>2. CASE Lifecycle(w) \/ Refund(w)
    BY <1>2 DEF WritesRow, Lifecycle, InsertNothing, Refund, Deduct,
       RefundAtGateway, RollbackRefund
  <1> QED
    BY <1>1, <1>2 DEF Step

\* Nor the effects.
LEMMA EffectFrame ==
  ASSUME NEW w \in Workers, Step(w), ~WritesEffects(w)
  PROVE  UNCHANGED effectVars
  <1>1. CASE Notification(w) \/ Fulfillment(w) \/ ResetForRetry(w)
    BY <1>1 DEF WritesEffects, Notification, Fulfillment, ConfirmPayment,
       ToPaid, ExecuteFulfillment, LockOrder, LookupCode, MarkFailed,
       ResetForRetry
  <1>2. CASE Lifecycle(w) \/ Refund(w)
    BY <1>2 DEF WritesEffects, Lifecycle, InsertOrder, InsertNothing,
       InvokeProvider, CheckPaid, CancelCore, Refund, SaveRefundRequest,
       LockRefund, RestoreStatus, MarkRefundFailed, MarkRefundOk
  <1> QED
    BY <1>1, <1>2 DEF Step

\* Nor the provider.
LEMMA ProviderFrame ==
  ASSUME NEW w \in Workers, Step(w), ~WritesProvider(w)
  PROVE  UNCHANGED providerVars
  <1>1. CASE Notification(w) \/ Fulfillment(w) \/ ResetForRetry(w)
    BY <1>1 DEF WritesProvider, Fulfillment, LookupCode, CreateCode, Redeem,
       ApplyAffiliateRebate, AssignSubscription, ResetForRetry
  <1>2. CASE Lifecycle(w) \/ Refund(w)
    BY <1>2 DEF WritesProvider, Lifecycle, InsertOrder, InsertNothing,
       CancelCore, Refund, SaveRefundRequest, LockRefund, Deduct,
       RollbackRefund, RestoreStatus, MarkRefundFailed, MarkRefundOk
  <1> QED
    BY <1>1, <1>2 DEF Step

-----------------------------------------------------------------------------
(* Type correctness.                                                       *)

\* The plan of a worker that has none is a plan.
LEMMA NoPlanTyped == NoPlan \in Plans
  BY BoundsAssumption DEF NoPlan, Plans, Statuses, UnpaidStatuses, TradeNos

\* A number that a handler reads, is told or reports is a trade number.
LEMMA NumbersTyped ==
  ASSUME NEW o \in Orders
  PROVE  /\ NotifiedNumbers(o) \subseteq TradeNos
         /\ CreatedNumbers(o) \subseteq TradeNos
         /\ ReportedNumbers(o) \subseteq TradeNos
  BY DEF NotifiedNumbers, CreatedNumbers, ReportedNumbers, TradeNos

\* Carrying one keeps the plans typed.
LEMMA CarryTyped ==
  ASSUME plan \in [Workers -> Plans], NEW w \in Workers,
         NEW n \in TradeNos, Carry(w, n)
  PROVE  plan' \in [Workers -> Plans]
  BY DEF Carry, Plans

\* The steps that the handlers name are steps.
LEMMA StepsTyped ==
    {"idle", "insert", "invoke", "confirm", "query", "cas", "request",
     "refundLock", "toPaid", "already", "exec", "lock", "reset", "lookup",
     "create", "redeem", "assign", "rebate", "complete", "markFailed",
     "deduct", "gateway", "rollback", "restore", "refundFailed", "refundOk"}
    \subseteq Steps
  BY DEF Steps, PaidSteps, FulfillSection, RefundSection

\* Every step of a handler keeps the row typed.
LEMMA RowStep ==
  ASSUME TypeOK, NEW w \in Workers, Step(w)
  PROVE  RowOK'
  <1> USE DEF TypeOK, RowOK, WorkerOK
  <1>1. CASE ~WritesRow(w)
    BY <1>1, RowFrame DEF rowVars
  <1>2. CASE ToPaid(w)
    <2>1. ord[w] \in Orders /\ plan[w].number \in TradeNos
      BY <1>2 DEF ToPaid, Plans
    <2> QED
      BY <1>2, <2>1 DEF ToPaid, MarkPaid, Statuses
  <1>3. CASE LockOrder(w)
    BY <1>3 DEF LockOrder, SetStatus, CasStatus, Statuses
  <1>4. CASE MarkCompleted(w)
    BY <1>4 DEF MarkCompleted, CasStatus, Statuses, Settled
  <1>5. CASE MarkFailed(w)
    BY <1>5 DEF MarkFailed, CasStatus, Statuses, UnpaidStatuses
  <1>6. CASE ResetForRetry(w)
    BY <1>6 DEF ResetForRetry, CasStatus, Statuses
  <1>7. CASE InsertOrder(w)
    BY <1>7 DEF InsertOrder, SetStatus, Statuses, UnpaidStatuses
  <1>8. CASE InvokeProvider(w)
    <2>1. ord[w] \in Orders /\ CreatedNumbers(ord[w]) \subseteq TradeNos
      BY <1>8, NumbersTyped DEF InvokeProvider
    <2> QED
      BY <1>8, <2>1 DEF InvokeProvider, SetStatus, Statuses, UnpaidStatuses
  <1>9. CASE CheckPaid(w)
    <2>1. ord[w] \in Orders /\ ReportedNumbers(ord[w]) \subseteq TradeNos
      BY <1>9, NumbersTyped DEF CheckPaid
    <2>2. UNCHANGED <<status, paidAt, due>>
      BY <1>9 DEF CheckPaid
    <2>3. \/ UNCHANGED <<tradeNo, fresh>>
          \/ \E n \in TradeNos : /\ tradeNo' = [tradeNo EXCEPT ![ord[w]] = n]
                                /\ fresh' = [fresh EXCEPT ![ord[w]] = TRUE]
      BY <1>9, <2>1 DEF CheckPaid
    <2> QED
      BY <2>1, <2>2, <2>3
  <1>10. CASE CancelCore(w)
    BY <1>10 DEF CancelCore, CasStatus, Statuses, UnpaidStatuses
  <1>11. CASE SaveRefundRequest(w)
    BY <1>11 DEF SaveRefundRequest, CasStatus, Statuses, Settled,
       RefundStatuses
  <1>12. CASE LockRefund(w)
    BY <1>12 DEF LockRefund, SetStatus, CasStatus, Statuses, Settled,
       RefundStatuses
  <1>13. CASE RestoreStatus(w)
    BY <1>13 DEF RestoreStatus, SetStatus, Restored, Statuses, Settled,
       RefundStatuses
  <1>14. CASE MarkRefundFailed(w)
    BY <1>14 DEF MarkRefundFailed, SetStatus, Statuses, Settled,
       RefundStatuses
  <1>15. CASE MarkRefundOk(w)
    BY <1>15 DEF MarkRefundOk, SetStatus, RefundStatus, Statuses, Settled,
       RefundStatuses
  <1> QED
    BY <1>1, <1>2, <1>3, <1>4, <1>5, <1>6, <1>7, <1>8, <1>9, <1>10, <1>11,
       <1>12, <1>13, <1>14, <1>15 DEF WritesRow

\* And the effects.
LEMMA EffectStep ==
  ASSUME TypeOK, NEW w \in Workers, Step(w)
  PROVE  EffectOK'
  <1> USE DEF TypeOK, EffectOK, WorkerOK
  <1>1. CASE ~WritesEffects(w)
    BY <1>1, EffectFrame DEF effectVars
  <1>2. CASE AlreadyProcessed(w)
    BY <1>2 DEF AlreadyProcessed, Return, WriteAuditLog, AuditActions
  <1>3. CASE CreateCode(w)
    BY <1>3 DEF CreateCode
  <1>4. CASE Redeem(w)
    BY <1>4 DEF Redeem, UseCodeAndCredit
  <1>5. CASE ApplyAffiliateRebate(w)
    BY <1>5 DEF ApplyAffiliateRebate, ClaimRebate, WriteAuditLog,
       AuditActions
  <1>6. CASE AssignSubscription(w)
    BY <1>6 DEF AssignSubscription
  <1>7. CASE MarkCompleted(w)
    BY <1>7 DEF MarkCompleted, Return, CasStatus, WriteAuditLog,
       AuditActions
  <1>8. CASE Deduct(w)
    BY <1>8 DEF Deduct, Goto, AlreadyDeducted, Plans
  <1>9. CASE RollbackRefund(w)
    BY <1>9 DEF RollbackRefund, GiveBack, WriteAuditLog, AuditActions, Plans
  <1>10. CASE RefundAtGateway(w)
    BY <1>10 DEF RefundAtGateway, WriteAuditLog, AuditActions
  <1> QED
    BY <1>1, <1>2, <1>3, <1>4, <1>5, <1>6, <1>7, <1>8, <1>9, <1>10
       DEF WritesEffects

\* And what the provider knows.
LEMMA ProviderStep ==
  ASSUME TypeOK, NEW w \in Workers, Step(w)
  PROVE  ProviderOK'
  <1> USE DEF TypeOK, ProviderOK, WorkerOK
  <1>1. CASE ~WritesProvider(w)
    BY <1>1, ProviderFrame DEF providerVars
  <1>2. CASE ConfirmPayment(w)
    BY <1>2 DEF ConfirmPayment, Return
  <1>3. CASE ToPaid(w)
    BY <1>3 DEF ToPaid, Return
  <1>4. CASE AlreadyProcessed(w)
    BY <1>4 DEF AlreadyProcessed, Return
  <1>5. CASE ExecuteFulfillment(w)
    BY <1>5 DEF ExecuteFulfillment, Return
  <1>6. CASE LockOrder(w)
    BY <1>6 DEF LockOrder, Return
  <1>7. CASE MarkCompleted(w)
    BY <1>7 DEF MarkCompleted, Return
  <1>8. CASE MarkFailed(w)
    BY <1>8 DEF MarkFailed, Return
  <1>9. CASE InvokeProvider(w)
    BY <1>9 DEF InvokeProvider
  <1>10. CASE CheckPaid(w)
    BY <1>10 DEF CheckPaid
  <1>11. CASE RefundAtGateway(w)
    BY <1>11, BoundsAssumption DEF RefundAtGateway, Plans
  <1> QED
    BY <1>1, <1>2, <1>3, <1>4, <1>5, <1>6, <1>7, <1>8, <1>9, <1>10, <1>11
       DEF WritesProvider, Notification

\* The two ways in which a handler moves its worker keep the worker typed.
LEMMA MovesTyped ==
  ASSUME WorkerOK, NEW w \in Workers, Moves(w), pc[w] \notin {"idle", "insert"}
  PROVE  WorkerOK'
  <1>1. CASE Finish(w)
    BY <1>1, NoPlanTyped, StepsTyped DEF WorkerOK, Finish, Sources
  <1>2. CASE \E s \in Steps : Goto(w, s) /\ UNCHANGED plan
    BY <1>2 DEF WorkerOK, Goto
  <1>3. CASE \E s \in Steps : Goto(w, s) /\ Carry(w, "empty")
    <2>1. plan' \in [Workers -> Plans]
      BY <1>3, CarryTyped DEF WorkerOK, TradeNos
    <2> QED
      BY <1>3, <2>1 DEF WorkerOK, Goto
  <1> QED
    BY <1>1, <1>2, <1>3 DEF Moves

\* Most steps just move their worker.
LEMMA HandlersMove ==
  ASSUME TypeOK, NEW w \in Workers,
         Notification(w) \/ Fulfillment(w) \/ ResetForRetry(w)
  PROVE  Moves(w) /\ pc[w] \notin {"idle", "insert"}
  <1> USE StepsTyped DEF Moves, Return
  <1>1. CASE ConfirmPayment(w)
    BY <1>1 DEF ConfirmPayment
  <1>2. CASE ToPaid(w)
    BY <1>2 DEF ToPaid
  <1>3. CASE AlreadyProcessed(w)
    BY <1>3 DEF AlreadyProcessed
  <1>4. CASE ExecuteFulfillment(w)
    BY <1>4 DEF ExecuteFulfillment
  <1>5. CASE LockOrder(w)
    BY <1>5 DEF LockOrder
  <1>6. CASE LookupCode(w)
    BY <1>6 DEF LookupCode, RedeemAction, TypeOK, EffectOK, WorkerOK
  <1>7. CASE CreateCode(w) \/ Redeem(w)
    BY <1>7 DEF CreateCode, Redeem
  <1>8. CASE ApplyAffiliateRebate(w) \/ AssignSubscription(w)
    BY <1>8 DEF ApplyAffiliateRebate, AssignSubscription
  <1>9. CASE MarkCompleted(w) \/ MarkFailed(w)
    BY <1>9 DEF MarkCompleted, MarkFailed
  <1>10. CASE ResetForRetry(w)
    BY <1>10 DEF ResetForRetry
  <1> QED
    BY <1>1, <1>2, <1>3, <1>4, <1>5, <1>6, <1>7, <1>8, <1>9, <1>10
       DEF Notification, Fulfillment

\* Every step of a handler keeps the workers typed.
LEMMA WorkerStep ==
  ASSUME TypeOK, NEW w \in Workers, Step(w)
  PROVE  WorkerOK'
  <1>1. CASE Notification(w) \/ Fulfillment(w) \/ ResetForRetry(w)
    BY <1>1, HandlersMove, MovesTyped DEF TypeOK
  <1>2. CASE InsertOrder(w)
    BY <1>2, StepsTyped DEF InsertOrder, TypeOK, WorkerOK
  <1>3. CASE InsertNothing(w)
    BY <1>3, NoPlanTyped, StepsTyped
       DEF InsertNothing, Finish, TypeOK, WorkerOK, Sources
  <1>4. CASE InvokeProvider(w) \/ CancelCore(w)
    BY <1>4, MovesTyped DEF InvokeProvider, CancelCore, Moves, TypeOK
  <1>5. CASE CheckPaid(w)
    <2>1. \/ Moves(w)
          \/ /\ pc' = [pc EXCEPT ![w] = "confirm"]
             /\ src' = [src EXCEPT ![w] = "check"]
             /\ UNCHANGED ord
             /\ UNCHANGED plan \/ \E n \in TradeNos : Carry(w, n)
      <3>1. ord[w] \in Orders
        BY <1>5 DEF CheckPaid, TypeOK, WorkerOK
      <3> QED
        BY <1>5, <3>1, StepsTyped, NumbersTyped DEF CheckPaid, NotPaid, Moves
    <2>2. pc[w] \notin {"idle", "insert"}
      BY <1>5 DEF CheckPaid
    <2>3. CASE Moves(w)
      BY <2>2, <2>3, MovesTyped DEF TypeOK
    <2>4. CASE ~Moves(w)
      <3>1. plan' \in [Workers -> Plans]
        BY <2>1, <2>4, CarryTyped DEF TypeOK, WorkerOK
      <3> QED
        BY <2>1, <2>2, <2>4, <3>1, StepsTyped DEF TypeOK, WorkerOK, Sources
    <2> QED
      BY <2>3, <2>4
  <1>6. CASE SaveRefundRequest(w) \/ LockRefund(w)
    BY <1>6, MovesTyped, StepsTyped
       DEF SaveRefundRequest, LockRefund, Moves, TypeOK
  <1>7. CASE Deduct(w)
    <2>1. plan' \in [Workers -> Plans]
      BY <1>7, BoundsAssumption DEF Deduct, Goto, AlreadyDeducted, Plans,
         TypeOK, WorkerOK
    <2>2. Goto(w, "gateway") \/ Goto(w, "restore")
      BY <1>7 DEF Deduct
    <2>3. ord[w] \in Orders
      BY <1>7 DEF Deduct, TypeOK, WorkerOK
    <2> QED
      BY <2>1, <2>2, <2>3, StepsTyped DEF Goto, TypeOK, WorkerOK
  <1>8. CASE RefundAtGateway(w) \/ RollbackRefund(w)
    BY <1>8, MovesTyped, StepsTyped
       DEF RefundAtGateway, RollbackRefund, Moves, TypeOK
  <1>9. CASE RestoreStatus(w) \/ MarkRefundFailed(w) \/ MarkRefundOk(w)
    BY <1>9, MovesTyped
       DEF RestoreStatus, MarkRefundFailed, MarkRefundOk, Moves, TypeOK
  <1> QED
    BY <1>1, <1>2, <1>3, <1>4, <1>5, <1>6, <1>7, <1>8, <1>9
       DEF Step, Lifecycle, Refund

\* A handler that starts has an order, unless it is to create one.
LEMMA StartTyped ==
  ASSUME TypeOK, NEW w \in Workers, Start(w)
  PROVE  WorkerOK'
  <1> USE StepsTyped DEF TypeOK, WorkerOK, Begin, Sources
  <1>1. CASE CheckPendingLimit(w)
    BY <1>1 DEF CheckPendingLimit
  <1>2. ASSUME NEW o \in Orders, PrepareRefund(w, o)
        PROVE  WorkerOK'
    BY <1>2, BoundsAssumption
       DEF PrepareRefund, Deductions, Plans, RowOK
  <1>3. ASSUME NEW o \in Orders,
               \/ Deliver(w, o) \/ DeliverMismatch(w, o)
               \/ CancelOrder(w, o) \/ ExpireTimedOutOrder(w, o)
               \/ VerifyOrder(w, o) \/ ReconcilePendingOrder(w, o)
               \/ RetryFulfillment(w, o) \/ RequestRefund(w, o)
        PROVE  WorkerOK'
    <2>1. \E r \in Sources, s \in Steps : Begin(w, o, r, s)
      BY <1>3 DEF Deliver, DeliverMismatch, CancelOrder, ExpireTimedOutOrder,
         VerifyOrder, ReconcilePendingOrder, RetryFulfillment, RequestRefund
    <2>2. UNCHANGED plan \/ \E n \in TradeNos : Carry(w, n)
      <3>1. tradeNo[o] \in TradeNos /\ NotifiedNumbers(o) \subseteq TradeNos
        BY NumbersTyped DEF RowOK
      <3> HIDE DEF Begin, TypeOK, WorkerOK, Sources
      <3> QED
        BY <1>3, <3>1 DEF Deliver, DeliverMismatch, CancelOrder,
           ExpireTimedOutOrder, VerifyOrder, ReconcilePendingOrder,
           RetryFulfillment, RequestRefund
    <2>3. plan' \in [Workers -> Plans]
      <3> HIDE DEF Begin, Sources
      <3> QED
        BY <2>2, CarryTyped
    <2> HIDE DEF Sources
    <2> QED
      BY <2>1, <2>3
  <1> QED
    BY <1>1, <1>2, <1>3 DEF Start

\* The count of failures is a number.
LEMMA FaultStep ==
  ASSUME TypeOK, NEW w \in Workers, Step(w)
  PROVE  faults' \in Nat
  <1> USE DEF TypeOK, Fault, NoFault
  <1>1. CASE Notification(w) \/ ResetForRetry(w)
    BY <1>1 DEF Notification, ConfirmPayment, ToPaid, AlreadyProcessed,
       ResetForRetry, Return
  <1>2. CASE Fulfillment(w)
    BY <1>2 DEF Fulfillment, ExecuteFulfillment, LockOrder, LookupCode,
       CreateCode, Redeem, ApplyAffiliateRebate, AssignSubscription,
       MarkCompleted, MarkFailed, Return
  <1>3. CASE Lifecycle(w)
    BY <1>3 DEF Lifecycle, InsertOrder, InsertNothing, InvokeProvider,
       CheckPaid, NotPaid, CancelCore
  <1>4. CASE Refund(w)
    BY <1>4 DEF Refund, SaveRefundRequest, LockRefund, Deduct, Goto,
       AlreadyDeducted, LookupMisses, RefundAtGateway, RollbackRefund, RestoreStatus,
       MarkRefundFailed, MarkRefundOk
  <1> QED
    BY <1>1, <1>2, <1>3, <1>4 DEF Step

\* The initial state is typed.
LEMMA TypeInit == PaymentInit => TypeOK
  BY NoPlanTyped, StepsTyped
     DEF PaymentInit, TypeOK, RowOK, EffectOK, ProviderOK, WorkerOK,
         Statuses, UnpaidStatuses, Sources, TradeNos

\* Type correctness: every variable stays in its type and every busy worker
\* has an order, whatever the handlers and the failures do.
THEOREM TypeCorrect == Spec => []TypeOK
  <1>1. PaymentInit => TypeOK
    BY TypeInit
  <1>2. TypeOK /\ [Next]_vars => TypeOK'
    <2> SUFFICES ASSUME TypeOK, [Next]_vars PROVE TypeOK'
      OBVIOUS
    <2>1. ASSUME NEW w \in Workers, Start(w) PROVE TypeOK'
      BY <2>1, StartFrame, StartTyped DEF TypeOK, RowOK, EffectOK,
         ProviderOK, rowVars, effectVars, providerVars
    <2>2. ASSUME NEW w \in Workers, Step(w) PROVE TypeOK'
      BY <2>2, RowStep, EffectStep, ProviderStep, WorkerStep, FaultStep
         DEF TypeOK
    <2>3. ASSUME NEW w \in Workers, Crash(w) PROVE TypeOK'
      <3>1. WorkerOK'
        BY <2>3, NoPlanTyped, StepsTyped
           DEF Crash, Finish, TypeOK, WorkerOK, Sources
      <3> QED
        BY <2>3, <3>1 DEF Crash, Fault, TypeOK, RowOK, EffectOK, ProviderOK,
           rowVars, effectVars, providerVars
    <2>4. ASSUME NEW o \in Orders, Environment(o) PROVE TypeOK'
      BY <2>4 DEF Environment, UserPays, OrderTimesOut, GraceElapses,
         TypeOK, RowOK, EffectOK, ProviderOK, WorkerOK, rowVars, effectVars,
         providerVars, workerVars
    <2>5. CASE UNCHANGED vars
      BY <2>5 DEF TypeOK, RowOK, EffectOK, ProviderOK, WorkerOK, vars,
         rowVars, effectVars, providerVars, workerVars
    <2> QED
      BY <2>1, <2>2, <2>3, <2>4, <2>5 DEF Next
  <1> QED
    BY <1>1, <1>2, PTL DEF Spec
=============================================================================
