------------------------- MODULE PaymentOrderProofs -------------------------
(***************************************************************************)
(* That an order is worked on only after it was paid, by one fulfiller and *)
(* one refunder at a time, and that its status follows its state machine.  *)
(* The inductive invariant comes in two layers: MoneyFirst, and on top of  *)
(* it Locks.                                                               *)
(***************************************************************************)
EXTENDS PaymentTypeProofs

-----------------------------------------------------------------------------
(* Money first: what is done for an order is done after it was paid.       *)

\* As long as the provider has not taken the money, no handler has got past
\* confirmPayment: the row, the code and the ledger are untouched.
UnpaidIsUntouched ==
    \A o \in Orders : upstream[o] # "paid" =>
        /\ status[o] \in UnpaidStatuses
        /\ ~paidAt[o]
        /\ code[o] = "none"
        /\ granted[o] = 0
        /\ gwRefunded[o] = 0

\* A worker beyond confirmPayment works on an order that was paid.
WorkIsPaidFor ==
    \A w \in Workers :
        \/ pc[w] \in PaidSteps
        \/ pc[w] = "confirm" /\ src[w] # "mismatch"
        => upstream[ord[w]] = "paid"

\* While CreateOrder waits for the provider nobody else can have created
\* the payment, so a failed invokeProvider cannot overwrite a paid order.
CreationIsPrivate ==
    /\ \A o \in Orders : status[o] = "NONE" => upstream[o] = "none"
    /\ \A w \in Workers : pc[w] = "invoke" =>
          /\ status[ord[w]] # "NONE"
          /\ upstream[ord[w]] = "none"
          /\ \A v \in Workers : v # w /\ pc[v] = "invoke" => ord[v] # ord[w]

\* A handler does not touch the other workers.
LEMMA OthersStay ==
  ASSUME TypeOK, NEW w \in Workers, Start(w) \/ Step(w) \/ Crash(w),
         NEW v \in Workers, v # w
  PROVE  pc'[v] = pc[v] /\ ord'[v] = ord[v] /\ src'[v] = src[v]
  <1> USE DEF TypeOK, WorkerOK
  <1>1. ASSUME Moves(w)
        PROVE  pc'[v] = pc[v] /\ ord'[v] = ord[v] /\ src'[v] = src[v]
    BY <1>1 DEF Moves, Finish, Goto
  <1>2. CASE Start(w)
    BY <1>2 DEF Start, Begin, Deliver, DeliverMismatch, CancelOrder,
       ExpireTimedOutOrder, VerifyOrder, ReconcilePendingOrder,
       RetryFulfillment, RequestRefund, PrepareRefund, CheckPendingLimit
  <1>3. CASE Notification(w) \/ Fulfillment(w) \/ ResetForRetry(w)
    BY <1>1, <1>3, HandlersMove
  <1>4. CASE Lifecycle(w)
    BY <1>4 DEF Lifecycle, InsertOrder, InsertNothing, InvokeProvider,
       CheckPaid, NotPaid, CancelCore, Finish, Goto
  <1>5. CASE Refund(w)
    BY <1>5 DEF Refund, SaveRefundRequest, LockRefund, Deduct,
       AlreadyDeducted, RefundAtGateway, RollbackRefund, RestoreStatus,
       MarkRefundFailed, MarkRefundOk, Finish, Goto
  <1>6. CASE Crash(w)
    BY <1>6 DEF Crash, Finish
  <1> QED
    BY <1>2, <1>3, <1>4, <1>5, <1>6 DEF Step

\* Only creating the payment, closing it and paying it change it, so money
\* that was taken stays taken.
LEMMA PaidIsStable ==
  ASSUME TypeOK, CreationIsPrivate, Next, NEW o \in Orders,
         upstream[o] = "paid"
  PROVE  upstream'[o] = "paid"
  <1> USE DEF TypeOK, ProviderOK
  <1>1. ASSUME NEW w \in Workers, Start(w) \/ Crash(w)
        PROVE  upstream'[o] = "paid"
    BY <1>1, StartFrame, CrashFrame DEF providerVars
  <1>2. ASSUME NEW w \in Workers, InvokeProvider(w)
        PROVE  upstream'[o] = "paid"
    BY <1>2 DEF InvokeProvider, CreationIsPrivate, WorkerOK
  <1>3. ASSUME NEW w \in Workers, CheckPaid(w)
        PROVE  upstream'[o] = "paid"
    BY <1>3 DEF CheckPaid
  <1>4. ASSUME NEW w \in Workers, Step(w), ~InvokeProvider(w), ~CheckPaid(w)
        PROVE  upstream' = upstream
    <2>1. CASE ~WritesProvider(w)
      BY <1>4, <2>1, ProviderFrame DEF providerVars
    <2>2. CASE WritesProvider(w)
      BY <1>4, <2>2 DEF WritesProvider, Notification, ConfirmPayment, ToPaid,
         AlreadyProcessed, ExecuteFulfillment, LockOrder, MarkCompleted,
         MarkFailed, RefundAtGateway
    <2> QED
      BY <2>1, <2>2
  <1>5. ASSUME NEW p \in Orders, Environment(p)
        PROVE  upstream'[o] = "paid"
    BY <1>5 DEF Environment, UserPays, OrderTimesOut, GraceElapses,
       providerVars
  <1> QED
    BY <1>1, <1>2, <1>3, <1>4, <1>5 DEF Next

UnpaidRow(o) == status[o] \in UnpaidStatuses /\ ~paidAt[o]
Ungranted(o) == code[o] = "none" /\ granted[o] = 0 /\ gwRefunded[o] = 0

\* An order that no money was taken for stays untouched until it is.
LEMMA UntouchedStep ==
  ASSUME TypeOK, UnpaidIsUntouched, WorkIsPaidFor, CreationIsPrivate,
         NEW w \in Workers, Step(w), NEW o \in Orders, upstream[o] # "paid"
  PROVE  UnpaidRow(o)' /\ Ungranted(o)'
  <1> USE DEF TypeOK, RowOK, EffectOK, ProviderOK, WorkerOK
  <1>0. UnpaidRow(o) /\ Ungranted(o)
    BY DEF UnpaidIsUntouched, UnpaidRow, Ungranted
  <1>1. pc[w] \in PaidSteps => ord[w] # o
    BY DEF WorkIsPaidFor
  <1>2. UnpaidRow(o)'
    <2> USE <1>0 DEF UnpaidRow, UnpaidStatuses
    <2>1. CASE ~WritesRow(w)
      BY <2>1, RowFrame DEF rowVars
    <2>2. CASE ToPaid(w) \/ LockOrder(w) \/ ResetForRetry(w)
      BY <1>1, <2>2 DEF ToPaid, LockOrder, ResetForRetry, MarkPaid, SetStatus,
         CasStatus, PaidSteps
    <2>3. CASE MarkCompleted(w) \/ MarkFailed(w)
      BY <1>1, <2>3 DEF MarkCompleted, MarkFailed, SetStatus,
         CasStatus, PaidSteps, FulfillSection
    <2>4. CASE InsertOrder(w) \/ InvokeProvider(w)
      BY <2>4 DEF InsertOrder, InvokeProvider, SetStatus
    <2>5. CASE CheckPaid(w) \/ CancelCore(w)
      BY <2>5 DEF CheckPaid, CancelCore, CasStatus
    <2>6. CASE SaveRefundRequest(w) \/ LockRefund(w)
      BY <2>6 DEF SaveRefundRequest, LockRefund, CasStatus, SetStatus,
         Refundable
    <2>7. CASE RestoreStatus(w) \/ MarkRefundFailed(w) \/ MarkRefundOk(w)
      BY <1>1, <2>7 DEF RestoreStatus, MarkRefundFailed, MarkRefundOk,
         SetStatus, PaidSteps, RefundSection
    <2> QED
      BY <2>1, <2>2, <2>3, <2>4, <2>5, <2>6, <2>7 DEF WritesRow
  <1>3. code'[o] = code[o] /\ granted'[o] = granted[o]
    <2>1. CASE ~WritesEffects(w)
      BY <2>1, EffectFrame DEF effectVars
    <2>2. CASE CreateCode(w) \/ Redeem(w) \/ AssignSubscription(w)
      BY <1>1, <2>2 DEF CreateCode, Redeem, AssignSubscription,
         UseCodeAndCredit, PaidSteps, FulfillSection
    <2>3. CASE \/ AlreadyProcessed(w) \/ ApplyAffiliateRebate(w)
               \/ MarkCompleted(w) \/ Deduct(w) \/ RefundAtGateway(w)
               \/ RollbackRefund(w)
      BY <2>3 DEF AlreadyProcessed, ApplyAffiliateRebate, MarkCompleted,
         Deduct, RefundAtGateway, RollbackRefund
    <2> QED
      BY <2>1, <2>2, <2>3 DEF WritesEffects
  <1>4. gwRefunded'[o] = gwRefunded[o]
    <2>1. CASE ~WritesProvider(w)
      BY <2>1, ProviderFrame DEF providerVars
    <2>2. CASE RefundAtGateway(w)
      BY <1>1, <2>2 DEF RefundAtGateway, PaidSteps, RefundSection
    <2>3. CASE WritesProvider(w) /\ ~RefundAtGateway(w)
      BY <2>3 DEF WritesProvider, Notification, ConfirmPayment, ToPaid,
         AlreadyProcessed, ExecuteFulfillment, LockOrder, MarkCompleted,
         MarkFailed, InvokeProvider, CheckPaid
    <2> QED
      BY <2>1, <2>2, <2>3
  <1> QED
    BY <1>0, <1>2, <1>3, <1>4 DEF Ungranted

\* A worker gets past confirmPayment only for an order that was paid.
LEMMA PaidWorkStep ==
  ASSUME TypeOK, UnpaidIsUntouched, WorkIsPaidFor, CreationIsPrivate, Next
  PROVE  WorkIsPaidFor'
  <1> DEFINE PaidWork(v) == \/ pc[v] \in PaidSteps
                            \/ pc[v] = "confirm" /\ src[v] # "mismatch"
             PaidWorkAfter(v) == \/ pc'[v] \in PaidSteps
                                 \/ pc'[v] = "confirm" /\ src'[v] # "mismatch"
  <1> USE DEF TypeOK, WorkerOK
  <1>1. SUFFICES ASSUME NEW v \in Workers, PaidWorkAfter(v)
                 PROVE  ord'[v] \in Orders /\ upstream[ord'[v]] = "paid"
    BY PaidIsStable DEF WorkIsPaidFor
  <1>2. ASSUME PaidWork(v), ord'[v] = ord[v]
        PROVE  ord'[v] \in Orders /\ upstream[ord'[v]] = "paid"
    BY <1>2 DEF WorkIsPaidFor, PaidSteps, FulfillSection, RefundSection
  <1>3. ASSUME NEW w \in Workers, Start(w) \/ Step(w) \/ Crash(w), w # v
        PROVE  PaidWork(v) /\ ord'[v] = ord[v]
    BY <1>1, <1>3, OthersStay
  <1>4. CASE Start(v)
    BY <1>1, <1>4 DEF Start, Begin, Deliver, DeliverMismatch, CancelOrder,
       ExpireTimedOutOrder, VerifyOrder, ReconcilePendingOrder,
       RetryFulfillment, RequestRefund, PrepareRefund, CheckPendingLimit,
       UnpaidIsUntouched, PaidSteps, FulfillSection, RefundSection
  <1>5. CASE Crash(v)
    BY <1>1, <1>5 DEF Crash, Finish, PaidSteps, FulfillSection,
       RefundSection
  <1>6. CASE Step(v)
    <2>1. CASE Notification(v) \/ Fulfillment(v) \/ ResetForRetry(v)
      <3>1. PaidWork(v)
        BY <2>1, <1>1 DEF Notification, Fulfillment, ConfirmPayment, ToPaid,
           AlreadyProcessed, ExecuteFulfillment, LockOrder, LookupCode,
           CreateCode, Redeem, ApplyAffiliateRebate, AssignSubscription,
           MarkCompleted, MarkFailed, ResetForRetry, NotificationMatches,
           Return, Finish, PaidSteps, FulfillSection, RefundSection
      <3>2. ord'[v] = ord[v]
        BY <2>1, <1>1, HandlersMove DEF Moves, Finish, Goto, PaidSteps,
           FulfillSection, RefundSection
      <3> QED
        BY <3>1, <3>2, <1>2
    <2>2. CASE Lifecycle(v)
      BY <2>2, <1>1 DEF Lifecycle, InsertOrder, InsertNothing, InvokeProvider,
         CheckPaid, NotPaid, CancelCore, Finish, Goto, PaidSteps,
         FulfillSection, RefundSection
    <2>3. CASE LockRefund(v)
      BY <2>3, <1>1 DEF LockRefund, Finish, Goto, UnpaidIsUntouched,
         Refundable, UnpaidStatuses, PaidSteps, FulfillSection, RefundSection
    <2>4. CASE Refund(v) /\ ~LockRefund(v)
      <3>1. PaidWork(v)
        BY <2>4, <1>1 DEF Refund, SaveRefundRequest, Deduct, RefundAtGateway,
           RollbackRefund, RestoreStatus, MarkRefundFailed, MarkRefundOk,
           Finish, PaidSteps, FulfillSection, RefundSection
      <3>2. ord'[v] = ord[v]
        BY <2>4, <1>1 DEF Refund, SaveRefundRequest, Deduct, RefundAtGateway,
           RollbackRefund, RestoreStatus, MarkRefundFailed, MarkRefundOk,
           AlreadyDeducted, Finish, Goto, PaidSteps, FulfillSection,
           RefundSection
      <3> QED
        BY <3>1, <3>2, <1>2
    <2> QED
      BY <1>6, <2>1, <2>2, <2>3, <2>4 DEF Step
  <1>7. ASSUME NEW o \in Orders, Environment(o)
        PROVE  PaidWork(v) /\ ord'[v] = ord[v]
    BY <1>1, <1>7 DEF Environment, UserPays, OrderTimesOut, GraceElapses,
       workerVars
  <1> QED
    BY <1>2, <1>3, <1>4, <1>5, <1>6, <1>7 DEF Next

\* The status updates: which step writes which status over which.
Writes(w, o) ==
    \/ /\ pc[w] = "insert"
       /\ status[o] = "NONE" /\ status'[o] = "PENDING"
    \/ /\ ord[w] = o
       /\ \/ pc[w] = "invoke" /\ status'[o] = "FAILED"
          \/ /\ pc[w] = "toPaid"
             /\ status[o] \in {"PENDING", "CANCELLED", "EXPIRED"}
             /\ status'[o] = "PAID"
          \/ /\ pc[w] = "lock"
             /\ status[o] \in Fulfillable /\ status'[o] = "RECHARGING"
          \/ /\ pc[w] = "complete"
             /\ status[o] = "RECHARGING" /\ status'[o] = "COMPLETED"
          \/ /\ pc[w] = "markFailed"
             /\ status[o] = "RECHARGING" /\ status'[o] = "FAILED"
          \/ /\ pc[w] = "reset"
             /\ status[o] = "FAILED" /\ status'[o] = "PAID"
          \/ /\ pc[w] = "cas"
             /\ status[o] = "PENDING"
             /\ status'[o] \in {"CANCELLED", "EXPIRED"}
          \/ /\ pc[w] = "request"
             /\ status[o] = "COMPLETED" /\ status'[o] = "REFUND_REQUESTED"
          \/ /\ pc[w] = "refundLock"
             /\ status[o] \in Refundable /\ status'[o] = "REFUNDING"
          \/ /\ pc[w] \in {"restore", "refundFailed", "refundOk"}
             /\ status'[o] \in Settled

\* No step writes a status in another way.
LEMMA StatusWrites ==
  ASSUME TypeOK, NEW w \in Workers, Step(w), NEW o \in Orders
  PROVE  status'[o] = status[o] \/ Writes(w, o)
  <1> USE DEF TypeOK, RowOK, WorkerOK, Writes
  <1>1. CASE ~WritesRow(w)
    BY <1>1, RowFrame DEF rowVars
  <1>2. CASE ToPaid(w) \/ LockOrder(w) \/ ResetForRetry(w)
    BY <1>2 DEF ToPaid, Payable, MarkPaid, LockOrder, ResetForRetry,
       SetStatus, CasStatus
  <1>3. CASE MarkCompleted(w) \/ MarkFailed(w)
    BY <1>3 DEF MarkCompleted, MarkFailed, CasStatus
  <1>4. CASE InsertOrder(w) \/ InvokeProvider(w)
    BY <1>4 DEF InsertOrder, InvokeProvider, SetStatus
  <1>5. CASE CheckPaid(w) \/ CancelCore(w)
    BY <1>5 DEF CheckPaid, CancelCore, CasStatus
  <1>6. CASE SaveRefundRequest(w) \/ LockRefund(w)
    BY <1>6 DEF SaveRefundRequest, LockRefund, CasStatus, SetStatus
  <1>7. CASE RestoreStatus(w) \/ MarkRefundFailed(w) \/ MarkRefundOk(w)
    BY <1>7 DEF RestoreStatus, Restored, MarkRefundFailed, MarkRefundOk,
       RefundStatus, SetStatus, Settled, RefundStatuses
  <1> QED
    BY <1>1, <1>2, <1>3, <1>4, <1>5, <1>6, <1>7 DEF WritesRow

\* Starts, crashes and the environment write no status.
LEMMA StatusFrame ==
  ASSUME \/ \E w \in Workers : Start(w) \/ Crash(w)
         \/ \E o \in Orders : Environment(o)
  PROVE  UNCHANGED status
  BY StartFrame, CrashFrame DEF Environment, UserPays, OrderTimesOut,
     GraceElapses, rowVars

\* A payment appears at the provider only where CreateOrder put it.
LEMMA NoneAtProvider ==
  ASSUME TypeOK, Next, NEW o \in Orders, upstream[o] = "none",
         upstream'[o] # "none"
  PROVE  \E w \in Workers : InvokeProvider(w) /\ ord[w] = o
  <1> USE DEF TypeOK, ProviderOK
  <1>1. ASSUME NEW w \in Workers, Start(w) \/ Crash(w) PROVE FALSE
    BY <1>1, StartFrame, CrashFrame DEF providerVars
  <1>2. ASSUME NEW w \in Workers, Step(w), ~WritesProvider(w) PROVE FALSE
    BY <1>2, ProviderFrame DEF providerVars
  <1>3. ASSUME NEW w \in Workers, WritesProvider(w), ~InvokeProvider(w)
        PROVE  FALSE
    BY <1>3 DEF WritesProvider, Notification, ConfirmPayment, ToPaid,
       AlreadyProcessed, ExecuteFulfillment, LockOrder, MarkCompleted,
       MarkFailed, RefundAtGateway, CheckPaid
  <1>4. ASSUME NEW w \in Workers, InvokeProvider(w) PROVE ord[w] = o
    BY <1>4 DEF InvokeProvider
  <1>5. ASSUME NEW p \in Orders, Environment(p) PROVE FALSE
    BY <1>5 DEF Environment, UserPays, OrderTimesOut, GraceElapses,
       providerVars
  <1> QED
    BY <1>1, <1>2, <1>3, <1>4, <1>5 DEF Next

\* Only a worker that has inserted a row invokes the provider for it.
LEMMA InvokeEntered ==
  ASSUME TypeOK, Next, NEW v \in Workers, pc'[v] = "invoke"
  PROVE  \/ pc[v] = "invoke" /\ ord'[v] = ord[v] /\ ~InvokeProvider(v)
         \/ InsertOrder(v)
  <1> USE DEF TypeOK, WorkerOK
  <1>1. ASSUME NEW w \in Workers, w # v, Start(w) \/ Step(w) \/ Crash(w)
        PROVE  pc[v] = "invoke" /\ ord'[v] = ord[v] /\ ~InvokeProvider(v)
    BY <1>1, OthersStay DEF InvokeProvider, Finish
  <1>2. CASE Start(v)
    BY <1>2 DEF Start, Begin, Deliver, DeliverMismatch, CancelOrder,
       ExpireTimedOutOrder, VerifyOrder, ReconcilePendingOrder,
       RetryFulfillment, RequestRefund, PrepareRefund, CheckPendingLimit
  <1>3. CASE Crash(v)
    BY <1>3 DEF Crash, Finish
  <1>4. CASE Notification(v) \/ Fulfillment(v) \/ ResetForRetry(v)
    BY <1>4 DEF Notification, Fulfillment, ConfirmPayment, ToPaid,
       AlreadyProcessed, ExecuteFulfillment, LockOrder, LookupCode,
       RedeemAction, CreateCode, Redeem, ApplyAffiliateRebate,
       AssignSubscription, MarkCompleted, MarkFailed, ResetForRetry, Return,
       Finish, Goto, EffectOK
  <1>5. CASE Lifecycle(v)
    BY <1>5 DEF Lifecycle, InsertNothing, InvokeProvider, CheckPaid, NotPaid,
       CancelCore, Finish, Goto
  <1>6. CASE Refund(v)
    BY <1>6 DEF Refund, SaveRefundRequest, LockRefund, Deduct,
       AlreadyDeducted, RefundAtGateway, RollbackRefund, RestoreStatus,
       MarkRefundFailed, MarkRefundOk, Finish, Goto
  <1>7. ASSUME NEW o \in Orders, Environment(o)
        PROVE  pc[v] = "invoke" /\ ord'[v] = ord[v] /\ ~InvokeProvider(v)
    BY <1>7 DEF Environment, UserPays, OrderTimesOut, GraceElapses,
       workerVars, InvokeProvider, Finish
  <1> QED
    BY <1>1, <1>2, <1>3, <1>4, <1>5, <1>6, <1>7 DEF Next, Step

\* CreateOrder has the order to itself until it has invoked the provider.
LEMMA CreationStep ==
  ASSUME TypeOK, CreationIsPrivate, Next
  PROVE  CreationIsPrivate'
  <1> USE DEF TypeOK, RowOK, ProviderOK, WorkerOK
  <1>1. \A o \in Orders : status[o] # "NONE" => status'[o] # "NONE"
    BY StatusWrites, StatusFrame DEF Next, Writes, Settled, RefundStatuses
  <1>2. ASSUME NEW o \in Orders, status'[o] = "NONE"
        PROVE  upstream'[o] = "none"
    BY <1>1, <1>2, NoneAtProvider DEF CreationIsPrivate, InvokeProvider
  <1>3. ASSUME NEW v \in Workers, pc'[v] = "invoke"
        PROVE  /\ status'[ord'[v]] # "NONE"
               /\ upstream'[ord'[v]] = "none"
               /\ \A u \in Workers :
                     u # v /\ pc'[u] = "invoke" => ord'[u] # ord'[v]
    <2>1. CASE InsertOrder(v)
      <3>1. PICK o \in Orders : /\ status[o] = "NONE" /\ status'[o] = "PENDING"
                                /\ ord'[v] = o
        BY <2>1 DEF InsertOrder, SetStatus
      <3>2. upstream'[o] = "none"
        BY <2>1, <3>1 DEF InsertOrder, providerVars, CreationIsPrivate
      <3>3. ASSUME NEW u \in Workers, u # v, pc'[u] = "invoke"
            PROVE  ord'[u] # o
        BY <2>1, <3>1, <3>3 DEF InsertOrder, CreationIsPrivate
      <3> QED
        BY <3>1, <3>2, <3>3
    <2>2. CASE pc[v] = "invoke" /\ ord'[v] = ord[v] /\ ~InvokeProvider(v)
      <3>1. /\ ord[v] \in Orders
            /\ status[ord[v]] # "NONE" /\ upstream[ord[v]] = "none"
        BY <2>2 DEF CreationIsPrivate
      <3>2. upstream'[ord[v]] = "none"
        BY <2>2, <3>1, NoneAtProvider DEF CreationIsPrivate, InvokeProvider
      <3>3. ASSUME NEW u \in Workers, u # v, pc'[u] = "invoke"
            PROVE  ord'[u] # ord[v]
        <4>1. CASE InsertOrder(u)
          BY <2>2, <3>1, <3>3, <4>1 DEF InsertOrder
        <4>2. CASE pc[u] = "invoke" /\ ord'[u] = ord[u]
          BY <2>2, <3>3, <4>2 DEF CreationIsPrivate
        <4> QED
          BY <3>3, <4>1, <4>2, InvokeEntered
      <3> QED
        BY <1>1, <2>2, <3>1, <3>2, <3>3
    <2> QED
      BY <1>3, <2>1, <2>2, InvokeEntered
  <1> QED
    BY <1>2, <1>3 DEF CreationIsPrivate

\* The first inductive invariant.
MoneyFirst ==
    TypeOK /\ UnpaidIsUntouched /\ WorkIsPaidFor /\ CreationIsPrivate

\* Every step preserves it.
LEMMA MoneyFirstStep ==
  ASSUME MoneyFirst, TypeOK', Next
  PROVE  MoneyFirst'
  <1> USE DEF MoneyFirst
  <1>1. ASSUME NEW o \in Orders, upstream'[o] # "paid"
        PROVE  (UnpaidRow(o) /\ Ungranted(o))'
    <2>1. upstream[o] # "paid" /\ UnpaidRow(o) /\ Ungranted(o)
      BY <1>1, PaidIsStable DEF UnpaidIsUntouched, UnpaidRow, Ungranted
    <2>2. ASSUME NEW w \in Workers, Start(w) \/ Crash(w)
          PROVE  (UnpaidRow(o) /\ Ungranted(o))'
      BY <2>1, <2>2, StartFrame, CrashFrame DEF UnpaidRow, Ungranted,
         rowVars, effectVars, providerVars
    <2>3. ASSUME NEW w \in Workers, Step(w)
          PROVE  (UnpaidRow(o) /\ Ungranted(o))'
      BY <2>1, <2>3, UntouchedStep
    <2>4. ASSUME NEW p \in Orders, Environment(p)
          PROVE  (UnpaidRow(o) /\ Ungranted(o))'
      BY <2>1, <2>4 DEF Environment, UserPays, OrderTimesOut, GraceElapses,
         UnpaidRow, Ungranted, rowVars, effectVars, providerVars
    <2> QED
      BY <2>2, <2>3, <2>4 DEF Next
  <1>2. UnpaidIsUntouched'
    BY <1>1 DEF UnpaidIsUntouched, UnpaidRow, Ungranted
  <1> QED
    BY <1>2, PaidWorkStep, CreationStep

\* It holds in every reachable state.
LEMMA MoneyFirstAlways == Spec => []MoneyFirst
  <1>1. PaymentInit => MoneyFirst
    <2> SUFFICES ASSUME PaymentInit PROVE MoneyFirst
      OBVIOUS
    <2>1. TypeOK
      BY TypeInit
    <2>2. UnpaidIsUntouched
      BY DEF PaymentInit, UnpaidIsUntouched, UnpaidStatuses
    <2>3. WorkIsPaidFor /\ CreationIsPrivate
      BY DEF PaymentInit, WorkIsPaidFor, CreationIsPrivate, PaidSteps,
         FulfillSection, RefundSection
    <2> QED
      BY <2>1, <2>2, <2>3 DEF MoneyFirst
  <1>2. MoneyFirst /\ TypeOK' /\ [Next]_vars => MoneyFirst'
    <2> SUFFICES ASSUME MoneyFirst, TypeOK', [Next]_vars PROVE MoneyFirst'
      OBVIOUS
    <2>1. CASE UNCHANGED vars
      BY <2>1 DEF MoneyFirst, UnpaidIsUntouched, WorkIsPaidFor,
         CreationIsPrivate, vars, rowVars, effectVars, providerVars,
         workerVars
    <2> QED
      BY <2>1, MoneyFirstStep
  <1> QED
    BY <1>1, <1>2, TypeCorrect, PTL DEF Spec

\* Nothing is granted that was not paid for.
THEOREM PaidBeforeGranted == Spec => []GrantedOnlyIfCharged
  <1>1. MoneyFirst => GrantedOnlyIfCharged
    BY DEF MoneyFirst, UnpaidIsUntouched, GrantedOnlyIfCharged
  <1> QED
    BY <1>1, MoneyFirstAlways, PTL

-----------------------------------------------------------------------------
(* Locks: one fulfiller, one refunder.                                     *)

\* The status says who holds the order, and there is one holder at most.
FulfillerHolds ==
    \A w \in Workers : pc[w] \in FulfillSection =>
        /\ status[ord[w]] = "RECHARGING"
              \/ (pc[w] = "markFailed" /\ status[ord[w]] \in Settled)
        /\ \A v \in Workers :
              v # w /\ ord[v] = ord[w] => pc[v] \notin FulfillSection

\* A worker is in the fulfilment section because it was, or because it has
\* just locked the order.
LEMMA FulfillEntered ==
  ASSUME TypeOK, Next, NEW v \in Workers, pc'[v] \in FulfillSection
  PROVE  /\ ord'[v] = ord[v]
         /\ \/ pc[v] \in FulfillSection
            \/ /\ pc[v] = "lock" /\ LockOrder(v)
               /\ status[ord[v]] \in Fulfillable
               /\ status'[ord[v]] = "RECHARGING"
  <1> USE DEF TypeOK, WorkerOK, FulfillSection
  <1>1. ASSUME NEW w \in Workers, w # v, Start(w) \/ Step(w) \/ Crash(w)
        PROVE  pc[v] \in FulfillSection /\ ord'[v] = ord[v]
    BY <1>1, OthersStay
  <1>2. CASE Start(v)
    BY <1>2 DEF Start, Begin, Deliver, DeliverMismatch, CancelOrder,
       ExpireTimedOutOrder, VerifyOrder, ReconcilePendingOrder,
       RetryFulfillment, RequestRefund, PrepareRefund, CheckPendingLimit
  <1>3. CASE Crash(v)
    BY <1>3 DEF Crash, Finish
  <1>4. CASE Notification(v) \/ ExecuteFulfillment(v) \/ ResetForRetry(v)
    BY <1>4 DEF Notification, ConfirmPayment, ToPaid, AlreadyProcessed,
       ExecuteFulfillment, ResetForRetry, Return, Finish, Goto
  <1>5. CASE LockOrder(v)
    BY <1>5 DEF LockOrder, SetStatus, Return, Finish, Goto, RowOK
  <1>6. CASE Fulfillment(v) /\ ~ExecuteFulfillment(v) /\ ~LockOrder(v)
    BY <1>6 DEF Fulfillment, LookupCode, CreateCode, Redeem,
       ApplyAffiliateRebate, AssignSubscription, MarkCompleted, MarkFailed,
       Return, Finish, Goto
  <1>7. CASE Lifecycle(v)
    BY <1>7 DEF Lifecycle, InsertOrder, InsertNothing, InvokeProvider,
       CheckPaid, NotPaid, CancelCore, Finish, Goto
  <1>8. CASE Refund(v)
    BY <1>8 DEF Refund, SaveRefundRequest, LockRefund, Deduct,
       AlreadyDeducted, RefundAtGateway, RollbackRefund, RestoreStatus,
       MarkRefundFailed, MarkRefundOk, Finish, Goto
  <1>9. ASSUME NEW o \in Orders, Environment(o)
        PROVE  pc[v] \in FulfillSection /\ ord'[v] = ord[v]
    BY <1>9 DEF Environment, UserPays, OrderTimesOut, GraceElapses,
       workerVars
  <1> QED
    BY <1>1, <1>2, <1>3, <1>4, <1>5, <1>6, <1>7, <1>8, <1>9 DEF Next, Step

\* Likewise for the refund section.
LEMMA RefundEntered ==
  ASSUME TypeOK, Next, NEW v \in Workers, pc'[v] \in RefundSection
  PROVE  /\ ord'[v] = ord[v]
         /\ \/ pc[v] \in RefundSection
            \/ /\ pc[v] = "refundLock" /\ LockRefund(v)
               /\ status[ord[v]] \in Refundable
               /\ status'[ord[v]] = "REFUNDING"
  <1> USE DEF TypeOK, WorkerOK, RefundSection
  <1>1. ASSUME NEW w \in Workers, w # v, Start(w) \/ Step(w) \/ Crash(w)
        PROVE  pc[v] \in RefundSection /\ ord'[v] = ord[v]
    BY <1>1, OthersStay
  <1>2. CASE Start(v)
    BY <1>2 DEF Start, Begin, Deliver, DeliverMismatch, CancelOrder,
       ExpireTimedOutOrder, VerifyOrder, ReconcilePendingOrder,
       RetryFulfillment, RequestRefund, PrepareRefund, CheckPendingLimit
  <1>3. CASE Crash(v)
    BY <1>3 DEF Crash, Finish
  <1>4. CASE Notification(v) \/ Fulfillment(v) \/ ResetForRetry(v)
    BY <1>4 DEF Notification, Fulfillment, ConfirmPayment, ToPaid,
       AlreadyProcessed, ExecuteFulfillment, LockOrder, LookupCode,
       RedeemAction, CreateCode, Redeem, ApplyAffiliateRebate,
       AssignSubscription, MarkCompleted, MarkFailed, ResetForRetry, Return,
       Finish, Goto, EffectOK
  <1>5. CASE Lifecycle(v)
    BY <1>5 DEF Lifecycle, InsertOrder, InsertNothing, InvokeProvider,
       CheckPaid, NotPaid, CancelCore, Finish, Goto
  <1>6. CASE LockRefund(v)
    BY <1>6 DEF LockRefund, SetStatus, Finish, Goto, RowOK
  <1>7. CASE Refund(v) /\ ~LockRefund(v)
    BY <1>7 DEF Refund, SaveRefundRequest, Deduct, AlreadyDeducted,
       RefundAtGateway, RollbackRefund, RestoreStatus, MarkRefundFailed,
       MarkRefundOk, Finish, Goto
  <1>8. ASSUME NEW o \in Orders, Environment(o)
        PROVE  pc[v] \in RefundSection /\ ord'[v] = ord[v]
    BY <1>8 DEF Environment, UserPays, OrderTimesOut, GraceElapses,
       workerVars
  <1> QED
    BY <1>1, <1>2, <1>3, <1>4, <1>5, <1>6, <1>7, <1>8 DEF Next, Step

\* The second inductive invariant, on top of the first.
Locks == FulfillerHolds /\ RefundExclusive

\* Nobody else changes the status of an order that is being fulfilled, or
\* of one that is being refunded.
LEMMA HeldByFulfiller ==
  ASSUME MoneyFirst, Locks, Next, NEW v \in Workers, NEW o \in Orders,
         ord[v] = o, pc[v] \in FulfillSection, pc'[v] \in FulfillSection
  PROVE  \/ status[o] = "RECHARGING" /\ status'[o] = "RECHARGING"
         \/ pc'[v] = "markFailed" /\ status'[o] \in Settled
  <1> USE DEF MoneyFirst, TypeOK, RowOK, WorkerOK
  <1>0. \/ status[o] = "RECHARGING"
        \/ pc[v] = "markFailed" /\ status[o] \in Settled
    BY DEF Locks, FulfillerHolds
  <1>1. CASE UNCHANGED status /\ pc'[v] = pc[v]
    BY <1>0, <1>1
  <1>2. CASE Step(v)
    <2>1. CASE LookupCode(v) \/ CreateCode(v) \/ Redeem(v)
      BY <2>1, <1>0 DEF LookupCode, CreateCode, Redeem, rowVars
    <2>2. CASE ApplyAffiliateRebate(v) \/ AssignSubscription(v)
      BY <2>2, <1>0 DEF ApplyAffiliateRebate, AssignSubscription, rowVars
    <2>3. CASE MarkCompleted(v)
      BY <2>3, <1>0 DEF MarkCompleted, CasStatus, Return, Finish, Goto,
         FulfillSection, Settled
    <2>4. CASE MarkFailed(v)
      BY <2>4 DEF MarkFailed, Return, Finish, FulfillSection
    <2>5. CASE Notification(v) \/ ResetForRetry(v) \/ ExecuteFulfillment(v)
                 \/ LockOrder(v)
      BY <2>5 DEF Notification, ConfirmPayment, ToPaid, AlreadyProcessed,
         ResetForRetry, ExecuteFulfillment, LockOrder, FulfillSection
    <2>6. CASE Lifecycle(v) \/ Refund(v)
      BY <2>6 DEF Lifecycle, InsertOrder, InsertNothing, InvokeProvider,
         CheckPaid, CancelCore, Refund, SaveRefundRequest, LockRefund,
         Deduct, RefundAtGateway, RollbackRefund, RestoreStatus,
         MarkRefundFailed, MarkRefundOk, FulfillSection
    <2> QED
      BY <1>2, <2>1, <2>2, <2>3, <2>4, <2>5, <2>6 DEF Step, Fulfillment
  <1>3. ASSUME NEW w \in Workers, w # v, Step(w)
        PROVE  \/ status[o] = "RECHARGING" /\ status'[o] = "RECHARGING"
               \/ pc'[v] = "markFailed" /\ status'[o] \in Settled
    <2>1. pc'[v] = pc[v]
      BY <1>3, OthersStay
    <2>2. ord[w] = o => pc[w] \notin FulfillSection
      BY <1>3 DEF Locks, FulfillerHolds
    <2>3. ord[w] = o => pc[w] # "invoke"
      BY <1>3 DEF WorkIsPaidFor, CreationIsPrivate, PaidSteps
    <2>4. ord[w] = o /\ pc[w] \in RefundSection => status[o] = "REFUNDING"
      BY <1>3 DEF Locks, RefundExclusive
    <2> QED
      BY <1>0, <1>3, <2>1, <2>2, <2>3, <2>4, StatusWrites
         DEF Writes, Fulfillable, Refundable, FulfillSection, RefundSection,
             Settled, RefundStatuses
  <1>4. ASSUME NEW w \in Workers, Start(w) \/ Crash(w)
        PROVE  UNCHANGED status /\ pc'[v] = pc[v]
    <2>1. w # v
      BY <1>4 DEF Start, Begin, Deliver, DeliverMismatch, CancelOrder,
         ExpireTimedOutOrder, VerifyOrder, ReconcilePendingOrder,
         RetryFulfillment, RequestRefund, PrepareRefund, CheckPendingLimit,
         Crash, Finish, FulfillSection
    <2> QED
      BY <1>4, <2>1, OthersStay, StatusFrame
  <1>5. ASSUME NEW p \in Orders, Environment(p)
        PROVE  UNCHANGED status /\ pc'[v] = pc[v]
    BY <1>5, StatusFrame DEF Environment, UserPays, OrderTimesOut,
       GraceElapses, workerVars
  <1> QED
    BY <1>1, <1>2, <1>3, <1>4, <1>5 DEF Next

\* Likewise for an order that is being refunded.
LEMMA HeldByRefunder ==
  ASSUME MoneyFirst, Locks, Next, NEW v \in Workers, NEW o \in Orders,
         ord[v] = o, pc[v] \in RefundSection, pc'[v] \in RefundSection
  PROVE  status'[o] = "REFUNDING"
  <1> USE DEF MoneyFirst, TypeOK, RowOK, WorkerOK
  <1>0. status[o] = "REFUNDING"
    BY DEF Locks, RefundExclusive
  <1>1. CASE UNCHANGED status
    BY <1>0, <1>1
  <1>2. CASE Step(v)
    <2>1. pc[v] \notin {"restore", "refundFailed", "refundOk"}
      BY <1>2 DEF Step, Notification, ConfirmPayment, ToPaid,
         AlreadyProcessed, Fulfillment, ExecuteFulfillment, LockOrder,
         LookupCode, CreateCode, Redeem, ApplyAffiliateRebate,
         AssignSubscription, MarkCompleted, MarkFailed, ResetForRetry,
         Lifecycle, InsertOrder, InsertNothing, InvokeProvider, CheckPaid,
         CancelCore, Refund, SaveRefundRequest, LockRefund, Deduct,
         RefundAtGateway, RollbackRefund, RestoreStatus, MarkRefundFailed,
         MarkRefundOk, Finish, RefundSection
    <2> QED
      BY <1>0, <1>2, <2>1, StatusWrites DEF Writes, RefundSection,
         Fulfillable, Refundable
  <1>3. ASSUME NEW w \in Workers, w # v, Step(w)
        PROVE  status'[o] = "REFUNDING"
    <2>1. ord[w] = o => pc[w] \notin RefundSection
      BY <1>3 DEF Locks, RefundExclusive
    <2>2. ord[w] = o => pc[w] # "invoke"
      BY <1>3 DEF WorkIsPaidFor, CreationIsPrivate, PaidSteps
    <2> QED
      BY <1>0, <1>3, <2>1, <2>2, StatusWrites
         DEF Writes, Fulfillable, Refundable, RefundSection
  <1> QED
    BY <1>1, <1>2, <1>3, StatusFrame DEF Next

\* Every step preserves the locks.
LEMMA LocksStep ==
  ASSUME MoneyFirst, Locks, Next
  PROVE  Locks'
  <1> USE DEF MoneyFirst, TypeOK, WorkerOK
  <1>1. ASSUME NEW w \in Workers, pc'[w] \in FulfillSection
        PROVE  /\ \/ status'[ord'[w]] = "RECHARGING"
                  \/ pc'[w] = "markFailed" /\ status'[ord'[w]] \in Settled
               /\ \A v \in Workers : v # w /\ ord'[v] = ord'[w]
                     => pc'[v] \notin FulfillSection
    <2>1. ord'[w] = ord[w] /\ ord[w] \in Orders
      BY <1>1, FulfillEntered DEF FulfillSection
    <2>2. \/ status'[ord'[w]] = "RECHARGING"
          \/ pc'[w] = "markFailed" /\ status'[ord'[w]] \in Settled
      BY <1>1, <2>1, FulfillEntered, HeldByFulfiller
    <2>3. ASSUME NEW v \in Workers, v # w, ord'[v] = ord'[w],
                 pc'[v] \in FulfillSection
          PROVE  FALSE
      <3>1. ord[v] = ord[w]
        BY <2>1, <2>3, FulfillEntered
      <3>2. CASE pc[v] \in FulfillSection
        BY <1>1, <2>3, <3>1, <3>2, FulfillEntered
           DEF Locks, FulfillerHolds, Fulfillable, Settled, RefundStatuses
      <3>3. CASE pc[w] \in FulfillSection
        BY <1>1, <2>3, <3>1, <3>3, FulfillEntered
           DEF Locks, FulfillerHolds, Fulfillable, Settled, RefundStatuses
      <3>4. CASE LockOrder(v) /\ LockOrder(w) /\ pc[w] = "lock"
        BY <1>1, <2>3, <3>4 DEF LockOrder, Return, Finish, Goto,
           FulfillSection
      <3> QED
        BY <1>1, <2>3, <3>2, <3>3, <3>4, FulfillEntered
    <2> QED
      BY <2>2, <2>3
  <1>2. ASSUME NEW w \in Workers, pc'[w] \in RefundSection
        PROVE  /\ status'[ord'[w]] = "REFUNDING"
               /\ \A v \in Workers : v # w /\ ord'[v] = ord'[w]
                     => pc'[v] \notin RefundSection
    <2>1. ord'[w] = ord[w] /\ ord[w] \in Orders
      BY <1>2, RefundEntered DEF RefundSection
    <2>2. status'[ord'[w]] = "REFUNDING"
      BY <1>2, <2>1, RefundEntered, HeldByRefunder
    <2>3. ASSUME NEW v \in Workers, v # w, ord'[v] = ord'[w],
                 pc'[v] \in RefundSection
          PROVE  FALSE
      <3>1. ord[v] = ord[w]
        BY <2>1, <2>3, RefundEntered
      <3>2. CASE pc[v] \in RefundSection \/ pc[w] \in RefundSection
        BY <1>2, <2>3, <3>1, <3>2, RefundEntered
           DEF Locks, RefundExclusive, Refundable
      <3>3. CASE LockRefund(v) /\ LockRefund(w) /\ pc[w] = "refundLock"
        BY <1>2, <2>3, <3>3 DEF LockRefund, Finish, Goto, RefundSection
      <3> QED
        BY <1>2, <2>3, <3>2, <3>3, RefundEntered
    <2> QED
      BY <2>2, <2>3
  <1> QED
    BY <1>1, <1>2 DEF Locks, FulfillerHolds, RefundExclusive

\* The locks hold in every reachable state.
LEMMA LocksAlways == Spec => []Locks
  <1>1. PaymentInit => Locks
    BY DEF PaymentInit, Locks, FulfillerHolds, RefundExclusive,
       FulfillSection, RefundSection
  <1>2. MoneyFirst /\ Locks /\ [Next]_vars => Locks'
    <2> SUFFICES ASSUME MoneyFirst, Locks, [Next]_vars PROVE Locks'
      OBVIOUS
    <2>1. CASE UNCHANGED vars
      BY <2>1 DEF Locks, FulfillerHolds, RefundExclusive, vars, rowVars,
         workerVars
    <2> QED
      BY <2>1, LocksStep
  <1> QED
    BY <1>1, <1>2, MoneyFirstAlways, PTL DEF Spec

\* ExecuteRefund's lock: one refund at a time, REFUNDING throughout.
THEOREM OneRefunder == Spec => []RefundExclusive
  <1>1. Locks => RefundExclusive
    BY DEF Locks
  <1> QED
    BY <1>1, LocksAlways, PTL

\* The fulfilment lock: one fulfiller at a time, and none during a refund.
THEOREM OneFulfiller == Spec => []Exclusive
  <1>1. Locks => Exclusive
    BY DEF Locks, FulfillerHolds, RefundExclusive, Exclusive
  <1> QED
    BY <1>1, LocksAlways, PTL

\* The status updates follow the state machine of the order, also those
\* that do not look at the status they overwrite.
THEOREM StatusFollowsFlow == Spec => StatusFlow
  <1> DEFINE Flow == \A o \in Orders :
          status'[o] # status[o] => status'[o] \in Successors[status[o]]
  <1>1. MoneyFirst /\ Locks /\ [Next]_vars => [Flow]_vars
    <2> SUFFICES ASSUME MoneyFirst, Locks, Next, NEW o \in Orders,
                        status'[o] # status[o]
                 PROVE  status'[o] \in Successors[status[o]]
      OBVIOUS
    <2> USE DEF MoneyFirst, TypeOK, RowOK, WorkerOK
    <2>1. PICK w \in Workers : Step(w)
      BY StatusFrame DEF Next
    <2>2. Writes(w, o)
      BY <2>1, StatusWrites
    <2>3. ord[w] = o /\ pc[w] = "invoke" =>
             status[o] \in {"PENDING", "CANCELLED", "EXPIRED", "FAILED"}
      BY DEF CreationIsPrivate, UnpaidIsUntouched, UnpaidStatuses
    <2>4. ord[w] = o /\ pc[w] \in {"restore", "refundFailed", "refundOk"}
             => status[o] = "REFUNDING"
      BY DEF Locks, RefundExclusive, RefundSection
    <2>5. status[o] \in Statuses
      OBVIOUS
    <2> QED
      BY <2>2, <2>3, <2>4, <2>5 DEF Writes, Successors, Statuses,
         UnpaidStatuses, Settled, RefundStatuses, Fulfillable, Refundable
  <1> QED
    BY <1>1, MoneyFirstAlways, LocksAlways, PTL DEF Spec, StatusFlow
=============================================================================
