------------------------ MODULE PaymentLedgerProofs -------------------------
(***************************************************************************)
(* That an order is credited and its rebate accrued once, before it        *)
(* settles, that the service implements PaymentLedger, and, each under     *)
(* the failures it tolerates, that refunds take and return the right       *)
(* amounts, that a subscription is extended once and that only a recorded  *)
(* payment is acknowledged.  The inductive invariant Books is the third    *)
(* layer, on top of those of PaymentOrderProofs; RefundBooks, MoneyBack,   *)
(* TermsMatch and AckBooks are the fourth.                                 *)
(***************************************************************************)
EXTENDS PaymentOrderProofs

-----------------------------------------------------------------------------
(* Books: the code counts the credits, the audit log the rebates.          *)

\* How far a fulfiller has come, it has done what comes before.
FulfillerProgress ==
    \A w \in Workers :
        /\ pc[w] \in {"lookup", "create", "redeem", "rebate"}
              => ord[w] \in BalanceOrders
        /\ pc[w] = "assign" => ord[w] \in SubscriptionOrders
        /\ pc[w] \in {"rebate", "complete"} => granted[ord[w]] > 0
        /\ pc[w] = "complete" /\ ord[w] \in BalanceOrders
              => RebateClaimed(ord[w])

\* The redeem code counts the credits, the audit log counts the rebates.
LedgerMatches ==
    \A o \in Orders :
        /\ o \in BalanceOrders =>
              granted[o] = IF code[o] = "used" THEN 1 ELSE 0
        /\ rebated[o] = IF "AFFILIATE_REBATE_APPLIED" \in audit[o]
                        THEN 1 ELSE 0
        /\ rebated[o] = 1 => granted[o] > 0
        /\ "SUBSCRIPTION_SUCCESS" \in audit[o] => granted[o] > 0

\* Grants are not taken back and audit entries are not deleted.
LEMMA BooksGrow ==
  ASSUME TypeOK, Next, NEW o \in Orders
  PROVE  granted'[o] >= granted[o] /\ audit[o] \subseteq audit'[o]
  <1> USE DEF TypeOK, EffectOK
  <1>1. ASSUME NEW w \in Workers, Start(w) \/ Crash(w)
        PROVE  UNCHANGED effectVars
    BY <1>1, StartFrame, CrashFrame
  <1>2. ASSUME NEW p \in Orders, Environment(p)
        PROVE  UNCHANGED effectVars
    BY <1>2 DEF Environment, UserPays, OrderTimesOut, GraceElapses
  <1>3. ASSUME NEW w \in Workers, Step(w), ~WritesEffects(w)
        PROVE  UNCHANGED effectVars
    BY <1>3, EffectFrame
  <1>4. ASSUME NEW w \in Workers, WritesEffects(w)
        PROVE  granted'[o] >= granted[o]
    <2>1. CASE Redeem(w)
      BY <2>1 DEF Redeem, UseCodeAndCredit, WorkerOK
    <2>2. CASE AssignSubscription(w)
      BY <2>2 DEF AssignSubscription, WorkerOK
    <2>3. ASSUME WritesEffects(w), ~Redeem(w), ~AssignSubscription(w)
          PROVE  granted' = granted
      BY <2>3 DEF WritesEffects, AlreadyProcessed, CreateCode,
         ApplyAffiliateRebate, MarkCompleted, Deduct, RefundAtGateway,
         RollbackRefund
    <2> QED
      BY <1>4, <2>1, <2>2, <2>3
  <1>5. ASSUME NEW w \in Workers, WritesEffects(w)
        PROVE  audit[o] \subseteq audit'[o]
    BY <1>5 DEF WritesEffects, AlreadyProcessed, CreateCode, Redeem,
       ApplyAffiliateRebate, ClaimRebate, AssignSubscription, MarkCompleted,
       Return, CasStatus, Deduct, RefundAtGateway, RollbackRefund,
       WriteAuditLog
  <1>6. UNCHANGED effectVars
           => granted'[o] >= granted[o] /\ audit[o] \subseteq audit'[o]
    BY DEF effectVars
  <1> QED
    BY <1>1, <1>2, <1>3, <1>4, <1>5, <1>6 DEF Next

\* The third inductive invariant, on top of the others.
Books == FulfillerProgress /\ LedgerMatches /\ SettledIsGranted

\* What a fulfiller has done when it reaches a step.
Progress(w) ==
    /\ pc[w] \in {"lookup", "create", "redeem", "rebate"}
          => ord[w] \in BalanceOrders
    /\ pc[w] = "assign" => ord[w] \in SubscriptionOrders
    /\ pc[w] \in {"rebate", "complete"} => granted[ord[w]] > 0
    /\ pc[w] = "complete" /\ ord[w] \in BalanceOrders
          => RebateClaimed(ord[w])

\* A fulfiller reaches a step only after it has done what comes before.
LEMMA ProgressStep ==
  ASSUME TypeOK, TypeOK', Books, Next, NEW v \in Workers
  PROVE  Progress(v)'
  <1> USE DEF TypeOK, WorkerOK, EffectOK
  <1>0. Progress(v)
    BY DEF Books, FulfillerProgress, Progress
  <1>1. CASE pc'[v] \notin FulfillSection
    BY <1>1 DEF FulfillSection, Progress
  <1>2. CASE /\ pc'[v] = pc[v] /\ ord'[v] = ord[v]
             /\ pc[v] \in FulfillSection
    <2>1. ord[v] \in Orders
      BY <1>2 DEF FulfillSection
    <2>2. /\ granted'[ord[v]] >= granted[ord[v]]
          /\ audit[ord[v]] \subseteq audit'[ord[v]]
      BY <2>1, BooksGrow
    <2> QED
      BY <1>0, <1>2, <2>1, <2>2 DEF Progress, RebateClaimed
  <1>3. CASE Step(v) /\ pc'[v] \in FulfillSection
    <2>1. CASE LockOrder(v)
      BY <2>1 DEF LockOrder, Return, Finish, Goto, Progress, BalanceOrders
    <2>2. CASE LookupCode(v)
      <3>1. ord[v] \in BalanceOrders
        BY <1>0, <2>2 DEF LookupCode, Progress
      <3>2. code[ord[v]] = "used" => granted[ord[v]] > 0
        BY <3>1 DEF Books, LedgerMatches, BalanceOrders
      <3> QED
        BY <2>2, <3>1, <3>2 DEF LookupCode, RedeemAction, Goto, Progress,
           effectVars, BalanceOrders
    <2>3. CASE CreateCode(v)
      BY <1>0, <2>3 DEF CreateCode, Goto, Progress
    <2>4. CASE Redeem(v)
      BY <1>0, <2>4 DEF Redeem, UseCodeAndCredit, Goto, Progress
    <2>5. CASE ApplyAffiliateRebate(v)
      BY <1>0, <2>5 DEF ApplyAffiliateRebate, ClaimRebate, RebateClaimed,
         RebateDecided, WriteAuditLog, Goto, Progress
    <2>6. CASE AssignSubscription(v)
      <3>1. ord[v] \in SubscriptionOrders /\ ord[v] \in Orders
        BY <1>0, <2>6 DEF AssignSubscription, Progress
      <3>2. "SUBSCRIPTION_SUCCESS" \in audit[ord[v]] => granted[ord[v]] > 0
        BY <3>1 DEF Books, LedgerMatches
      <3> QED
        BY <2>6, <3>1, <3>2 DEF AssignSubscription, Goto, Progress,
           BalanceOrders
    <2>7. CASE MarkCompleted(v) \/ MarkFailed(v)
      BY <1>3, <2>7 DEF MarkCompleted, MarkFailed, Return, Finish, Goto,
         Progress, FulfillSection
    <2>8. CASE pc[v] \notin FulfillSection /\ ~LockOrder(v)
      BY <1>3, <2>8, FulfillEntered DEF Next
    <2>9. CASE Notification(v) \/ ExecuteFulfillment(v) \/ ResetForRetry(v)
                 \/ Lifecycle(v) \/ Refund(v)
      BY <2>8, <2>9 DEF Notification, ConfirmPayment, ToPaid,
         AlreadyProcessed, ExecuteFulfillment, ResetForRetry, LockOrder,
         Lifecycle, InsertOrder, InsertNothing, InvokeProvider, CheckPaid,
         CancelCore, Refund, SaveRefundRequest, LockRefund, Deduct,
         RefundAtGateway, RollbackRefund, RestoreStatus, MarkRefundFailed,
         MarkRefundOk, FulfillSection
    <2> QED
      BY <1>3, <2>1, <2>2, <2>3, <2>4, <2>5, <2>6, <2>7, <2>9
         DEF Step, Fulfillment
  <1>4. ASSUME NEW w \in Workers, Start(w) \/ Step(w) \/ Crash(w), w # v,
               pc'[v] \in FulfillSection
        PROVE  /\ pc'[v] = pc[v] /\ ord'[v] = ord[v]
               /\ pc[v] \in FulfillSection
    BY <1>4, OthersStay
  <1>5. ASSUME Start(v) \/ Crash(v) PROVE pc'[v] \notin FulfillSection
    BY <1>5 DEF Start, Begin, Deliver, DeliverMismatch, CancelOrder,
       ExpireTimedOutOrder, VerifyOrder, ReconcilePendingOrder,
       RetryFulfillment, RequestRefund, PrepareRefund, CheckPendingLimit,
       Crash, Finish, FulfillSection
  <1>6. ASSUME NEW o \in Orders, Environment(o)
        PROVE  pc'[v] = pc[v] /\ ord'[v] = ord[v]
    BY <1>6 DEF Environment, UserPays, OrderTimesOut, GraceElapses,
       workerVars
  <1> QED
    BY <1>1, <1>2, <1>3, <1>4, <1>5, <1>6 DEF Next

\* What the code and the audit log say of an order.
Recorded(o) ==
    /\ o \in BalanceOrders => granted[o] = IF code[o] = "used" THEN 1 ELSE 0
    /\ rebated[o] = IF "AFFILIATE_REBATE_APPLIED" \in audit[o]
                    THEN 1 ELSE 0
    /\ rebated[o] = 1 => granted[o] > 0
    /\ "SUBSCRIPTION_SUCCESS" \in audit[o] => granted[o] > 0

\* No step makes the code or the audit log disagree with the ledger.
LEMMA RecordedStep ==
  ASSUME TypeOK, TypeOK', Books, Next, NEW o \in Orders
  PROVE  Recorded(o)'
  <1> USE DEF TypeOK, EffectOK, WorkerOK
  <1>0. Recorded(o)
    BY DEF Books, LedgerMatches, Recorded
  <1>1. CASE UNCHANGED effectVars
    BY <1>0, <1>1 DEF effectVars, Recorded
  <1>2. ASSUME NEW w \in Workers, Start(w) \/ Crash(w)
        PROVE  UNCHANGED effectVars
    BY <1>2, StartFrame, CrashFrame
  <1>3. ASSUME NEW p \in Orders, Environment(p)
        PROVE  UNCHANGED effectVars
    BY <1>3 DEF Environment, UserPays, OrderTimesOut, GraceElapses
  <1>4. ASSUME NEW w \in Workers, WritesEffects(w)
        PROVE  Recorded(o)'
    <2>0. Progress(w)
      BY DEF Books, FulfillerProgress, Progress
    <2>1. CASE \/ AlreadyProcessed(w) \/ Deduct(w) \/ RefundAtGateway(w)
               \/ RollbackRefund(w)
      <3>1. UNCHANGED <<code, granted, rebated>>
        BY <2>1 DEF AlreadyProcessed, Deduct, RefundAtGateway, RollbackRefund
      <3>2. \A a \in {"AFFILIATE_REBATE_APPLIED", "SUBSCRIPTION_SUCCESS"} :
               a \in audit'[o] <=> a \in audit[o]
        BY <2>1 DEF AlreadyProcessed, Deduct, RefundAtGateway,
           RollbackRefund, WriteAuditLog, Return
      <3> QED
        BY <1>0, <3>1, <3>2 DEF Recorded
    <2>2. CASE CreateCode(w)
      BY <1>0, <2>0, <2>2 DEF CreateCode, Recorded
    <2>3. CASE Redeem(w)
      BY <1>0, <2>0, <2>3 DEF Redeem, UseCodeAndCredit, Recorded
    <2>4. CASE ApplyAffiliateRebate(w)
      BY <1>0, <2>0, <2>4 DEF ApplyAffiliateRebate, ClaimRebate, RebateClaimed,
         RebateDecided, WriteAuditLog, Recorded, Progress
    <2>5. CASE AssignSubscription(w)
      BY <1>0, <2>0, <2>5 DEF AssignSubscription, Recorded, Progress,
         BalanceOrders
    <2>6. CASE MarkCompleted(w)
      BY <1>0, <2>0, <2>6 DEF MarkCompleted, CasStatus, Return,
         WriteAuditLog, Recorded, Progress
    <2> QED
      BY <1>4, <2>1, <2>2, <2>3, <2>4, <2>5, <2>6 DEF WritesEffects
  <1> QED
    BY <1>1, <1>2, <1>3, <1>4, EffectFrame DEF Next

\* An order settles only after its grant and the decision on its rebate.
LEMMA SettledStep ==
  ASSUME MoneyFirst, MoneyFirst', Locks, Books, Next, NEW o \in Orders,
         status'[o] \in Settled
  PROVE  granted'[o] > 0 /\ (o \in BalanceOrders => RebateClaimed(o)')
  <1> USE DEF MoneyFirst, TypeOK, RowOK, EffectOK, WorkerOK
  <1>1. granted'[o] >= granted[o] /\ audit[o] \subseteq audit'[o]
    BY BooksGrow
  <1>2. SUFFICES granted[o] > 0 /\ (o \in BalanceOrders => RebateClaimed(o))
    <2>1. granted[o] > 0 => granted'[o] > 0
      BY <1>1
    <2>2. RebateClaimed(o) => RebateClaimed(o)'
      BY <1>1 DEF RebateClaimed
    <2> QED
      BY <2>1, <2>2
  <1>3. CASE status[o] \in Settled
    BY <1>3 DEF Books, SettledIsGranted
  <1>4. CASE status[o] \notin Settled
    <2>1. PICK w \in Workers : Step(w)
      BY <1>4, StatusFrame DEF Next
    <2>2. Writes(w, o)
      BY <1>4, <2>1, StatusWrites
    <2>3. ord[w] = o => pc[w] \notin RefundSection
      BY <1>4 DEF Locks, RefundExclusive, Settled, RefundStatuses
    <2>4. pc[w] = "complete" /\ ord[w] = o
      BY <1>4, <2>2, <2>3 DEF Writes, Settled, RefundStatuses,
         RefundSection, Refundable
    <2> QED
      BY <2>4 DEF Books, FulfillerProgress
  <1> QED
    BY <1>3, <1>4

\* The books hold in every reachable state.
LEMMA BooksAlways == Spec => []Books
  <1>1. PaymentInit => Books
    <2> SUFFICES ASSUME PaymentInit PROVE Books
      OBVIOUS
    <2>1. FulfillerProgress
      BY DEF PaymentInit, FulfillerProgress
    <2>2. LedgerMatches /\ SettledIsGranted
      BY DEF PaymentInit, LedgerMatches, SettledIsGranted, Settled,
         RefundStatuses, BalanceOrders
    <2> QED
      BY <2>1, <2>2 DEF Books
  <1>2. MoneyFirst /\ MoneyFirst' /\ Locks /\ Books /\ [Next]_vars => Books'
    <2> SUFFICES ASSUME MoneyFirst, MoneyFirst', Locks, Books, [Next]_vars
                 PROVE  Books'
      OBVIOUS
    <2>1. CASE UNCHANGED vars
      BY <2>1 DEF Books, FulfillerProgress, LedgerMatches, SettledIsGranted,
         RebateClaimed, vars, rowVars, effectVars, workerVars
    <2>2. CASE Next
      <3>1. FulfillerProgress'
        BY <2>2, ProgressStep DEF MoneyFirst, FulfillerProgress, Progress
      <3>2. LedgerMatches'
        BY <2>2, RecordedStep DEF MoneyFirst, LedgerMatches, Recorded
      <3>3. SettledIsGranted'
        BY <2>2, SettledStep DEF SettledIsGranted
      <3> QED
        BY <3>1, <3>2, <3>3 DEF Books
    <2> QED
      BY <2>1, <2>2
  <1> QED
    BY <1>1, <1>2, MoneyFirstAlways, LocksAlways, PTL DEF Spec

\* A balance order is credited at most once, whatever runs and fails.
THEOREM CreditedOnce == Spec => []GrantedOnce
  <1>1. Books => GrantedOnce
    BY DEF Books, LedgerMatches, GrantedOnce, BalanceOrders
  <1> QED
    BY <1>1, BooksAlways, PTL

\* The inviter's rebate is accrued at most once, for a credited order only.
THEOREM RebateOnce == Spec => []RebatedOnce
  <1>1. Books => RebatedOnce
    BY DEF Books, LedgerMatches, RebatedOnce
  <1> QED
    BY <1>1, BooksAlways, PTL

\* An order settles only after its benefit was granted.
THEOREM SettledAfterGrant == Spec => []SettledIsGranted
  <1>1. Books => SettledIsGranted
    BY DEF Books
  <1> QED
    BY <1>1, BooksAlways, PTL

-----------------------------------------------------------------------------
(* Refinement.                                                             *)

\* Each of the ledger's actions is a step of the ledger.
LEMMA LedgerActs ==
  ASSUME NEW o \in BalanceOrders,
         Ledger!Charge(o) \/ Ledger!Grant(o) \/ Ledger!PayBack(o)
  PROVE  Ledger!LedgerNext
  BY DEF Ledger!LedgerNext

\* A step of the service is, for a balance order, a step of the ledger or
\* none: money is taken, the benefit is granted, money goes back.
LEMMA LedgerStep ==
  ASSUME MoneyFirst, MoneyFirst', Locks, Books, Books', Next
  PROVE  Ledger!LedgerNext \/ UNCHANGED Ledger!ledgerVars
  <1> DEFINE charged == {o \in BalanceOrders : upstream[o] = "paid"}
             grants == [o \in BalanceOrders |-> granted[o]]
             refunds == [o \in BalanceOrders |-> gwRefunded[o]]
             Goal == Ledger!LedgerNext \/ UNCHANGED Ledger!ledgerVars
  <1> USE DEF MoneyFirst, TypeOK, RowOK, EffectOK, ProviderOK, WorkerOK
  <1>1. ASSUME UNCHANGED <<charged, grants, refunds>> PROVE Goal
    BY <1>1 DEF Ledger!ledgerVars
  <1>2. ASSUME NEW w \in Workers, Redeem(w) PROVE Goal
    <2>1. UNCHANGED <<charged, refunds>>
      BY <1>2 DEF Redeem, providerVars
    <2>2. PICK o \in BalanceOrders : o = ord[w] /\ upstream[o] = "paid"
      BY <1>2 DEF Redeem, Books, FulfillerProgress, WorkIsPaidFor, PaidSteps,
         FulfillSection
    <2>3. CASE UNCHANGED granted
      BY <1>1, <2>1, <2>3
    <2>4. CASE code[o] = "unused" /\ UseCodeAndCredit(ord[w])
      <3>1. granted[o] = 0
        BY <2>2, <2>4 DEF Books, LedgerMatches, BalanceOrders
      <3>2. \A p \in BalanceOrders :
               granted'[p] = IF p = o THEN 1 ELSE granted[p]
        BY <2>2, <2>4, <3>1 DEF UseCodeAndCredit, BalanceOrders
      <3>3. grants' = [grants EXCEPT ![o] = 1]
        BY <3>2
      <3>4. o \in charged /\ grants[o] = 0
        BY <2>2, <3>1
      <3>5. Ledger!Grant(o)
        BY <2>1, <3>3, <3>4, Zenon DEF Ledger!Grant
      <3> QED
        BY <3>5, LedgerActs
    <2> QED
      BY <1>2, <2>2, <2>3, <2>4 DEF Redeem
  <1>3. ASSUME NEW w \in Workers, RefundAtGateway(w) PROVE Goal
    <2>1. UNCHANGED <<charged, grants>>
      BY <1>3 DEF RefundAtGateway, effectVars
    <2>2. PICK o \in Orders : o = ord[w] /\ status[o] = "REFUNDING"
      BY <1>3 DEF RefundAtGateway, Locks, RefundExclusive, RefundSection
    <2>3. granted[o] > 0 /\ (o \in BalanceOrders => granted[o] = 1)
      BY <2>2 DEF Books, SettledIsGranted, LedgerMatches, Settled,
         RefundStatuses
    <2>4. CASE UNCHANGED refunds
      BY <1>1, <2>1, <2>4
    <2>5. CASE /\ o \in BalanceOrders
               /\ gwRefunded' = [gwRefunded EXCEPT ![o] = @ + plan[w].amt]
      <3>0. CASE plan[w].amt = 0
        <4>1. \A p \in BalanceOrders : gwRefunded'[p] = gwRefunded[p]
          BY <2>5, <3>0 DEF BalanceOrders
        <4> QED
          BY <1>1, <2>1, <4>1
      <3>1. \A p \in BalanceOrders :
               p # o => gwRefunded'[p] = gwRefunded[p]
        BY <2>5 DEF BalanceOrders
      <3>2. refunds' = [refunds EXCEPT ![o] = refunds'[o]]
        <4>1. PICK n : n = gwRefunded'[o]
          OBVIOUS
        <4>2. \A p \in BalanceOrders :
                 gwRefunded'[p] = IF p = o THEN n ELSE gwRefunded[p]
          BY <3>1, <4>1
        <4>3. refunds' = [refunds EXCEPT ![o] = n]
          BY <4>2
        <4>4. refunds'[o] = n
          BY <2>5, <4>1
        <4> QED
          BY <4>3, <4>4, Zenon
      <3>3. CASE plan[w].amt > 0
        <4>1. refunds'[o] > refunds[o] /\ grants[o] = 1
          BY <2>3, <2>5, <3>3 DEF Plans, BalanceOrders
        <4>2. Ledger!PayBack(o)
          BY <2>1, <3>2, <4>1, Zenon DEF Ledger!PayBack
        <4> QED
          BY <2>5, <4>2, LedgerActs
      <3> QED
        BY <3>0, <3>3, BoundsAssumption DEF Plans
    <2>6. CASE /\ o \notin BalanceOrders
               /\ gwRefunded' = [gwRefunded EXCEPT ![o] = @ + plan[w].amt]
      <3>1. \A p \in BalanceOrders : gwRefunded'[p] = gwRefunded[p]
        BY <2>6 DEF BalanceOrders
      <3> QED
        BY <1>1, <2>1, <3>1
    <2>7. \/ gwRefunded' = gwRefunded
          \/ gwRefunded' = [gwRefunded EXCEPT ![o] = @ + plan[w].amt]
      BY <1>3, <2>2 DEF RefundAtGateway
    <2> QED
      BY <2>4, <2>5, <2>6, <2>7
  <1>4. ASSUME NEW p \in Orders, UserPays(p) PROVE Goal
    <2>1. UNCHANGED <<grants, refunds>>
      BY <1>4 DEF UserPays, effectVars
    <2>2. CASE p \in BalanceOrders
      <3>1. \A q \in BalanceOrders :
               upstream'[q] = "paid" <=> q = p \/ upstream[q] = "paid"
        BY <1>4 DEF UserPays, BalanceOrders
      <3>2. charged' = charged \cup {p}
        BY <2>2, <3>1
      <3>3. Ledger!Charge(p)
        BY <2>1, <3>2, Zenon DEF Ledger!Charge
      <3> QED
        BY <2>2, <3>3, LedgerActs
    <2>3. CASE p \notin BalanceOrders
      <3>1. \A q \in BalanceOrders : upstream'[q] = upstream[q]
        BY <1>4, <2>3 DEF UserPays, BalanceOrders
      <3>2. charged' = charged
        BY <3>1
      <3> QED
        BY <1>1, <2>1, <3>2
    <2> QED
      BY <2>2, <2>3
  <1>5. ASSUME NEW w \in Workers, InvokeProvider(w) PROVE Goal
    <2>1. UNCHANGED <<grants, refunds>>
      BY <1>5 DEF InvokeProvider, effectVars
    <2>2. \A q \in BalanceOrders :
             upstream'[q] = "paid" <=> upstream[q] = "paid"
      BY <1>5 DEF InvokeProvider, CreationIsPrivate, BalanceOrders
    <2> QED
      BY <1>1, <2>1, <2>2
  <1>6. ASSUME NEW w \in Workers, CheckPaid(w) PROVE Goal
    <2>1. UNCHANGED <<grants, refunds>>
      BY <1>6 DEF CheckPaid, effectVars
    <2>2. \A q \in BalanceOrders :
             upstream'[q] = "paid" <=> upstream[q] = "paid"
      BY <1>6 DEF CheckPaid, BalanceOrders
    <2> QED
      BY <1>1, <2>1, <2>2
  <1>7. ASSUME NEW w \in Workers, AssignSubscription(w) PROVE Goal
    <2>1. UNCHANGED <<charged, refunds>>
      BY <1>7 DEF AssignSubscription, providerVars
    <2>2. ord[w] \in SubscriptionOrders
      BY <1>7 DEF AssignSubscription, Books, FulfillerProgress
    <2>3. \A q \in BalanceOrders : granted'[q] = granted[q]
      BY <1>7, <2>2 DEF AssignSubscription, BalanceOrders
    <2> QED
      BY <1>1, <2>1, <2>3
  <1>8. ASSUME NEW w \in Workers, WritesEffects(w), ~Redeem(w),
               ~AssignSubscription(w)
        PROVE  granted' = granted
    BY <1>8 DEF WritesEffects, AlreadyProcessed, CreateCode,
       ApplyAffiliateRebate, MarkCompleted, Deduct, RefundAtGateway,
         RollbackRefund
  <1>9. ASSUME NEW w \in Workers, WritesProvider(w), ~InvokeProvider(w),
               ~CheckPaid(w), ~RefundAtGateway(w)
        PROVE  UNCHANGED <<upstream, gwRefunded>>
    BY <1>9 DEF WritesProvider, Notification, ConfirmPayment, ToPaid,
       AlreadyProcessed, ExecuteFulfillment, LockOrder, MarkCompleted,
       MarkFailed
  <1>10. ASSUME NEW w \in Workers, Step(w), ~Redeem(w),
                ~AssignSubscription(w), ~InvokeProvider(w), ~CheckPaid(w),
                ~RefundAtGateway(w)
         PROVE  UNCHANGED <<upstream, granted, gwRefunded>>
    BY <1>8, <1>9, <1>10, EffectFrame, ProviderFrame
       DEF effectVars, providerVars
  <1>11. ASSUME NEW w \in Workers, Start(w) \/ Crash(w)
         PROVE  UNCHANGED <<upstream, granted, gwRefunded>>
    BY <1>11, StartFrame, CrashFrame DEF effectVars, providerVars
  <1>12. ASSUME NEW p \in Orders, OrderTimesOut(p) \/ GraceElapses(p)
         PROVE  UNCHANGED <<upstream, granted, gwRefunded>>
    BY <1>12 DEF OrderTimesOut, GraceElapses, effectVars, providerVars
  <1>13. ASSUME UNCHANGED <<upstream, granted, gwRefunded>> PROVE Goal
    BY <1>1, <1>13
  <1>14. Goal
    <2> HIDE DEF Goal
    <2> QED
      BY <1>2, <1>3, <1>4, <1>5, <1>6, <1>7, <1>10, <1>11, <1>12, <1>13
         DEF Next, Environment
  <1> QED
    BY <1>14

\* For balance orders the service implements the ledger: the customer is
\* charged, then credited once, and only then does money go back.
THEOREM LedgerImplemented == Spec => ImplementsLedger
  <1>1. PaymentInit => Ledger!LedgerInit
    BY DEF PaymentInit, Ledger!LedgerInit, BalanceOrders
  <1>2. MoneyFirst /\ MoneyFirst' /\ Locks /\ Books /\ Books' /\ [Next]_vars
           => [Ledger!LedgerNext]_Ledger!ledgerVars
    <2> SUFFICES ASSUME MoneyFirst, MoneyFirst', Locks, Books, Books',
                        [Next]_vars
                 PROVE  [Ledger!LedgerNext]_Ledger!ledgerVars
      OBVIOUS
    <2>1. CASE UNCHANGED vars
      BY <2>1 DEF vars, effectVars, providerVars, Ledger!ledgerVars
    <2> QED
      BY <2>1, LedgerStep
  <1> QED
    BY <1>1, <1>2, MoneyFirstAlways, LocksAlways, BooksAlways, PTL
       DEF Spec, ImplementsLedger, Ledger!LedgerSpec

-----------------------------------------------------------------------------
(* Refunds: what was taken from the user, and what went back to him.       *)

Returned == {"REFUNDED", "PARTIALLY_REFUNDED"}

\* A refund of the order found no trade number and paid nothing back.
Unpaid(o) == "REFUND_NO_TRADE_NO" \in audit[o]

\* What an order's books say between two steps of its refunds: nothing is
\* taken from the user unless a refund runs, has succeeded, or could not be
\* rolled back, and what a finished refund took it paid back or the audit
\* log says that it did not.
OrderBooks(o) ==
    /\ deducted[o] \in 0..Amount
    /\ status[o] \notin {"REFUNDING"} \cup Returned
          => AlreadyDeducted(o) \/ deducted[o] = 0
    /\ status[o] \in Returned /\ ~Unpaid(o) =>
          /\ gwRefunded[o] > 0
          /\ o \in BalanceOrders
                => AlreadyDeducted(o) \/ deducted[o] <= gwRefunded[o]

\* How far a refunder has come, its order's books show what it did.
RefunderBooks(w) ==
    /\ pc[w] \in RefundSection \cup {"refundLock"} =>
          /\ plan[w].amt > 0
          /\ ord[w] \in BalanceOrders => plan[w].deduct <= plan[w].amt
    /\ pc[w] \in {"deduct", "restore"}
          => AlreadyDeducted(ord[w]) \/ deducted[ord[w]] = 0
    /\ pc[w] \in {"gateway", "rollback", "refundOk"} =>
          IF AlreadyDeducted(ord[w]) THEN plan[w].deduct = 0
          ELSE deducted[ord[w]] = plan[w].deduct
    /\ pc[w] = "refundFailed" => AlreadyDeducted(ord[w])
    /\ pc[w] = "refundOk"
          => Unpaid(ord[w]) \/ gwRefunded[ord[w]] >= plan[w].amt

\* The fourth inductive invariant.
RefundBooks ==
    /\ \A o \in Orders : OrderBooks(o)
    /\ \A w \in Workers : RefunderBooks(w)

\* The steps of ExecuteRefund from its lock to its last status update.
RefundStep(w) ==
    \/ LockRefund(w) \/ Deduct(w) \/ RefundAtGateway(w) \/ RollbackRefund(w)
    \/ RestoreStatus(w) \/ MarkRefundFailed(w) \/ MarkRefundOk(w)

\* The order's row, books and provider as the refund properties see them.
SameBooks(o) ==
    /\ status'[o] = status[o]
    /\ deducted'[o] = deducted[o]
    /\ AlreadyDeducted(o)' = AlreadyDeducted(o)
    /\ Unpaid(o)' = Unpaid(o)
    /\ gwRefunded'[o] = gwRefunded[o]

\* A handler does not touch the plans of other workers.
LEMMA PlansStay ==
  ASSUME TypeOK, NEW w \in Workers, Start(w) \/ Step(w) \/ Crash(w),
         NEW v \in Workers, v # w
  PROVE  plan'[v] = plan[v]
  <1> USE DEF TypeOK, WorkerOK
  <1>1. ASSUME Moves(w) PROVE plan'[v] = plan[v]
    BY <1>1 DEF Moves, Finish, Carry
  <1>2. CASE Start(w)
    BY <1>2 DEF Start, Deliver, DeliverMismatch, CancelOrder,
       ExpireTimedOutOrder, VerifyOrder, ReconcilePendingOrder,
       RetryFulfillment, RequestRefund, PrepareRefund, CheckPendingLimit,
       Carry
  <1>3. CASE Notification(w) \/ Fulfillment(w) \/ ResetForRetry(w)
    BY <1>1, <1>3, HandlersMove
  <1>4. CASE Lifecycle(w)
    BY <1>4 DEF Lifecycle, InsertOrder, InsertNothing, InvokeProvider,
       CheckPaid, NotPaid, CancelCore, Finish, Carry
  <1>5. CASE Deduct(w)
    BY <1>5 DEF Deduct
  <1>6. CASE Refund(w) /\ ~Deduct(w)
    BY <1>6 DEF Refund, SaveRefundRequest, LockRefund, RefundAtGateway,
       RollbackRefund, RestoreStatus, MarkRefundFailed, MarkRefundOk, Finish
  <1>7. CASE Crash(w)
    BY <1>7 DEF Crash, Finish
  <1> QED
    BY <1>2, <1>3, <1>4, <1>5, <1>6, <1>7 DEF Step

\* Outside of refunds nothing is deducted or returned.
LEMMA OutsideRefunds ==
  ASSUME TypeOK, Next, \A w \in Workers : ~RefundStep(w), NEW o \in Orders
  PROVE  /\ deducted'[o] = deducted[o]
         /\ AlreadyDeducted(o)' = AlreadyDeducted(o)
         /\ Unpaid(o)' = Unpaid(o)
         /\ gwRefunded'[o] = gwRefunded[o]
  <1> USE DEF TypeOK, EffectOK, WorkerOK
  <1>1. ASSUME UNCHANGED <<effectVars, providerVars>>
        PROVE  /\ deducted'[o] = deducted[o]
               /\ AlreadyDeducted(o)' = AlreadyDeducted(o)
               /\ Unpaid(o)' = Unpaid(o)
               /\ gwRefunded'[o] = gwRefunded[o]
    BY <1>1 DEF effectVars, providerVars, AlreadyDeducted, Unpaid
  <1>2. ASSUME NEW w \in Workers, Start(w) \/ Crash(w)
        PROVE  UNCHANGED <<effectVars, providerVars>>
    BY <1>2, StartFrame, CrashFrame
  <1>3. ASSUME NEW p \in Orders, Environment(p)
        PROVE  /\ UNCHANGED effectVars
               /\ gwRefunded' = gwRefunded
    BY <1>3 DEF Environment, UserPays, OrderTimesOut, GraceElapses,
       providerVars
  <1>4. ASSUME NEW w \in Workers, Step(w)
        PROVE  /\ deducted' = deducted
               /\ AlreadyDeducted(o)' = AlreadyDeducted(o)
               /\ Unpaid(o)' = Unpaid(o)
    <2> USE DEF AlreadyDeducted, Unpaid
    <2>1. CASE ~WritesEffects(w)
      BY <1>4, <2>1, EffectFrame DEF effectVars
    <2>2. CASE AlreadyProcessed(w) \/ MarkCompleted(w)
      BY <2>2 DEF AlreadyProcessed, MarkCompleted, Return, WriteAuditLog
    <2>3. CASE CreateCode(w) \/ Redeem(w) \/ AssignSubscription(w)
      BY <2>3 DEF CreateCode, Redeem, AssignSubscription
    <2>4. CASE ApplyAffiliateRebate(w)
      BY <2>4 DEF ApplyAffiliateRebate, ClaimRebate, WriteAuditLog
    <2> QED
      BY <2>1, <2>2, <2>3, <2>4 DEF WritesEffects, RefundStep
  <1>5. ASSUME NEW w \in Workers, Step(w)
        PROVE  gwRefunded' = gwRefunded
    <2>1. CASE ~WritesProvider(w)
      BY <1>5, <2>1, ProviderFrame DEF providerVars
    <2>2. CASE WritesProvider(w)
      BY <2>2 DEF WritesProvider, Notification, ConfirmPayment, ToPaid,
         AlreadyProcessed, ExecuteFulfillment, LockOrder, MarkCompleted,
         MarkFailed, InvokeProvider, CheckPaid, RefundStep
    <2> QED
      BY <2>1, <2>2
  <1> QED
    BY <1>1, <1>2, <1>3, <1>4, <1>5
       DEF Next, effectVars, providerVars, AlreadyDeducted, Unpaid

\* Nor does an order get into REFUNDING or a refunded status, or leave it.
LEMMA StatusOutsideRefunds ==
  ASSUME MoneyFirst, Next, \A w \in Workers : ~RefundStep(w),
         NEW o \in Orders, status'[o] # status[o]
  PROVE  {status[o], status'[o]} \cap ({"REFUNDING"} \cup Returned) = {}
  <1> USE DEF MoneyFirst, TypeOK, RowOK, WorkerOK
  <1>1. PICK w \in Workers : Step(w)
    BY StatusFrame DEF Next
  <1>2. Writes(w, o)
    BY <1>1, StatusWrites
  <1>3. ord[w] = o /\ pc[w] = "invoke" => status[o] \in UnpaidStatuses
    BY DEF CreationIsPrivate, UnpaidIsUntouched
  <1>4. pc[w] \notin {"refundLock", "restore", "refundFailed", "refundOk"}
    BY <1>1 DEF Step, Notification, ConfirmPayment, ToPaid,
       AlreadyProcessed, Fulfillment, ExecuteFulfillment, LockOrder,
       LookupCode, CreateCode, Redeem, ApplyAffiliateRebate,
       AssignSubscription, MarkCompleted, MarkFailed, ResetForRetry,
       Lifecycle, InsertOrder, InsertNothing, InvokeProvider, CheckPaid,
       CancelCore, Refund, SaveRefundRequest, RefundStep
  <1> QED
    BY <1>2, <1>3, <1>4 DEF Writes, UnpaidStatuses, Fulfillable, Returned

\* Outside of refunds no refunder moves, except one that prepares its plan.
LEMMA RefundersStay ==
  ASSUME TypeOK, Next, \A w \in Workers : ~RefundStep(w),
         NEW v \in Workers, pc'[v] \in RefundSection \cup {"refundLock"}
  PROVE  \/ pc'[v] = pc[v] /\ ord'[v] = ord[v] /\ plan'[v] = plan[v]
         \/ \E o \in Orders : PrepareRefund(v, o)
  <1> USE DEF TypeOK, WorkerOK, RefundSection
  <1>1. ASSUME NEW w \in Workers, w # v, Start(w) \/ Step(w) \/ Crash(w)
        PROVE  pc'[v] = pc[v] /\ ord'[v] = ord[v] /\ plan'[v] = plan[v]
    BY <1>1, OthersStay, PlansStay
  <1>2. CASE Start(v)
    BY <1>2 DEF Start, Begin, Deliver, DeliverMismatch, CancelOrder,
       ExpireTimedOutOrder, VerifyOrder, ReconcilePendingOrder,
       RetryFulfillment, RequestRefund, CheckPendingLimit
  <1>3. CASE Crash(v)
    BY <1>3 DEF Crash, Finish
  <1>4. CASE Step(v)
    <2>1. pc'[v] \in RefundSection \/ pc'[v] = "refundLock"
      OBVIOUS
    <2>2. CASE pc'[v] \in RefundSection
      <3>1. pc[v] \in RefundSection
        BY <2>2, RefundEntered DEF RefundStep
      <3> QED
        BY <1>4, <3>1 DEF Step, Notification, ConfirmPayment, ToPaid,
           AlreadyProcessed, Fulfillment, ExecuteFulfillment, LockOrder,
           LookupCode, CreateCode, Redeem, ApplyAffiliateRebate,
           AssignSubscription, MarkCompleted, MarkFailed, ResetForRetry,
           Lifecycle, InsertOrder, InsertNothing, InvokeProvider, CheckPaid,
           CancelCore, Refund, SaveRefundRequest, RefundStep
    <2>3. CASE pc'[v] = "refundLock"
      <3>1. CASE Notification(v) \/ Fulfillment(v) \/ ResetForRetry(v)
        BY <2>3, <3>1 DEF Notification, Fulfillment, ConfirmPayment, ToPaid,
           AlreadyProcessed, ExecuteFulfillment, LockOrder, LookupCode,
           RedeemAction, CreateCode, Redeem, ApplyAffiliateRebate,
           AssignSubscription, MarkCompleted, MarkFailed, ResetForRetry,
           Return, Finish, Goto, EffectOK
      <3>2. CASE Lifecycle(v) \/ SaveRefundRequest(v)
        BY <2>3, <3>2 DEF Lifecycle, InsertOrder, InsertNothing,
           InvokeProvider, CheckPaid, NotPaid, CancelCore, SaveRefundRequest,
           Finish, Goto
      <3> QED
        BY <1>4, <3>1, <3>2 DEF Step, Refund, RefundStep
    <2> QED
      BY <2>1, <2>2, <2>3
  <1>5. ASSUME NEW o \in Orders, Environment(o)
        PROVE  pc'[v] = pc[v] /\ ord'[v] = ord[v] /\ plan'[v] = plan[v]
    BY <1>5 DEF Environment, UserPays, OrderTimesOut, GraceElapses,
       workerVars
  <1> QED
    BY <1>1, <1>2, <1>3, <1>4, <1>5 DEF Next

\* Refund books are kept outside of refunds.
LEMMA BooksOutsideRefunds ==
  ASSUME MoneyFirst, TypeOK', RefundBooks, Next,
         \A w \in Workers : ~RefundStep(w)
  PROVE  RefundBooks'
  <1> USE DEF MoneyFirst
  <1>1. ASSUME NEW o \in Orders PROVE OrderBooks(o)'
    <2>1. OrderBooks(o)
      BY DEF RefundBooks
    <2>2. /\ deducted'[o] = deducted[o]
          /\ AlreadyDeducted(o)' = AlreadyDeducted(o)
          /\ Unpaid(o)' = Unpaid(o)
          /\ gwRefunded'[o] = gwRefunded[o]
      BY OutsideRefunds
    <2>3. \/ status'[o] = status[o]
          \/ {status[o], status'[o]} \cap ({"REFUNDING"} \cup Returned) = {}
      BY StatusOutsideRefunds
    <2> QED
      BY <2>1, <2>2, <2>3 DEF OrderBooks
  <1>2. ASSUME NEW v \in Workers PROVE RefunderBooks(v)'
    <2>0. RefunderBooks(v)
      BY DEF RefundBooks
    <2>1. CASE pc'[v] \notin RefundSection \cup {"refundLock"}
      BY <2>1 DEF RefunderBooks, RefundSection
    <2>2. CASE /\ pc'[v] = pc[v] /\ ord'[v] = ord[v] /\ plan'[v] = plan[v]
               /\ pc[v] \in RefundSection \cup {"refundLock"}
      <3>1. ord[v] \in Orders
        BY <2>2 DEF TypeOK, WorkerOK, RefundSection
      <3>2. /\ deducted'[ord[v]] = deducted[ord[v]]
            /\ AlreadyDeducted(ord[v])' = AlreadyDeducted(ord[v])
            /\ Unpaid(ord[v])' = Unpaid(ord[v])
            /\ gwRefunded'[ord[v]] = gwRefunded[ord[v]]
        BY <3>1, <2>2, OutsideRefunds DEF AlreadyDeducted, Unpaid
      <3> QED
        BY <2>0, <2>2, <3>2 DEF RefunderBooks
    <2>3. ASSUME NEW o \in Orders, PrepareRefund(v, o)
          PROVE  RefunderBooks(v)'
      <3>1. PICK amt \in 1..Amount : \E d \in Deductions(o, amt) :
               plan' = [plan EXCEPT ![v] = [amt |-> amt, deduct |-> d,
                                      from |-> status[o], revoked |-> FALSE,
                                      number |-> tradeNo[o]]]
        BY <2>3 DEF PrepareRefund
      <3>2. PICK d \in Deductions(o, amt) :
               plan' = [plan EXCEPT ![v] = [amt |-> amt, deduct |-> d,
                                      from |-> status[o], revoked |-> FALSE,
                                      number |-> tradeNo[o]]]
        BY <3>1
      <3>3. plan'[v].amt = amt /\ plan'[v].deduct = d
        BY <3>2 DEF TypeOK, WorkerOK
      <3>4. pc'[v] = "refundLock" /\ ord'[v] = o
        BY <2>3 DEF PrepareRefund, Begin, TypeOK, WorkerOK
      <3>5. o \in BalanceOrders => d <= amt
        BY <3>2, BoundsAssumption DEF Deductions, BalanceOrders
      <3> QED
        BY <3>1, <3>3, <3>4, <3>5, BoundsAssumption
           DEF RefunderBooks, RefundSection
    <2> QED
      BY <2>1, <2>2, <2>3, RefundersStay
  <1> QED
    BY <1>1, <1>2 DEF RefundBooks

\* A refund step touches its own order and worker only.
LEMMA RefundStepFrame ==
  ASSUME TypeOK, NEW w \in Workers, RefundStep(w)
  PROVE  /\ ord[w] \in Orders
         /\ pc[w] \in RefundSection \cup {"refundLock"}
         /\ \A o \in Orders \ {ord[w]} : SameBooks(o)
         /\ \A v \in Workers \ {w} :
               pc'[v] = pc[v] /\ ord'[v] = ord[v] /\ plan'[v] = plan[v]
  <1> USE DEF TypeOK, WorkerOK, RowOK, EffectOK, ProviderOK
  <1>1. Step(w)
    BY DEF RefundStep, Step, Refund
  <1>2. ord[w] \in Orders /\ pc[w] \in RefundSection \cup {"refundLock"}
    BY DEF RefundStep, LockRefund, Deduct, RefundAtGateway, RollbackRefund,
       RestoreStatus, MarkRefundFailed, MarkRefundOk, RefundSection
  <1>3. ASSUME NEW v \in Workers, v # w
        PROVE  pc'[v] = pc[v] /\ ord'[v] = ord[v] /\ plan'[v] = plan[v]
    BY <1>1, <1>3, OthersStay, PlansStay
  <1>4. ASSUME NEW o \in Orders, o # ord[w] PROVE SameBooks(o)
    <2> USE DEF SameBooks, AlreadyDeducted, Unpaid
    <2>1. CASE LockRefund(w) \/ RestoreStatus(w) \/ MarkRefundFailed(w)
                  \/ MarkRefundOk(w)
      BY <1>4, <2>1 DEF LockRefund, RestoreStatus, MarkRefundFailed,
         MarkRefundOk, SetStatus, CasStatus, effectVars, providerVars
    <2>2. CASE Deduct(w)
      BY <1>4, <2>2 DEF Deduct, rowVars, providerVars
    <2>3. CASE RefundAtGateway(w)
      BY <1>4, <2>3 DEF RefundAtGateway, WriteAuditLog, rowVars
    <2>4. CASE RollbackRefund(w)
      BY <1>4, <2>4 DEF RollbackRefund, GiveBack, WriteAuditLog, rowVars,
         providerVars
    <2> QED
      BY <2>1, <2>2, <2>3, <2>4 DEF RefundStep
  <1> QED
    BY <1>2, <1>3, <1>4

\* A refund whose deduction reports what it did, and whose audit entries are
\* written and found, keeps its own books: the lock finds nothing deducted, the rollback gives all of it back.
LEMMA OwnBooks ==
  ASSUME TypeOK, TypeOK', RefundExclusive, RefundBooks,
         FailurePoints \cap {"deductAnswer", "auditRead", "auditWrite"} = {},
         NEW w \in Workers, RefundStep(w), NEW o \in Orders, o = ord[w]
  PROVE  OrderBooks(o)' /\ RefunderBooks(w)'
  <1> DEFINE D == deducted[o]
             Dn == deducted'[o]
             A == AlreadyDeducted(o)
             An == AlreadyDeducted(o)'
             U == Unpaid(o)
             Un == Unpaid(o)'
             G == gwRefunded[o]
             Gn == gwRefunded'[o]
             S == status[o]
             Sn == status'[o]
             amt == plan[w].amt
             d == plan[w].deduct
  <1>1. pc[w] \in RefundSection \cup {"refundLock"}
    BY RefundStepFrame
  <1>2. /\ amt \in 1..Amount /\ d \in 0..Amount
        /\ D \in 0..Amount /\ G \in Nat /\ Amount \in Nat
        /\ o \in BalanceOrders => d <= amt
    <2>1. RefunderBooks(w) /\ OrderBooks(o)
      BY <1>1 DEF RefundBooks
    <2>2. plan[w] \in Plans /\ G \in Nat
      BY <1>1 DEF TypeOK, WorkerOK, ProviderOK
    <2> QED
      BY <1>1, <2>1, <2>2, BoundsAssumption
         DEF RefunderBooks, OrderBooks, Plans
  <1>3. pc[w] \in RefundSection => S = "REFUNDING"
    BY DEF RefundExclusive
  <1>4. CASE LockRefund(w)
    <2>1. Dn = D /\ Gn = G /\ An = A /\ Un = U
      BY <1>4 DEF LockRefund, effectVars, providerVars, AlreadyDeducted,
         Unpaid
    <2>2. \/ S \in Refundable /\ Sn = "REFUNDING" /\ pc'[w] = "deduct"
          \/ Sn = S /\ pc'[w] = "idle"
          \/ S \in Refundable /\ Sn = "REFUNDING" /\ pc'[w] = "idle"
      BY <1>1, <1>4 DEF LockRefund, SetStatus, CasStatus, Goto, Finish,
         TypeOK, RowOK, WorkerOK
    <2>3. pc'[w] # "idle" => ord'[w] = o /\ plan'[w] = plan[w]
      BY <1>4 DEF LockRefund, Goto, Finish, TypeOK, WorkerOK
    <2>4. OrderBooks(o)
      BY <1>1 DEF RefundBooks
    <2>5. OrderBooks(o)'
      BY <1>2, <2>1, <2>2, <2>4 DEF OrderBooks, Refundable, Returned
    <2>6. CASE pc'[w] = "deduct"
      <3>1. A \/ D = 0
        BY <2>2, <2>4, <2>6 DEF OrderBooks, Refundable, Returned
      <3>2. ord'[w] = o /\ plan'[w] = plan[w]
        BY <2>3, <2>6
      <3> QED
        BY <1>2, <2>1, <2>5, <2>6, <3>1, <3>2
           DEF RefunderBooks, AlreadyDeducted
    <2>7. CASE pc'[w] = "idle"
      BY <2>5, <2>7 DEF RefunderBooks, RefundSection
    <2> QED
      BY <2>2, <2>6, <2>7
  <1>5. CASE Deduct(w)
    <2>1. Sn = S /\ Gn = G /\ An = A
      BY <1>5 DEF Deduct, rowVars, providerVars, AlreadyDeducted
    <2>2. pc[w] = "deduct" /\ ord'[w] = o /\ S = "REFUNDING"
      BY <1>3, <1>5 DEF Deduct, Goto, RefundSection
    <2>3. A \/ D = 0
      BY <2>2 DEF RefundBooks, RefunderBooks
    <2>4. plan'[w].amt = amt
      BY <1>5 DEF Deduct, TypeOK, WorkerOK, Plans
    <2>5. \/ /\ d > 0 /\ ~A /\ Dn = D + d /\ plan'[w].deduct = d
             /\ pc'[w] = "gateway"
          \/ /\ d = 0 \/ A
             /\ Dn = D /\ plan'[w].deduct = 0 /\ pc'[w] = "gateway"
          \/ /\ d > 0 /\ ~A /\ Dn = D /\ plan'[w].deduct = d
             /\ pc'[w] = "restore"
      BY <1>5 DEF Deduct, LookupMisses, Fault, Goto, TypeOK, EffectOK,
         WorkerOK, Plans
    <2>6. Dn \in 0..Amount
      BY <1>2, <2>3, <2>5
    <2>7. OrderBooks(o)'
      BY <2>1, <2>2, <2>6 DEF OrderBooks, Returned
    <2>8. pc'[w] \in {"gateway", "restore"} /\ plan'[w].deduct \in {0, d}
      BY <2>5
    <2>9. RefunderBooks(w)'
      <3>1. CASE pc'[w] = "gateway"
        BY <1>2, <2>1, <2>2, <2>3, <2>4, <2>5, <2>8, <3>1
           DEF RefunderBooks, AlreadyDeducted
      <3>2. CASE pc'[w] = "restore"
        BY <1>2, <2>1, <2>2, <2>3, <2>4, <2>5, <2>8, <3>2
           DEF RefunderBooks, AlreadyDeducted
      <3> QED
        BY <2>8, <3>1, <3>2
    <2> QED
      BY <2>7, <2>9
  <1>6. CASE RefundAtGateway(w)
    <2>1. Sn = S /\ Dn = D /\ An = A /\ plan' = plan
      BY <1>6 DEF RefundAtGateway, WriteAuditLog, rowVars, AlreadyDeducted,
         TypeOK, EffectOK
    <2>2. pc[w] = "gateway" /\ ord'[w] = o /\ S = "REFUNDING"
      BY <1>3, <1>6 DEF RefundAtGateway, Goto, RefundSection
    <2>3. IF A THEN d = 0 ELSE D = d
      BY <2>2 DEF RefundBooks, RefunderBooks
    <2>4. \/ pc'[w] = "refundOk" /\ Gn = G + amt
          \/ pc'[w] = "refundOk" /\ Un
          \/ pc'[w] = "rollback"
      <3>1. ~Fault("auditWrite")
        BY DEF Fault
      <3> QED
        BY <1>6, <3>1 DEF RefundAtGateway, WriteAuditLog, Unpaid, Goto,
           TypeOK, EffectOK, ProviderOK, WorkerOK
    <2>5. OrderBooks(o)'
      BY <1>2, <2>1, <2>2 DEF OrderBooks, Returned
    <2> QED
      BY <1>2, <2>1, <2>2, <2>3, <2>4, <2>5 DEF RefunderBooks
  <1>7. CASE RollbackRefund(w)
    <2>1. Sn = S /\ Gn = G /\ plan' = plan
      BY <1>7 DEF RollbackRefund, rowVars, providerVars
    <2>2. pc[w] = "rollback" /\ ord'[w] = o /\ S = "REFUNDING"
      BY <1>3, <1>7 DEF RollbackRefund, Goto, RefundSection
    <2>3. IF A THEN d = 0 ELSE D = d
      BY <2>2 DEF RefundBooks, RefunderBooks
    <2>4. \/ /\ Dn = D - d /\ An = A /\ pc'[w] = "restore"
          \/ /\ d > 0 /\ Dn \in {D, D - d} /\ An
             /\ pc'[w] = "refundFailed"
      <3>1. ~Fault("auditWrite")
        BY DEF Fault
      <3> QED
        BY <1>7, <3>1 DEF RollbackRefund, GiveBack, WriteAuditLog, Goto,
           AlreadyDeducted, TypeOK, EffectOK, WorkerOK
    <2>5. Dn \in 0..Amount /\ (An \/ Dn = 0)
      BY <1>2, <2>3, <2>4
    <2>6. OrderBooks(o)'
      BY <2>1, <2>2, <2>5 DEF OrderBooks, Returned
    <2> QED
      BY <1>2, <2>1, <2>2, <2>4, <2>5, <2>6 DEF RefunderBooks
  <1>8. CASE RestoreStatus(w) \/ MarkRefundFailed(w) \/ MarkRefundOk(w)
    <2>1. Dn = D /\ Gn = G /\ An = A /\ Un = U
      BY <1>8 DEF RestoreStatus, MarkRefundFailed, MarkRefundOk, effectVars,
         providerVars, AlreadyDeducted, Unpaid
    <2>2. pc'[w] = "idle"
      BY <1>8 DEF RestoreStatus, MarkRefundFailed, MarkRefundOk, Finish,
         TypeOK, WorkerOK
    <2>3. RefunderBooks(w)'
      BY <2>2 DEF RefunderBooks, RefundSection
    <2>4. RefunderBooks(w)
      BY DEF RefundBooks
    <2>5. S = "REFUNDING"
      BY <1>3, <1>8 DEF RestoreStatus, MarkRefundFailed, MarkRefundOk,
         RefundSection
    <2>6. \/ Sn = S
          \/ pc[w] \in {"restore", "refundFailed"} /\ Sn \notin Returned
          \/ pc[w] = "refundOk" /\ Sn \in Returned
      BY <1>8 DEF RestoreStatus, Restored, MarkRefundFailed, MarkRefundOk,
         RefundStatus, SetStatus, Returned, TypeOK, RowOK
    <2>7. CASE Sn = S
      BY <1>2, <2>1, <2>3, <2>5, <2>7 DEF OrderBooks, Returned
    <2>8. CASE pc[w] \in {"restore", "refundFailed"} /\ Sn \notin Returned
      <3>1. A \/ D = 0
        BY <2>4, <2>8 DEF RefunderBooks
      <3> QED
        BY <1>2, <2>1, <2>3, <2>8, <3>1 DEF OrderBooks, Returned
    <2>9. CASE pc[w] = "refundOk" /\ Sn \in Returned
      <3>1. (U \/ G >= amt) /\ (A \/ D = d)
        BY <2>4, <2>9 DEF RefunderBooks
      <3> QED
        BY <1>2, <2>1, <2>3, <2>9, <3>1 DEF OrderBooks, Returned
    <2> QED
      BY <2>6, <2>7, <2>8, <2>9
  <1> QED
    BY <1>4, <1>5, <1>6, <1>7, <1>8 DEF RefundStep

\* The refund books hold in every reachable state, if a deduction that took
\* effect is not reported as failed and the audit entries are written and
\* found.
LEMMA RefundBooksAlways ==
  ASSUME FailurePoints \cap {"deductAnswer", "auditRead", "auditWrite"} = {}
  PROVE  Spec => []RefundBooks
  <1>1. PaymentInit => RefundBooks
    BY BoundsAssumption DEF PaymentInit, RefundBooks, OrderBooks,
       RefunderBooks, RefundSection, Returned
  <1>2. MoneyFirst /\ TypeOK' /\ Locks /\ RefundBooks /\ [Next]_vars
           => RefundBooks'
    <2> SUFFICES ASSUME MoneyFirst, TypeOK', Locks, RefundBooks, [Next]_vars
                 PROVE  RefundBooks'
      OBVIOUS
    <2> USE DEF MoneyFirst
    <2>1. CASE UNCHANGED vars
      BY <2>1 DEF RefundBooks, OrderBooks, RefunderBooks, AlreadyDeducted,
         Unpaid, vars, rowVars, effectVars, providerVars, workerVars
    <2>2. CASE Next /\ \A w \in Workers : ~RefundStep(w)
      BY <2>2, BooksOutsideRefunds
    <2>3. ASSUME NEW w \in Workers, RefundStep(w) PROVE RefundBooks'
      <3>1. /\ ord[w] \in Orders
            /\ pc[w] \in RefundSection \cup {"refundLock"}
            /\ \A p \in Orders \ {ord[w]} : SameBooks(p)
            /\ \A v \in Workers \ {w} :
                  pc'[v] = pc[v] /\ ord'[v] = ord[v] /\ plan'[v] = plan[v]
        BY <2>3, RefundStepFrame
      <3>2. PICK p \in Orders : p = ord[w]
        BY <3>1
      <3>3. OrderBooks(p)' /\ RefunderBooks(w)'
        BY <2>3, <3>2, OwnBooks DEF Locks
      <3>4. ASSUME NEW q \in Orders, q # p PROVE OrderBooks(q)'
        <4>1. SameBooks(q) /\ OrderBooks(q)
          BY <3>1, <3>2, <3>4 DEF RefundBooks
        <4> QED
          BY <4>1 DEF SameBooks, OrderBooks
      <3>5. ASSUME NEW v \in Workers, v # w PROVE RefunderBooks(v)'
        <4>1. /\ pc'[v] = pc[v] /\ ord'[v] = ord[v] /\ plan'[v] = plan[v]
              /\ RefunderBooks(v)
          BY <3>1, <3>5 DEF RefundBooks
        <4>2. CASE pc[v] \notin RefundSection
          BY <4>1, <4>2 DEF RefunderBooks, RefundSection
        <4>3. CASE pc[v] \in RefundSection /\ ord[v] # p
          <5>1. PICK q \in Orders : q = ord[v]
            BY <4>3 DEF TypeOK, WorkerOK, RefundSection
          <5>2. SameBooks(q)
            BY <3>1, <3>2, <4>3, <5>1
          <5> QED
            BY <4>1, <5>1, <5>2 DEF SameBooks, RefunderBooks
        <4>4. CASE pc[v] \in RefundSection /\ ord[v] = p
          <5>1. pc[w] = "refundLock" /\ status[p] = "REFUNDING"
            BY <3>1, <3>2, <3>5, <4>4 DEF Locks, RefundExclusive
          <5>2. LockRefund(w) /\ status[p] \notin Refundable
            BY <2>3, <5>1 DEF RefundStep, Deduct, RefundAtGateway,
               RollbackRefund, RestoreStatus, MarkRefundFailed, MarkRefundOk,
               Refundable
          <5>3. UNCHANGED <<deducted, audit, gwRefunded>>
            BY <5>2 DEF LockRefund, effectVars, providerVars
          <5> QED
            BY <4>1, <5>3 DEF RefunderBooks, AlreadyDeducted, Unpaid
        <4> QED
          BY <4>2, <4>3, <4>4
      <3> QED
        BY <3>2, <3>3, <3>4, <3>5 DEF RefundBooks
    <2> QED
      BY <2>1, <2>2, <2>3
  <1> QED
    BY <1>1, <1>2, MoneyFirstAlways, TypeCorrect, LocksAlways, PTL DEF Spec

\* Over all attempts, refunds take the benefit of an order back once, unless
\* a deduction's answer is lost or an audit entry is not written or not
\* found (hasAuditLog, writeAuditLog and their dropped errors).
THEOREM BenefitTakenOnce ==
  ASSUME FailurePoints \cap {"deductAnswer", "auditRead", "auditWrite"} = {}
  PROVE  Spec => []DeductedOnce
  <1>1. RefundBooks => DeductedOnce
    BY BoundsAssumption DEF RefundBooks, OrderBooks, DeductedOnce
  <1> QED
    BY <1>1, RefundBooksAlways, PTL

\* A refund that failed leaves the user what he had, unless a rollback
\* failed and said so in the audit log; lost answers of the gateway and
\* crashes included.
THEOREM FailureUndone ==
  ASSUME FailurePoints \cap {"deductAnswer", "auditRead", "auditWrite"} = {}
  PROVE  Spec => []FailedRefundIsUndone
  <1>1. RefundBooks => FailedRefundIsUndone
    BY DEF RefundBooks, OrderBooks, FailedRefundIsUndone, AlreadyDeducted,
       Returned
  <1> QED
    BY <1>1, RefundBooksAlways, PTL

\* A finished refund returned money and took no more balance than that, or
\* is in the audit log as one without a trade number; with the same failures
\* left out.
THEOREM RefundBalanced ==
  ASSUME FailurePoints \cap {"deductAnswer", "auditRead", "auditWrite"} = {}
  PROVE  Spec => []RefundIsBalanced
  <1>1. RefundBooks => RefundIsBalanced
    BY DEF RefundBooks, OrderBooks, RefundIsBalanced, AlreadyDeducted,
       Unpaid, Returned
  <1> QED
    BY <1>1, RefundBooksAlways, PTL

-----------------------------------------------------------------------------
(* Money back.                                                             *)

\* Once money went back, the refunder of the order has only to record it.
MoneyBack(o) ==
    gwRefunded[o] > 0 =>
        /\ status[o] \in {"REFUNDING"} \cup Returned
        /\ \A w \in Workers :
              ord[w] = o /\ pc[w] \in RefundSection => pc[w] = "refundOk"

\* No step forgets money that went back, if the gateway's answer is not
\* lost.
LEMMA MoneyBackStep ==
  ASSUME MoneyFirst, TypeOK', Locks, Locks', Next,
         "gatewayAnswer" \notin FailurePoints,
         NEW o \in Orders, MoneyBack(o)
  PROVE  MoneyBack(o)'
  <1> USE DEF MoneyFirst
  <1>1. CASE \A w \in Workers : ~RefundStep(w)
    <2>1. gwRefunded'[o] = gwRefunded[o]
      BY <1>1, OutsideRefunds
    <2>2. \/ status'[o] = status[o]
          \/ {status[o], status'[o]} \cap ({"REFUNDING"} \cup Returned) = {}
      BY <1>1, StatusOutsideRefunds
    <2>3. ASSUME NEW v \in Workers, ord'[v] = o, pc'[v] \in RefundSection
          PROVE  ord[v] = o /\ pc'[v] = pc[v]
      <3>1. ~ \E p \in Orders : PrepareRefund(v, p)
        BY <2>3 DEF PrepareRefund, Begin, RefundSection, TypeOK, WorkerOK
      <3> QED
        BY <1>1, <2>3, <3>1, RefundersStay
    <2> QED
      BY <2>1, <2>2, <2>3 DEF MoneyBack
  <1>2. ASSUME NEW w \in Workers, RefundStep(w) PROVE MoneyBack(o)'
    <2>1. /\ ord[w] \in Orders
          /\ pc[w] \in RefundSection \cup {"refundLock"}
          /\ \A p \in Orders \ {ord[w]} : SameBooks(p)
          /\ \A v \in Workers \ {w} :
                pc'[v] = pc[v] /\ ord'[v] = ord[v] /\ plan'[v] = plan[v]
      BY <1>2, RefundStepFrame
    <2>2. ASSUME NEW v \in Workers, pc'[v] \in RefundSection
          PROVE  ord'[v] = ord[v]
      BY <2>2, RefundEntered
    <2>3. CASE ord[w] # o
      <3>1. gwRefunded'[o] = gwRefunded[o] /\ status'[o] = status[o]
        BY <2>1, <2>3 DEF SameBooks
      <3>2. ASSUME NEW v \in Workers, ord'[v] = o, pc'[v] \in RefundSection
            PROVE  v # w /\ ord[v] = o /\ pc'[v] = pc[v]
        BY <2>1, <2>2, <2>3, <3>2
      <3> QED
        BY <3>1, <3>2 DEF MoneyBack
    <2>4. CASE ord[w] = o /\ gwRefunded'[o] > 0
      <3> USE DEF TypeOK, RowOK, ProviderOK, WorkerOK
      <3>1. pc[w] \in RefundSection => status[o] = "REFUNDING"
        BY <2>4 DEF Locks, RefundExclusive
      <3>2. CASE RefundAtGateway(w)
        <4>1. gwRefunded[o] = 0
          BY <1>2, <2>4, <3>2 DEF MoneyBack, RefundAtGateway, RefundSection
        <4>2. pc'[w] = "refundOk" /\ ord'[w] = o /\ UNCHANGED status
          BY <2>4, <3>2, <4>1 DEF RefundAtGateway, Fault, Goto, rowVars
        <4>3. ASSUME NEW v \in Workers, v # w, ord'[v] = o
              PROVE  pc'[v] \notin RefundSection
          BY <2>4, <4>2, <4>3 DEF Locks, RefundExclusive, RefundSection
        <4> QED
          BY <3>1, <3>2, <4>2, <4>3 DEF MoneyBack, RefundAtGateway,
             RefundSection
      <3>3. CASE ~RefundAtGateway(w)
        <4>1. gwRefunded'[o] = gwRefunded[o] /\ gwRefunded[o] > 0
          BY <1>2, <2>4, <3>3 DEF RefundStep, LockRefund, Deduct,
             RollbackRefund, RestoreStatus, MarkRefundFailed, MarkRefundOk,
             providerVars
        <4>2. /\ status[o] \in {"REFUNDING"} \cup Returned
              /\ \A v \in Workers :
                    ord[v] = o /\ pc[v] \in RefundSection
                       => pc[v] = "refundOk"
          BY <4>1 DEF MoneyBack
        <4>3. \/ LockRefund(w) /\ pc[w] = "refundLock"
              \/ MarkRefundOk(w) /\ pc[w] = "refundOk"
          BY <1>2, <2>4, <3>3, <4>2 DEF RefundStep, LockRefund, Deduct,
             RollbackRefund, RestoreStatus, MarkRefundFailed, MarkRefundOk,
             RefundSection
        <4>4. /\ status'[o] \in {"REFUNDING"} \cup Returned
              /\ pc'[w] = "idle"
          BY <2>4, <3>1, <4>2, <4>3 DEF LockRefund, MarkRefundOk, Finish,
             SetStatus, CasStatus, RefundStatus, Refundable, Returned,
             RefundSection
        <4>5. ASSUME NEW v \in Workers, ord'[v] = o, pc'[v] \in RefundSection
              PROVE  pc'[v] = "refundOk"
          BY <2>1, <2>2, <4>2, <4>4, <4>5 DEF RefundSection
        <4> QED
          BY <4>4, <4>5 DEF MoneyBack
      <3> QED
        BY <3>2, <3>3
    <2>5. CASE ~(gwRefunded'[o] > 0)
      BY <2>5 DEF MoneyBack
    <2> QED
      BY <2>3, <2>4, <2>5
  <1> QED
    BY <1>1, <1>2

\* Money that went back is not forgotten, whatever else fails: an order is
\* not refunded a second time.
THEOREM MoneyBackFinal ==
  ASSUME "gatewayAnswer" \notin FailurePoints
  PROVE  Spec => []MoneyBackIsFinal
  <1> DEFINE Inv == \A o \in Orders : MoneyBack(o)
  <1>1. PaymentInit => Inv
    BY DEF PaymentInit, MoneyBack
  <1>2. /\ MoneyFirst /\ TypeOK' /\ Locks /\ Locks' /\ Inv /\ [Next]_vars
        => Inv'
    <2> SUFFICES ASSUME MoneyFirst, TypeOK', Locks, Locks', Inv, [Next]_vars
                 PROVE  Inv'
      OBVIOUS
    <2>1. CASE UNCHANGED vars
      BY <2>1 DEF MoneyBack, vars, rowVars, providerVars, workerVars
    <2>2. CASE Next
      BY <2>2, MoneyBackStep
    <2> QED
      BY <2>1, <2>2
  <1>3. Inv => MoneyBackIsFinal
    BY DEF MoneyBack, MoneyBackIsFinal, Returned
  <1> QED
    BY <1>1, <1>2, <1>3, MoneyFirstAlways, TypeCorrect, LocksAlways, PTL
       DEF Spec

-----------------------------------------------------------------------------
(* Subscriptions: extended once, if neither the assignment nor its         *)
(* completion fails.                                                       *)

\* An extended order stays RECHARGING until it is settled, and a worker
\* that is about to extend an order finds it not extended.
TermsMatch ==
    /\ \A o \in SubscriptionOrders :
          /\ granted[o] <= 1
          /\ granted[o] > 0 => status[o] \in {"RECHARGING"} \cup Settled
    /\ \A w \in Workers :
          /\ pc[w] = "assign" => granted[ord[w]] = 0
          /\ pc[w] = "markFailed" => ord[w] \notin SubscriptionOrders

\* No step extends an order twice, or fails one that was extended.
LEMMA TermsStep ==
  ASSUME MoneyFirst, TypeOK', Locks, Books, TermsMatch, Next,
         FailurePoints \cap {"assign", "complete"} = {}
  PROVE  TermsMatch'
  <1> USE DEF MoneyFirst, TypeOK, RowOK, EffectOK, WorkerOK
  <1>0. \A o \in SubscriptionOrders : o \in Orders /\ o \notin BalanceOrders
    BY OrdersAssumption DEF BalanceOrders
  <1>1. ASSUME NEW o \in SubscriptionOrders
        PROVE  \/ granted'[o] = granted[o]
               \/ \E w \in Workers :
                     AssignSubscription(w) /\ ord[w] = o
                     /\ granted[o] = 0 /\ granted'[o] = 1
    <2>1. ASSUME NEW w \in Workers, Start(w) \/ Crash(w)
          PROVE  granted' = granted
      BY <2>1, StartFrame, CrashFrame DEF effectVars
    <2>2. ASSUME NEW p \in Orders, Environment(p) PROVE granted' = granted
      BY <2>2 DEF Environment, UserPays, OrderTimesOut, GraceElapses,
         effectVars
    <2>3. ASSUME NEW w \in Workers, Step(w), ~Redeem(w),
                 ~AssignSubscription(w)
          PROVE  granted' = granted
      BY <2>3, EffectFrame DEF effectVars, WritesEffects, AlreadyProcessed,
         CreateCode, ApplyAffiliateRebate, MarkCompleted, Deduct,
         RefundAtGateway, RollbackRefund
    <2>4. ASSUME NEW w \in Workers, Redeem(w)
          PROVE  granted'[o] = granted[o]
      <3>1. ord[w] # o
        BY <1>0, <2>4 DEF Redeem, Books, FulfillerProgress
      <3> QED
        BY <1>0, <2>4, <3>1 DEF Redeem, UseCodeAndCredit
    <2>5. ASSUME NEW w \in Workers, AssignSubscription(w),
                 granted'[o] # granted[o]
          PROVE  ord[w] = o /\ granted[o] = 0 /\ granted'[o] = 1
      <3>1. ord[w] = o
        BY <1>0, <2>5 DEF AssignSubscription
      <3>2. granted[o] = 0
        BY <2>5, <3>1 DEF AssignSubscription, TermsMatch
      <3> QED
        BY <1>0, <2>5, <3>1, <3>2 DEF AssignSubscription
    <2> QED
      BY <2>1, <2>2, <2>3, <2>4, <2>5 DEF Next
  <1>2. ASSUME NEW o \in SubscriptionOrders,
               status[o] \in {"RECHARGING"} \cup Settled
        PROVE  status'[o] \in {"RECHARGING"} \cup Settled
    <2>1. CASE status'[o] = status[o]
      BY <1>2, <2>1
    <2>2. ASSUME NEW w \in Workers, Writes(w, o)
          PROVE  status'[o] \in {"RECHARGING"} \cup Settled
      <3>1. ord[w] = o /\ pc[w] = "invoke" => status[o] \in UnpaidStatuses
        BY <1>0 DEF CreationIsPrivate, UnpaidIsUntouched
      <3>2. ord[w] = o => pc[w] # "markFailed"
        BY DEF TermsMatch
      <3> QED
        BY <1>2, <2>2, <3>1, <3>2 DEF Writes, UnpaidStatuses, Settled,
           RefundStatuses, Fulfillable
    <2> QED
      BY <1>0, <2>1, <2>2, StatusWrites, StatusFrame DEF Next
  <1>3. ASSUME NEW o \in SubscriptionOrders
        PROVE  /\ granted'[o] <= 1
               /\ granted'[o] > 0 => status'[o] \in {"RECHARGING"} \cup Settled
    <2>1. CASE granted'[o] = granted[o]
      BY <1>2, <2>1 DEF TermsMatch
    <2>2. ASSUME NEW w \in Workers, AssignSubscription(w), ord[w] = o,
                 granted'[o] = 1
          PROVE  status'[o] \in {"RECHARGING"} \cup Settled
      <3>1. status[o] = "RECHARGING"
        BY <2>2 DEF AssignSubscription, Locks, FulfillerHolds, FulfillSection
      <3> QED
        BY <1>2, <3>1
    <2> QED
      BY <1>1, <2>1, <2>2
  <1>4. ASSUME NEW v \in Workers, pc'[v] = "assign"
        PROVE  granted'[ord'[v]] = 0
    <2>1. /\ ord'[v] = ord[v]
          /\ \/ pc[v] \in FulfillSection
             \/ /\ pc[v] = "lock" /\ LockOrder(v)
                /\ status[ord[v]] \in Fulfillable
      BY <1>4, FulfillEntered DEF FulfillSection
    <2>2. ord[v] \in SubscriptionOrders
      BY <1>4, <2>1, ProgressStep DEF Progress
    <2>3. CASE LockOrder(v) /\ status[ord[v]] \in Fulfillable
      <3>1. granted[ord[v]] = 0
        BY <1>0, <2>2, <2>3 DEF TermsMatch, Fulfillable, Settled,
           RefundStatuses
      <3> QED
        BY <2>1, <2>3, <3>1 DEF LockOrder, effectVars
    <2>4. CASE pc[v] \in FulfillSection
      <3>1. pc[v] = "assign"
        <4>1. CASE Step(v)
          BY <1>4, <2>4, <4>1 DEF Step, Notification, ConfirmPayment, ToPaid,
             AlreadyProcessed, Fulfillment, ExecuteFulfillment, LockOrder,
             LookupCode, RedeemAction, CreateCode, Redeem,
             ApplyAffiliateRebate, AssignSubscription, MarkCompleted,
             MarkFailed, ResetForRetry, Lifecycle, InsertOrder,
             InsertNothing, InvokeProvider, CheckPaid, CancelCore, Refund,
             SaveRefundRequest, LockRefund, Deduct, RefundAtGateway,
             RollbackRefund, RestoreStatus, MarkRefundFailed, MarkRefundOk,
             Return, Finish, Goto, FulfillSection
        <4>2. CASE Start(v) \/ Crash(v)
          BY <1>4, <4>2 DEF Start, Begin, Deliver, DeliverMismatch,
             CancelOrder, ExpireTimedOutOrder, VerifyOrder,
             ReconcilePendingOrder, RetryFulfillment, RequestRefund,
             PrepareRefund, CheckPendingLimit, Crash, Finish
        <4>3. ASSUME NEW p \in Orders, Environment(p) PROVE pc' = pc
          BY <4>3 DEF Environment, UserPays, OrderTimesOut, GraceElapses,
             workerVars
        <4> QED
          BY <1>4, <4>1, <4>2, <4>3, OthersStay DEF Next
      <3>2. granted[ord[v]] = 0
        BY <3>1 DEF TermsMatch
      <3>3. ASSUME NEW w \in Workers, AssignSubscription(w), ord[w] = ord[v]
            PROVE  FALSE
        <4>1. w = v
          BY <3>1, <3>3 DEF Locks, FulfillerHolds, AssignSubscription,
             FulfillSection
        <4> QED
          BY <1>4, <3>3, <4>1 DEF AssignSubscription, Goto
      <3> QED
        BY <1>1, <2>1, <2>2, <3>2, <3>3
    <2> QED
      BY <2>1, <2>3, <2>4
  <1>5. ASSUME NEW v \in Workers, pc'[v] = "markFailed",
               ord'[v] \in SubscriptionOrders
        PROVE  FALSE
    <2>1. ord'[v] = ord[v] /\ pc[v] \in FulfillSection
      BY <1>5, FulfillEntered DEF FulfillSection, LockOrder, Return, Finish,
         Goto
    <2>2. pc[v] \in {"assign", "complete"}
      BY <1>0, <1>5, <2>1 DEF TermsMatch, Books, FulfillerProgress,
         FulfillSection
    <2>3. ~Fault("assign") /\ ~Fault("complete")
      BY DEF Fault
    <2>4. CASE Step(v)
      BY <1>5, <2>2, <2>3, <2>4 DEF Step, Notification, ConfirmPayment,
         ToPaid, AlreadyProcessed, Fulfillment, ExecuteFulfillment,
         LockOrder, LookupCode, CreateCode, Redeem, ApplyAffiliateRebate,
         AssignSubscription, MarkCompleted, MarkFailed, ResetForRetry,
         Lifecycle, InsertOrder, InsertNothing, InvokeProvider, CheckPaid,
         CancelCore, Refund, SaveRefundRequest, LockRefund, Deduct,
         RefundAtGateway, RollbackRefund, RestoreStatus, MarkRefundFailed,
         MarkRefundOk, Return, Finish, Goto
    <2>5. CASE Start(v) \/ Crash(v)
      BY <1>5, <2>5 DEF Start, Begin, Deliver, DeliverMismatch,
         CancelOrder, ExpireTimedOutOrder, VerifyOrder,
         ReconcilePendingOrder, RetryFulfillment, RequestRefund,
         PrepareRefund, CheckPendingLimit, Crash, Finish
    <2>6. ASSUME NEW p \in Orders, Environment(p) PROVE pc' = pc
      BY <2>6 DEF Environment, UserPays, OrderTimesOut, GraceElapses,
         workerVars
    <2> QED
      BY <1>5, <2>2, <2>4, <2>5, <2>6, OthersStay DEF Next
  <1> QED
    BY <1>3, <1>4, <1>5 DEF TermsMatch

\* A subscription order extends the term at most once, whatever is
\* delivered, retried or fails, as long as the extension and the update to
\* COMPLETED do not fail.
THEOREM ExtendedOnce ==
  ASSUME FailurePoints \cap {"assign", "complete"} = {}
  PROVE  Spec => []SubscriptionGrantedOnce
  <1>1. PaymentInit => TermsMatch
    BY OrdersAssumption DEF PaymentInit, TermsMatch
  <1>2. MoneyFirst /\ TypeOK' /\ Locks /\ Books /\ TermsMatch /\ [Next]_vars
           => TermsMatch'
    <2> SUFFICES ASSUME MoneyFirst, TypeOK', Locks, Books, TermsMatch,
                        [Next]_vars
                 PROVE  TermsMatch'
      OBVIOUS
    <2>1. CASE UNCHANGED vars
      BY <2>1 DEF TermsMatch, vars, rowVars, effectVars, workerVars
    <2> QED
      BY <2>1, TermsStep
  <1>3. TermsMatch => SubscriptionGrantedOnce
    BY DEF TermsMatch, SubscriptionGrantedOnce
  <1> QED
    BY <1>1, <1>2, <1>3, TypeCorrect, MoneyFirstAlways, LocksAlways,
       BooksAlways, PTL DEF Spec

-----------------------------------------------------------------------------
(* Acknowledgements: a notification is acknowledged once it is recorded.   *)

\* paid_at is set on every order that was paid and taken up: an order is
\* FAILED without it only if its payment was never created.
PaidAtIsSet(o) ==
    \/ status[o] \in {"PAID", "RECHARGING"} \cup Settled
    \/ status[o] = "FAILED" /\ upstream[o] # "none"
    => paidAt[o]

\* What a worker knows of its order's status when it answers, and that the
\* row of an order under creation has not failed yet.
AnswerIsInformed(w) ==
    /\ pc[w] = "invoke" => status[ord[w]] # "FAILED"
    /\ pc[w] = "already"
          => status[ord[w]] \notin {"NONE", "PENDING", "CANCELLED"}
    /\ pc[w] = "lock"
          => status[ord[w]] \in {"PAID", "FAILED", "RECHARGING"} \cup Settled

AckBooks ==
    /\ \A o \in Orders : PaidAtIsSet(o)
    /\ \A w \in Workers : AnswerIsInformed(w)
    /\ AckedIsRecorded

\* How the status of an order moves on, coarsely.
LEMMA StatusMoves ==
  ASSUME MoneyFirst, Locks, Next, NEW o \in Orders, status'[o] # status[o]
  PROVE  /\ status'[o] \in {"PAID", "RECHARGING", "FAILED"} \cup Settled
            \/ status[o] \in {"NONE", "PENDING"}
         /\ status[o] \in {"PAID", "FAILED", "RECHARGING"} \cup Settled
            => status'[o] \in {"PAID", "FAILED", "RECHARGING"} \cup Settled
         /\ status'[o] # "NONE"
         /\ status'[o] = "PENDING" => status[o] = "NONE"
         /\ status'[o] = "CANCELLED" => status[o] = "PENDING"
  <1> USE DEF MoneyFirst, TypeOK, RowOK, WorkerOK
  <1>1. PICK w \in Workers : Step(w)
    BY StatusFrame DEF Next
  <1>2. Writes(w, o)
    BY <1>1, StatusWrites
  <1> QED
    BY <1>2 DEF Writes, Settled, RefundStatuses, Fulfillable, Refundable

\* paid_at is never cleared, and confirming a payment sets it.
LEMMA PaidAtGrows ==
  ASSUME TypeOK, Next, NEW o \in Orders
  PROVE  /\ paidAt[o] => paidAt'[o]
         /\ status'[o] = "PAID" /\ status[o] \notin {"PAID", "FAILED"}
               => paidAt'[o]
  <1> USE DEF TypeOK, RowOK, WorkerOK
  <1>1. ASSUME NEW w \in Workers, Step(w), ~ToPaid(w)
        PROVE  paidAt' = paidAt
    BY <1>1, RowFrame DEF rowVars, WritesRow, LockOrder, MarkCompleted,
       MarkFailed, ResetForRetry, InsertOrder, InvokeProvider, CheckPaid,
       CancelCore, SaveRefundRequest, LockRefund, RestoreStatus,
       MarkRefundFailed, MarkRefundOk
  <1>2. ASSUME NEW w \in Workers, Start(w) \/ Crash(w)
        PROVE  UNCHANGED rowVars
    BY <1>2, StartFrame, CrashFrame
  <1>3. ASSUME NEW p \in Orders, Environment(p)
        PROVE  UNCHANGED <<paidAt, status>>
    BY <1>3 DEF Environment, UserPays, OrderTimesOut, GraceElapses, rowVars
  <1>4. ASSUME NEW w \in Workers, ToPaid(w)
        PROVE  /\ paidAt[o] => paidAt'[o]
               /\ status'[o] # status[o] => paidAt'[o]
    BY <1>4 DEF ToPaid, MarkPaid
  <1>5. ASSUME NEW w \in Workers, Step(w), ~ToPaid(w),
               status'[o] # status[o], status'[o] = "PAID"
        PROVE  status[o] = "FAILED"
    <2>1. Writes(w, o)
      BY <1>5, StatusWrites
    <2>2. pc[w] # "toPaid"
      BY <1>5 DEF Step, Notification, ConfirmPayment, AlreadyProcessed,
         Fulfillment, ExecuteFulfillment, LockOrder, LookupCode, CreateCode,
         Redeem, ApplyAffiliateRebate, AssignSubscription, MarkCompleted,
         MarkFailed, ResetForRetry, Lifecycle, InsertOrder, InsertNothing,
         InvokeProvider, CheckPaid, CancelCore, Refund, SaveRefundRequest,
         LockRefund, Deduct, RefundAtGateway, RollbackRefund, RestoreStatus,
         MarkRefundFailed, MarkRefundOk
    <2> QED
      BY <1>5, <2>1, <2>2 DEF Writes, Settled, RefundStatuses
  <1> QED
    BY <1>1, <1>2, <1>3, <1>4, <1>5 DEF Next, rowVars

\* A worker invokes the provider, and nothing else, at "invoke".
LEMMA InvokeOnly ==
  ASSUME NEW w \in Workers, Step(w), pc[w] = "invoke"
  PROVE  InvokeProvider(w)
  BY DEF Step, Notification, ConfirmPayment, ToPaid, AlreadyProcessed,
     Fulfillment, ExecuteFulfillment, LockOrder, LookupCode, CreateCode,
     Redeem, ApplyAffiliateRebate, AssignSubscription, MarkCompleted,
     MarkFailed, ResetForRetry, Lifecycle, InsertOrder, InsertNothing,
     CheckPaid, CancelCore, Refund, SaveRefundRequest, LockRefund, Deduct,
     RefundAtGateway, RollbackRefund, RestoreStatus, MarkRefundFailed,
     MarkRefundOk

\* An order is taken up only with paid_at set.
LEMMA PaidAtStep ==
  ASSUME MoneyFirst, Locks, AckBooks, Next, NEW o \in Orders
  PROVE  PaidAtIsSet(o)'
  <1> USE DEF MoneyFirst, TypeOK, RowOK, ProviderOK, WorkerOK
  <1>0. PaidAtIsSet(o)
    BY DEF AckBooks
  <1>1. paidAt[o] => paidAt'[o]
    BY PaidAtGrows
  <1>2. CASE status'[o] = status[o]
    <2>1. upstream[o] = "none" /\ upstream'[o] # "none"
             => status[o] # "FAILED"
      BY NoneAtProvider DEF AckBooks, AnswerIsInformed, InvokeProvider
    <2> QED
      BY <1>0, <1>1, <1>2, <2>1 DEF PaidAtIsSet
  <1>3. CASE status'[o] # status[o]
    <2>1. PICK w \in Workers : Step(w)
      BY <1>3, StatusFrame DEF Next
    <2>2. Writes(w, o)
      BY <1>3, <2>1, StatusWrites
    <2>3. ord[w] = o /\ pc[w] \in {"reset", "lock"} => upstream[o] = "paid"
      BY DEF WorkIsPaidFor, PaidSteps
    <2>4. ord[w] = o /\ pc[w] \in RefundSection => status[o] = "REFUNDING"
      BY DEF Locks, RefundExclusive
    <2>5. CASE ord[w] = o /\ pc[w] = "invoke"
      <3>1. upstream[o] = "none" /\ InvokeProvider(w)
        BY <2>1, <2>5, InvokeOnly DEF CreationIsPrivate
      <3>2. status'[o] = "FAILED" /\ upstream'[o] = "none"
        BY <1>3, <2>5, <3>1 DEF InvokeProvider, SetStatus
      <3> QED
        BY <3>2 DEF PaidAtIsSet, Settled, RefundStatuses
    <2>6. CASE ord[w] = o /\ pc[w] = "toPaid"
      BY <2>2, <2>6, PaidAtGrows DEF Writes, PaidAtIsSet
    <2>7. CASE ~(ord[w] = o /\ pc[w] \in {"invoke", "toPaid"})
      BY <1>0, <1>1, <2>2, <2>3, <2>4, <2>7 DEF Writes, PaidAtIsSet,
         Fulfillable, Refundable, RefundSection, Settled, RefundStatuses
    <2> QED
      BY <2>2, <2>5, <2>6, <2>7
  <1> QED
    BY <1>2, <1>3

\* A worker reaches "already" and "lock" with the status it has just seen.
LEMMA AnswerEntered ==
  ASSUME TypeOK, Next, NEW v \in Workers, pc'[v] \in {"already", "lock"}
  PROVE  /\ ord'[v] = ord[v]
         /\ \/ pc'[v] = pc[v]
            \/ pc'[v] = "already" /\ ToPaid(v) /\ ~Payable(ord[v])
               /\ UNCHANGED status
            \/ pc'[v] = "lock" /\ ExecuteFulfillment(v)
               /\ status[ord[v]] \in Fulfillable /\ UNCHANGED status
  <1> USE DEF TypeOK, WorkerOK
  <1>1. ASSUME NEW w \in Workers, w # v, Start(w) \/ Step(w) \/ Crash(w)
        PROVE  pc'[v] = pc[v] /\ ord'[v] = ord[v]
    BY <1>1, OthersStay
  <1>2. CASE Start(v) \/ Crash(v)
    BY <1>2 DEF Start, Begin, Deliver, DeliverMismatch, CancelOrder,
       ExpireTimedOutOrder, VerifyOrder, ReconcilePendingOrder,
       RetryFulfillment, RequestRefund, PrepareRefund, CheckPendingLimit,
       Crash, Finish
  <1>3. CASE ToPaid(v)
    BY <1>3 DEF ToPaid, Return, Finish, Goto
  <1>4. CASE ExecuteFulfillment(v)
    BY <1>4 DEF ExecuteFulfillment, Return, Finish, Goto, rowVars
  <1>5. CASE (Notification(v) \/ Fulfillment(v) \/ ResetForRetry(v))
                /\ ~ToPaid(v) /\ ~ExecuteFulfillment(v)
    BY <1>5 DEF Notification, Fulfillment, ConfirmPayment,
       AlreadyProcessed, LockOrder, LookupCode, RedeemAction, CreateCode,
       Redeem, ApplyAffiliateRebate, AssignSubscription, MarkCompleted,
       MarkFailed, ResetForRetry, Return, Finish, Goto, EffectOK
  <1>6. CASE Lifecycle(v)
    BY <1>6 DEF Lifecycle, InsertOrder, InsertNothing, InvokeProvider,
       CheckPaid, NotPaid, CancelCore, Finish, Goto
  <1>7. CASE Refund(v)
    BY <1>7 DEF Refund, SaveRefundRequest, LockRefund, Deduct,
       AlreadyDeducted, RefundAtGateway, RollbackRefund, RestoreStatus,
       MarkRefundFailed, MarkRefundOk, Finish, Goto
  <1>8. ASSUME NEW o \in Orders, Environment(o)
        PROVE  pc'[v] = pc[v] /\ ord'[v] = ord[v]
    BY <1>8 DEF Environment, UserPays, OrderTimesOut, GraceElapses,
       workerVars
  <1> QED
    BY <1>1, <1>2, <1>3, <1>4, <1>5, <1>6, <1>7, <1>8 DEF Next, Step

\* What a worker saw of the status is still true when it answers.
LEMMA AnswerStep ==
  ASSUME MoneyFirst, Locks, AckBooks, Next, NEW v \in Workers
  PROVE  AnswerIsInformed(v)'
  <1> USE DEF MoneyFirst, TypeOK, RowOK, WorkerOK
  <1>0. AnswerIsInformed(v)
    BY DEF AckBooks
  <1>1. ASSUME pc'[v] = "invoke" PROVE status'[ord'[v]] # "FAILED"
    <2>1. CASE InsertOrder(v)
      BY <2>1 DEF InsertOrder, SetStatus
    <2>2. CASE pc[v] = "invoke" /\ ord'[v] = ord[v] /\ ~InvokeProvider(v)
      <3>1. PICK o \in Orders : o = ord[v]
        BY <2>2
      <3>2. status[o] # "FAILED" /\ upstream[o] = "none"
        BY <1>0, <2>2, <3>1 DEF AnswerIsInformed, CreationIsPrivate
      <3>3. status[o] # "RECHARGING"
        BY <3>2 DEF UnpaidIsUntouched, UnpaidStatuses
      <3>4. ASSUME NEW w \in Workers, Step(w), ord[w] = o, pc[w] = "invoke"
            PROVE  FALSE
        BY <2>2, <3>1, <3>4, InvokeOnly DEF CreationIsPrivate
      <3>5. ASSUME NEW w \in Workers, Writes(w, o), Step(w)
            PROVE  status'[o] # "FAILED"
        BY <3>2, <3>3, <3>4, <3>5 DEF Writes, Settled, RefundStatuses
      <3>6. status'[o] # "FAILED"
        BY <3>2, <3>5, StatusWrites, StatusFrame DEF Next
      <3> QED
        BY <2>2, <3>1, <3>6
    <2> QED
      BY <1>1, <2>1, <2>2, InvokeEntered
  <1>2. ASSUME pc'[v] = "already"
        PROVE  status'[ord'[v]] \notin {"NONE", "PENDING", "CANCELLED"}
    <2>1. PICK o \in Orders : o = ord[v] /\ o = ord'[v]
      BY <1>2, AnswerEntered DEF ToPaid, ExecuteFulfillment
    <2>2. CASE pc[v] = "already"
      BY <1>0, <2>1, <2>2, StatusMoves DEF AnswerIsInformed
    <2>3. CASE pc[v] = "toPaid" /\ ~Payable(o) /\ UNCHANGED status
      <3>1. status[o] # "NONE"
        BY <2>1, <2>3 DEF WorkIsPaidFor, PaidSteps, CreationIsPrivate
      <3> QED
        BY <2>1, <2>3, <3>1 DEF Payable
    <2> QED
      BY <1>2, <2>1, <2>2, <2>3, AnswerEntered DEF ToPaid
  <1>3. ASSUME pc'[v] = "lock"
        PROVE  status'[ord'[v]] \in {"PAID", "FAILED", "RECHARGING"} \cup Settled
    <2>1. PICK o \in Orders : o = ord[v] /\ o = ord'[v]
      BY <1>3, AnswerEntered DEF ToPaid, ExecuteFulfillment
    <2>2. CASE pc[v] = "lock"
      BY <1>0, <2>1, <2>2, StatusMoves DEF AnswerIsInformed
    <2>3. CASE status[o] \in Fulfillable /\ UNCHANGED status
      BY <2>1, <2>3 DEF Fulfillable
    <2> QED
      BY <1>3, <2>1, <2>2, <2>3, AnswerEntered
  <1> QED
    BY <1>1, <1>2, <1>3 DEF AnswerIsInformed

\* A notification is acknowledged only for an order that was recorded.
LEMMA AckStep ==
  ASSUME MoneyFirst, Locks, AckBooks, Next,
         FailurePoints \cap {"confirmRead", "alreadyRead", "auditWrite"} = {},
         NEW o \in Orders, acked'[o]
  PROVE  paidAt'[o] \/ "PAYMENT_AFTER_EXPIRY" \in audit'[o]
  <1> USE DEF MoneyFirst, TypeOK, RowOK, ProviderOK, EffectOK, WorkerOK
  <1>0. /\ paidAt[o] => paidAt'[o]
        /\ audit[o] \subseteq audit'[o]
    BY PaidAtGrows, BooksGrow
  <1>1. CASE acked[o]
    BY <1>0, <1>1 DEF AckBooks, AckedIsRecorded
  <1>2. ASSUME NEW w \in Workers, Start(w) \/ Crash(w) PROVE acked' = acked
    BY <1>2, StartFrame, CrashFrame DEF providerVars
  <1>3. ASSUME NEW p \in Orders, Environment(p) PROVE acked' = acked
    BY <1>3 DEF Environment, UserPays, OrderTimesOut, GraceElapses,
       providerVars
  <1>4. ASSUME NEW w \in Workers, Step(w), ~acked[o]
        PROVE  paidAt'[o] \/ "PAYMENT_AFTER_EXPIRY" \in audit'[o]
    <2>0. PaidAtIsSet(o) /\ AnswerIsInformed(w)
      BY DEF AckBooks
    <2>1. /\ ~Fault("confirmRead") /\ ~Fault("alreadyRead")
          /\ ~Fault("auditWrite")
      BY DEF Fault
    <2>2. WritesProvider(w)
      BY <1>4, ProviderFrame DEF providerVars
    <2>3. ~(ConfirmPayment(w) \/ ToPaid(w) \/ MarkFailed(w)
              \/ InvokeProvider(w) \/ CheckPaid(w) \/ RefundAtGateway(w))
      BY <1>4, <2>1 DEF ConfirmPayment, ToPaid, MarkFailed, InvokeProvider,
         CheckPaid, RefundAtGateway, Return
    <2>4. CASE AlreadyProcessed(w)
      <3>1. ord[w] = o /\ pc[w] = "already"
        BY <1>4, <2>4 DEF AlreadyProcessed, Return
      <3>2. \/ "PAYMENT_AFTER_EXPIRY" \in audit'[o]
            \/ status[o] \notin {"FAILED", "PAID", "RECHARGING", "EXPIRED"}
        BY <1>4, <2>1, <2>4, <3>1 DEF AlreadyProcessed, Return, WriteAuditLog
      <3> QED
        BY <1>0, <2>0, <3>1, <3>2 DEF AnswerIsInformed, PaidAtIsSet,
           Statuses, UnpaidStatuses
    <2>5. CASE ExecuteFulfillment(w)
      <3>1. ord[w] = o /\ status[o] = "COMPLETED"
        BY <1>4, <2>5 DEF ExecuteFulfillment, Return
      <3> QED
        BY <1>0, <2>0, <3>1 DEF PaidAtIsSet, Settled
    <2>6. CASE LockOrder(w)
      <3>1. ord[w] = o /\ pc[w] = "lock" /\ status[o] \notin Fulfillable
        BY <1>4, <2>6 DEF LockOrder, Return
      <3> QED
        BY <1>0, <2>0, <3>1 DEF PaidAtIsSet, AnswerIsInformed, Fulfillable
    <2>7. CASE MarkCompleted(w)
      <3>1. ord[w] = o /\ pc[w] = "complete"
        BY <1>4, <2>7 DEF MarkCompleted, Return
      <3>2. status[o] = "RECHARGING"
        BY <3>1 DEF Locks, FulfillerHolds, FulfillSection
      <3> QED
        BY <1>0, <2>0, <3>2 DEF PaidAtIsSet
    <2> QED
      BY <2>2, <2>3, <2>4, <2>5, <2>6, <2>7 DEF WritesProvider, Notification
  <1> QED
    BY <1>1, <1>2, <1>3, <1>4 DEF Next

\* The provider gets its 2xx only for a payment that the order or the audit
\* log has on record, as long as the two reads and the audit entry whose
\* failure is answered with success do not fail.
THEOREM AckIsRecorded ==
  ASSUME FailurePoints \cap {"confirmRead", "alreadyRead", "auditWrite"} = {}
  PROVE  Spec => []AckedIsRecorded
  <1>1. PaymentInit => AckBooks
    BY DEF PaymentInit, AckBooks, PaidAtIsSet, AnswerIsInformed,
       AckedIsRecorded, Settled, RefundStatuses
  <1>2. MoneyFirst /\ Locks /\ AckBooks /\ [Next]_vars => AckBooks'
    <2> SUFFICES ASSUME MoneyFirst, Locks, AckBooks, [Next]_vars
                 PROVE  AckBooks'
      OBVIOUS
    <2>1. CASE UNCHANGED vars
      BY <2>1 DEF AckBooks, PaidAtIsSet, AnswerIsInformed, AckedIsRecorded,
         vars, rowVars, effectVars, providerVars, workerVars
    <2>2. CASE Next
      BY <2>2, PaidAtStep, AnswerStep, AckStep DEF AckBooks, AckedIsRecorded
    <2> QED
      BY <2>1, <2>2
  <1>3. AckBooks => AckedIsRecorded
    BY DEF AckBooks
  <1> QED
    BY <1>1, <1>2, <1>3, MoneyFirstAlways, LocksAlways, PTL DEF Spec
=============================================================================
