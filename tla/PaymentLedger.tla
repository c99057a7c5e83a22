---------------------------- MODULE PaymentLedger ----------------------------
(***************************************************************************)
(* What the payment system promises for an order, without the handlers:    *)
(* the customer is charged, then the benefit is granted, once, and only    *)
(* then may money go back.                                                 *)
(***************************************************************************)
EXTENDS Integers

CONSTANT Orders

VARIABLES
    charged,    \* the orders that money was taken for
    grants,     \* how often each order's benefit was granted
    refunds     \* the money returned for each order

ledgerVars == <<charged, grants, refunds>>

LedgerInit ==
    /\ charged = {}
    /\ grants = [o \in Orders |-> 0]
    /\ refunds = [o \in Orders |-> 0]

Charge(o) ==
    /\ charged' = charged \cup {o}
    /\ UNCHANGED <<grants, refunds>>

Grant(o) ==
    /\ o \in charged /\ grants[o] = 0
    /\ grants' = [grants EXCEPT ![o] = 1]
    /\ UNCHANGED <<charged, refunds>>

PayBack(o) ==
    /\ grants[o] = 1
    /\ refunds'[o] > refunds[o]
    /\ refunds' = [refunds EXCEPT ![o] = refunds'[o]]
    /\ UNCHANGED <<charged, grants>>

LedgerNext == \E o \in Orders : Charge(o) \/ Grant(o) \/ PayBack(o)

LedgerSpec == LedgerInit /\ [][LedgerNext]_ledgerVars
=============================================================================
