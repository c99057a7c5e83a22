---------------------------- MODULE RedeemService ----------------------------
(***************************************************************************)
(* redeem_service.go: a user redeems codes for balance, concurrency or     *)
(* subscription days while administrators edit the same codes and the same *)
(* subscription (subscription_service.go), usage is charged to the same    *)
(* balance (usage_billing_repo.go) and time passes.                        *)
(*                                                                         *)
(* One user and one group.  A worker is one Redeem request.  What a        *)
(* transaction has written and not committed is in its worker's `loc`; the *)
(* rows it has written are locked until it ends, as PostgreSQL does at     *)
(* READ COMMITTED.  The affiliate rebate, the error count behind the rate   *)
(* limit, notes and usage windows are left out.                            *)
(***************************************************************************)
EXTENDS Integers, FiniteSets

CONSTANTS
    Workers, Codes,
    KindOf,         \* a code's Type
    ValueOf,        \* a code's Value, in days (ValidityDays) for a subscription
    InitialFunds,   \* the user's balance and concurrency before any code
    MaxConns,       \* database.max_open_conns
    DefaultDays,    \* 30
    MaxDays,        \* MaxValidityDays
    MaxExpires,     \* MaxExpiresAt, as a day
    Adjustments,    \* days added or taken away by an administrator, clamped
    MaxRows,        \* bound on the subscriptions ever created
    MaxNow,         \* bound on the days that pass
    MaxFaults,      \* bound on failing calls and dying processes
    MaxEdits,       \* bound on the administrators' operations
    Charges,        \* what the usage of a request may cost
    MaxDebt,        \* bound on how far usage takes the balance below zero
    NoCode

Funds == {"balance", "concurrency"}
Kinds == Funds \cup {"subscription"}
Rows == 1..MaxRows

ASSUME RedeemAssumption ==
    /\ KindOf \in [Codes -> Kinds] /\ ValueOf \in [Codes -> Int]
    /\ InitialFunds \in [Funds -> Int]
    /\ NoCode \notin Codes
    /\ MaxConns \in Nat \ {0} /\ MaxExpires \in Nat
    /\ DefaultDays \in Nat \ {0} /\ MaxDays \in Nat \ {0}
    /\ Adjustments \subseteq (0 - MaxDays)..MaxDays
    /\ MaxRows \in Nat /\ MaxNow \in 0..MaxExpires /\ MaxFaults \in Nat
    /\ MaxEdits \in Nat
    /\ Charges \subseteq Nat \ {0} /\ MaxDebt \in Nat

VARIABLES
    code,       \* the status of the redeem_codes rows
    sub,        \* the user_subscriptions rows, by id
    funds,      \* the user's balance and concurrency
    lock,       \* the codes whose Redis lock is set
    pc, loc,    \* the workers' steps, what they read and will write
    adm,        \* the administrator's operation in progress
    now, faults, edits,
    redeemed,   \* how often Redeem committed the code as used
    grants,     \* how often the code's benefit became durable
    revived,    \* how often an edit overwrote a used code
    paid,       \* all the days granted, by codes and by administrators
    worth       \* what the codes and the usage leave the user at least and at
                \* most, the floor that no code should go below, and what
                \* happened to a negative code: it was clamped by a balance that
                \* has dropped since (raced), or that was below zero (credited)

vars == <<code, sub, funds, lock, pc, loc, adm, now, faults, edits,
          redeemed, grants, revived, paid, worth>>

ghosts == <<redeemed, grants, revived, paid, worth>>
store == <<code, sub, funds>>
world == <<adm, now, edits>>

NoRow == 0
NoLoc == [code |-> NoCode, base |-> 0, row |-> NoRow, exp |-> 0, wake |-> FALSE]
NoAdm == [op |-> "idle", code |-> NoCode, row |-> NoRow, exp |-> 0, days |-> 0,
          wake |-> FALSE]
Unborn == [live |-> FALSE, exp |-> 0, status |-> "expired"]

AtMost(a, b) == IF a <= b THEN a ELSE b

Init ==
    /\ code = [c \in Codes |-> "unused"]
    /\ sub = [r \in Rows |-> Unborn]
    /\ funds = InitialFunds
    /\ lock = {}
    /\ pc = [w \in Workers |-> "idle"] /\ loc = [w \in Workers |-> NoLoc]
    /\ adm = NoAdm
    /\ now = 0 /\ faults = 0 /\ edits = 0
    /\ redeemed = [c \in Codes |-> 0] /\ grants = [c \in Codes |-> 0]
    /\ revived = [c \in Codes |-> 0] /\ paid = 0
    /\ worth = [k \in Funds |-> [least |-> InitialFunds[k], most |-> InitialFunds[k],
                                 floor |-> AtMost(0, InitialFunds[k]),
                                 raced |-> FALSE, credited |-> FALSE]]

-----------------------------------------------------------------------------
(* The terms of a subscription.                                            *)

\* normalizeAssignValidityDays
Normalized(days) == IF days <= 0 THEN DefaultDays ELSE AtMost(days, MaxDays)

\* Mutant: the last possible expiry is forgotten.
ProlongedForEver(exp, days) == (IF exp > now THEN exp ELSE now) + days

\* An unexpired term is prolonged, an expired one starts again today.
Prolonged(exp, days) ==
    AtMost((IF exp > now THEN exp ELSE now) + days, MaxExpires)

\* Mutant: the days of a reduction are added.
ShortenedWrongly(exp, days) == AtMost(exp + days, MaxExpires)

\* A term cut by days; there are more left.
Shortened(exp, days) == exp - days

\* The rows a query returns: soft-deleted ones are filtered out.
Live == {r \in Rows : sub[r].live}

\* UpdateOneID writes a soft-deleted row as well.
WriteTerm(r, exp, wake) ==
    sub' = [sub EXCEPT ![r].exp = exp,
                       ![r].status = IF wake THEN "active" ELSE @]

CanCreate == Live = {} /\ \E r \in Rows : sub[r] = Unborn

\* createSubscription; the partial unique index allows one live row.
CreateTerm(exp) ==
    LET r == CHOOSE r \in Rows : sub[r] = Unborn /\ \A q \in 1..(r - 1) : sub[q] # Unborn
    IN  sub' = [sub EXCEPT ![r] = [live |-> TRUE, exp |-> exp, status |-> "active"]]

-----------------------------------------------------------------------------
(* Rows and connections held by open transactions.                         *)

Steps == {"idle", "read", "begin", "use", "fund", "find", "extend", "reread",
          "reduce", "cut", "commit", "release"}

\* Steps of a worker whose transaction has marked its code.
Marked == {"fund", "find", "extend", "reread", "reduce", "cut", "commit"}
InTx == Marked \cup {"use"}

CodeLocked(c) == \E w \in Workers : loc[w].code = c /\ pc[w] \in Marked

Kind(w) == KindOf[loc[w].code]
Value(w) == ValueOf[loc[w].code]
Shortens(w) == Kind(w) = "subscription" /\ Value(w) < 0
Creates(w) == Kind(w) = "subscription" /\ Value(w) >= 0 /\ loc[w].row = NoRow

RowLocked(r) == \E w \in Workers : pc[w] = "commit" /\ Shortens(w) /\ loc[w].row = r
InsertPending == \E w \in Workers : pc[w] = "commit" /\ Creates(w)

ConnFree == Cardinality({w \in Workers : pc[w] \in InTx}) < MaxConns

Fault == faults < MaxFaults /\ faults' = faults + 1
NoFault == UNCHANGED faults

Goto(w, step) == pc' = [pc EXCEPT ![w] = step]

-----------------------------------------------------------------------------
(* Redeem.                                                                 *)

\* acquireRedeemLock, which lets the request pass when Redis fails.  A request
\* refused by checkRedeemRateLimit or by the lock changes nothing.
Start(w, c) ==
    /\ pc[w] = "idle"
    /\ \/ c \notin lock /\ lock' = lock \cup {c} /\ NoFault
       \/ Fault /\ lock' \in {lock, lock \cup {c}}
    /\ Goto(w, "read")
    /\ loc' = [loc EXCEPT ![w].code = c]
    /\ UNCHANGED <<store, world, ghosts>>

\* GetByCode, its checks, and the read of the user.  A code's expires_at may
\* pass before any of its reads.
Read(w) ==
    LET c == loc[w].code
    IN  /\ pc[w] = "read"
        /\ \/ /\ code[c] = "unused" /\ Goto(w, "begin")
              /\ loc' = [loc EXCEPT ![w].base = IF KindOf[c] \in Funds
                                               THEN funds[KindOf[c]] ELSE @]
           \/ Goto(w, "release") /\ UNCHANGED loc
        /\ NoFault
        /\ UNCHANGED <<store, lock, world, ghosts>>

BeginTx(w) ==
    /\ pc[w] = "begin" /\ ConnFree
    /\ Goto(w, "use")
    /\ NoFault
    /\ UNCHANGED <<store, lock, loc, world, ghosts>>

AfterUse(w) == IF Kind(w) \in Funds THEN "fund"
               ELSE IF Value(w) < 0 THEN "reduce" ELSE "find"

\* Mutant: the code is marked by its id alone.
UseAnyStatus(w) ==
    /\ pc[w] = "use" /\ ~CodeLocked(loc[w].code)
    /\ Goto(w, AfterUse(w))
    /\ NoFault
    /\ UNCHANGED <<store, lock, loc, world, ghosts>>

\* UPDATE ... WHERE status = 'unused', which waits for the row.
Use(w) ==
    /\ pc[w] = "use" /\ ~CodeLocked(loc[w].code)
    /\ Goto(w, IF code[loc[w].code] = "unused" THEN AfterUse(w) ELSE "release")
    /\ NoFault
    /\ UNCHANGED <<store, lock, loc, world, ghosts>>

\* Mutant: the clamped amount has the wrong sign.
ClampedWrongly(w) == IF Value(w) < 0 /\ loc[w].base + Value(w) < 0
                     THEN loc[w].base ELSE Value(w)

\* The amount, clamped by the balance or the concurrency that Read saw.
Clamped(w) == IF Value(w) < 0 /\ loc[w].base + Value(w) < 0
              THEN 0 - loc[w].base ELSE Value(w)

\* UpdateBalance or UpdateConcurrency, in the transaction.
Fund(w) ==
    /\ pc[w] = "fund"
    /\ Goto(w, "commit")
    /\ NoFault
    /\ UNCHANGED <<store, lock, loc, world, ghosts>>

\* AssignOrExtendSubscription reads the subscription and computes its new
\* expiry; a new one is inserted in the transaction of Redeem, and refused by
\* the unique index when another one was inserted since the read.
Find(w) ==
    /\ pc[w] = "find"
    /\ \/ \E r \in Live :
             /\ loc' = [loc EXCEPT ![w].row = r,
                                   ![w].exp = Prolonged(sub[r].exp, Normalized(Value(w))),
                                   ![w].wake = sub[r].exp <= now \/ sub[r].status # "active"]
             /\ Goto(w, "extend")
       \/ /\ Live = {} /\ ~InsertPending
          /\ loc' = [loc EXCEPT ![w].exp = AtMost(now + Normalized(Value(w)), MaxExpires)]
          /\ Goto(w, "commit")
       \/ Live = {} /\ InsertPending /\ Goto(w, "release") /\ UNCHANGED loc
    /\ NoFault
    /\ UNCHANGED <<store, lock, world, ghosts>>

\* Mutant: an update that fails goes unnoticed.
ExtendUnchecked(w) ==
    /\ pc[w] = "extend" /\ ConnFree
    /\ Goto(w, "reread")
    /\ Fault
    /\ UNCHANGED <<store, lock, loc, world, ghosts>>

\* updateExistingSubscriptionTerm, in a transaction of its own: it needs
\* a second connection and is durable before Redeem commits.
Extend(w) ==
    /\ pc[w] = "extend" /\ ConnFree /\ ~RowLocked(loc[w].row)
    /\ WriteTerm(loc[w].row, loc[w].exp, loc[w].wake)
    /\ grants' = [grants EXCEPT ![loc[w].code] = @ + 1]
    /\ paid' = paid + Normalized(Value(w))
    /\ Goto(w, "reread")
    /\ NoFault
    /\ UNCHANGED <<code, funds, lock, loc, world, redeemed, revived, worth>>

\* GetByID of the extended row, which is not found once revoked.
Reread(w) ==
    /\ pc[w] = "reread"
    /\ Goto(w, IF sub[loc[w].row].live THEN "commit" ELSE "release")
    /\ NoFault
    /\ UNCHANGED <<store, lock, loc, world, ghosts>>

\* reduceOrCancelSubscription reads the subscription ...
Reduce(w) ==
    /\ pc[w] = "reduce"
    /\ \/ /\ Live = {} /\ Goto(w, "release") /\ UNCHANGED loc
       \/ \E r \in Live :
             LET left == IF sub[r].exp > now THEN sub[r].exp - now ELSE 0
                 cancel == left <= 0 - Value(w)
             IN  /\ loc' = [loc EXCEPT ![w].row = r, ![w].wake = cancel,
                                ![w].exp = IF cancel THEN now
                                           ELSE Shortened(sub[r].exp, 0 - Value(w))]
                 /\ Goto(w, "cut")
    /\ NoFault
    /\ UNCHANGED <<store, lock, world, ghosts>>

\* ... and writes it in the transaction of Redeem.
Cut(w) ==
    /\ pc[w] = "cut" /\ ~RowLocked(loc[w].row)
    /\ Goto(w, "commit")
    /\ NoFault
    /\ UNCHANGED <<store, lock, loc, world, ghosts>>

\* The ghost's account of a balance or concurrency code.
Accounted(w) ==
    LET account == worth[Kind(w)]
    IN  [least |-> account.least + Value(w),
         most |-> account.most + (IF Value(w) > 0 THEN Value(w) ELSE 0),
         floor |-> account.floor,
         raced |-> account.raced \/ (Value(w) < 0 /\ funds[Kind(w)] < loc[w].base),
         credited |-> account.credited \/ (Value(w) < 0 /\ loc[w].base < 0)]

\* What the committing transaction has written besides the code.
CommitBenefit(w) ==
    IF Kind(w) \in Funds
    THEN /\ funds' = [funds EXCEPT ![Kind(w)] = @ + Clamped(w)]
         /\ grants' = [grants EXCEPT ![loc[w].code] = @ + 1]
         /\ worth' = [worth EXCEPT ![Kind(w)] = Accounted(w)]
         /\ UNCHANGED <<sub, paid>>
    ELSE IF Shortens(w)
    THEN /\ sub' = [sub EXCEPT ![loc[w].row].exp = loc[w].exp,
                               ![loc[w].row].status = IF loc[w].wake THEN "expired" ELSE @]
         /\ grants' = [grants EXCEPT ![loc[w].code] = @ + 1]
         /\ UNCHANGED <<funds, paid, worth>>
    ELSE IF Creates(w)
    THEN /\ CanCreate /\ CreateTerm(loc[w].exp)
         /\ grants' = [grants EXCEPT ![loc[w].code] = @ + 1]
         /\ paid' = paid + Normalized(Value(w))
         /\ UNCHANGED <<funds, worth>>
    ELSE UNCHANGED <<sub, funds, grants, paid, worth>>

Commit(w) ==
    /\ pc[w] = "commit"
    /\ CommitBenefit(w)
    /\ code' = [code EXCEPT ![loc[w].code] = "used"]
    /\ redeemed' = [redeemed EXCEPT ![loc[w].code] = @ + 1]
    /\ Goto(w, "release")
    /\ NoFault
    /\ UNCHANGED <<lock, loc, world, revived>>

\* The deferred releaseRedeemLock deletes the key, whoever set it; with a
\* cancelled context the call fails and the key stays.
Release(w) ==
    /\ pc[w] = "release"
    /\ \/ lock' = lock \ {loc[w].code} /\ NoFault
       \/ Fault /\ UNCHANGED lock
    /\ Goto(w, "idle")
    /\ loc' = [loc EXCEPT ![w] = NoLoc]
    /\ UNCHANGED <<store, world, ghosts>>

\* A call fails or the context is cancelled: the transaction rolls back.
Abort(w) ==
    /\ pc[w] \in Steps \ {"idle", "release"}
    /\ Fault
    /\ Goto(w, "release")
    /\ UNCHANGED <<store, lock, loc, world, ghosts>>

\* The client disconnects from a request that waits for a connection.
GiveUp(w) ==
    /\ pc[w] \in {"begin", "extend"} /\ ~ConnFree
    /\ Goto(w, "release")
    /\ NoFault
    /\ UNCHANGED <<store, lock, loc, world, ghosts>>

\* The process dies; the Redis lock stays.
Crash(w) ==
    /\ pc[w] # "idle"
    /\ Fault
    /\ Goto(w, "idle")
    /\ loc' = [loc EXCEPT ![w] = NoLoc]
    /\ UNCHANGED <<store, lock, world, ghosts>>

LockExpire(c) ==
    /\ c \in lock
    /\ lock' = lock \ {c}
    /\ UNCHANGED <<store, pc, loc, world, faults, ghosts>>

-----------------------------------------------------------------------------
(* The administrators' operations on codes.                                *)

rest == <<lock, pc, loc, faults, redeemed, grants, worth>>

Edit(op, record) ==
    /\ adm.op = "idle" /\ edits < MaxEdits
    /\ edits' = edits + 1
    /\ adm' = [record EXCEPT !.op = op]
    /\ UNCHANGED <<store, now, revived, paid, rest>>

\* DeleteRedeemCode: one statement, whatever the code's status.
DeleteCode(c) ==
    /\ adm.op = "idle" /\ edits < MaxEdits
    /\ code[c] # "deleted" /\ ~CodeLocked(c)
    /\ edits' = edits + 1
    /\ code' = [code EXCEPT ![c] = "deleted"]
    /\ UNCHANGED <<sub, funds, adm, now, revived, paid, rest>>

\* BatchUpdate reads the code and refuses a used one; ExpireRedeemCode reads it
\* and refuses none.
CheckCode(c) ==
    /\ code[c] # "deleted"
    /\ \/ /\ code[c] # "used"
          /\ \E op \in {"enable", "disable"} : Edit(op, [NoAdm EXCEPT !.code = c])
       \/ Edit("expire", [NoAdm EXCEPT !.code = c])

\* The row is written by its id alone.  An edit of a code that was deleted
\* meanwhile affects no row.
WriteCode ==
    LET c == adm.code
        status == [enable |-> "unused", disable |-> "disabled", expire |-> "expired"]
    IN  /\ adm.op \in {"enable", "disable", "expire"} /\ ~CodeLocked(c)
        /\ code' = IF code[c] = "deleted" THEN code ELSE [code EXCEPT ![c] = status[adm.op]]
        /\ revived' = IF code[c] = "used" THEN [revived EXCEPT ![c] = @ + 1] ELSE revived
        /\ adm' = NoAdm
        /\ UNCHANGED <<sub, funds, now, edits, paid, rest>>

-----------------------------------------------------------------------------
(* The administrators' operations on the subscription, usage and time.     *)

admRest == <<code, funds, revived, rest>>

\* AssignSubscription: an existing subscription is returned as it is.
CheckAssign ==
    /\ Live = {}
    /\ Edit("assign", [NoAdm EXCEPT !.exp = AtMost(now + DefaultDays, MaxExpires)])

\* The insert waits for one that is pending and fails if there is a row.
Assign ==
    /\ adm.op = "assign" /\ ~InsertPending
    /\ IF Live = {} THEN CreateTerm(adm.exp) /\ paid' = paid + DefaultDays
                    ELSE UNCHANGED <<sub, paid>>
    /\ adm' = NoAdm
    /\ UNCHANGED <<now, edits, admRest>>

\* RevokeSubscription
Revoke(r) ==
    /\ adm.op = "idle" /\ edits < MaxEdits
    /\ r \in Live /\ ~RowLocked(r)
    /\ edits' = edits + 1
    /\ sub' = [sub EXCEPT ![r].live = FALSE]
    /\ UNCHANGED <<adm, now, paid, admRest>>

\* ExtendSubscription: read the row and compute its new expiry ...
CheckAdjust(r, days) ==
    LET exp == Prolonged(sub[r].exp, days)
    IN  /\ r \in Live /\ (sub[r].exp > now \/ days > 0) /\ exp > now
        /\ Edit("adjust", [NoAdm EXCEPT !.row = r, !.exp = exp, !.days = days,
                                        !.wake = sub[r].status = "expired"])

\* ... write it, and then the status, each in a transaction of its own.
Adjust ==
    /\ adm.op = "adjust" /\ ~RowLocked(adm.row)
    /\ WriteTerm(adm.row, adm.exp, FALSE)
    /\ paid' = IF adm.days > 0 THEN paid + adm.days ELSE paid
    /\ adm' = IF adm.wake THEN [adm EXCEPT !.op = "wake"] ELSE NoAdm
    /\ UNCHANGED <<now, edits, admRest>>

Wake ==
    /\ adm.op = "wake" /\ ~RowLocked(adm.row)
    /\ \/ WriteTerm(adm.row, sub[adm.row].exp, TRUE) /\ NoFault
       \/ Fault /\ UNCHANGED sub
    /\ adm' = NoAdm
    /\ UNCHANGED <<code, funds, lock, pc, loc, now, edits, ghosts>>

\* subscription_expiry_service: one UPDATE, which waits for locked rows.
ExpirySweep ==
    /\ \A r \in Rows : ~RowLocked(r)
    /\ sub' = [r \in Rows |-> IF sub[r].live /\ sub[r].exp <= now
                              THEN [sub[r] EXCEPT !.status = "expired"] ELSE sub[r]]
    /\ UNCHANGED <<adm, now, edits, paid, admRest>>

\* deductUsageBillingBalance: the cost of a request that was served is taken
\* from the balance, whatever is left of it.
Spend(amount) ==
    LET left == funds["balance"] - amount
    IN  /\ left >= 0 - MaxDebt
        /\ funds' = [funds EXCEPT !["balance"] = left]
        /\ worth' = [worth EXCEPT !["balance"].least = @ - amount,
                                  !["balance"].most = @ - amount,
                                  !["balance"].floor = AtMost(0, left)]
        /\ UNCHANGED <<code, sub, lock, pc, loc, world, faults,
                       redeemed, grants, revived, paid>>

Tick ==
    /\ now < MaxNow
    /\ now' = now + 1
    /\ UNCHANGED <<sub, adm, edits, paid, admRest>>

-----------------------------------------------------------------------------

WorkerStep(w) ==
    \/ Read(w) \/ BeginTx(w) \/ Use(w) \/ Fund(w) \/ Find(w) \/ Extend(w)
    \/ Reread(w) \/ Reduce(w) \/ Cut(w) \/ Commit(w) \/ Release(w)

AdminStep ==
    \/ WriteCode \/ Assign \/ Adjust \/ Wake
    \/ CheckAssign
    \/ \E c \in Codes : DeleteCode(c) \/ CheckCode(c)
    \/ \E r \in Rows : Revoke(r) \/ \E d \in Adjustments : CheckAdjust(r, d)

Next ==
    \/ \E w \in Workers :
          \/ \E c \in Codes : Start(w, c)
          \/ WorkerStep(w) \/ Abort(w) \/ GiveUp(w) \/ Crash(w)
    \/ \E c \in Codes : LockExpire(c)
    \/ AdminStep \/ ExpirySweep \/ Tick
    \/ \E amount \in Charges : Spend(amount)

Spec == Init /\ [][Next]_vars

-----------------------------------------------------------------------------
(* Properties.                                                             *)

Row == [live : BOOLEAN, exp : 0..MaxExpires, status : {"active", "expired"}]

\* Every variable has its type.
TypeOK ==
    /\ code \in [Codes -> {"unused", "used", "disabled", "expired", "deleted"}]
    /\ sub \in [Rows -> Row]
    /\ funds \in [Funds -> Int]
    /\ lock \subseteq Codes
    /\ pc \in [Workers -> Steps]
    /\ loc \in [Workers -> [code : Codes \cup {NoCode}, base : Int,
                            row : Rows \cup {NoRow}, exp : 0..MaxExpires,
                            wake : BOOLEAN]]
    /\ adm \in [op : {"idle", "enable", "disable", "expire", "assign", "adjust", "wake"},
                code : Codes \cup {NoCode}, row : Rows \cup {NoRow},
                exp : 0..MaxExpires, days : Int, wake : BOOLEAN]
    /\ now \in 0..MaxNow /\ faults \in 0..MaxFaults
    /\ edits \in 0..MaxEdits
    /\ redeemed \in [Codes -> Nat] /\ grants \in [Codes -> Nat]
    /\ revived \in [Codes -> Nat] /\ paid \in Nat
    /\ worth \in [Funds -> [least : Int, most : Int, floor : Int,
                            raced : BOOLEAN, credited : BOOLEAN]]

\* A code is redeemed once, whoever holds the Redis lock and whatever fails;
\* only an edit that overwrites a used code lets it be redeemed again.
RedeemedOnce ==
    \A c \in Codes : /\ redeemed[c] <= 1 + revived[c]
                     /\ code[c] = "unused" => redeemed[c] <= revived[c]

\* No code is used up for nothing, and a balance or concurrency code grants
\* exactly as often as it is redeemed.
GrantedAsRedeemed ==
    \A c \in Codes : /\ redeemed[c] <= grants[c]
                     /\ KindOf[c] \in Funds => grants[c] = redeemed[c]

\* A negative code never takes more than its value.  It is clamped by a balance
\* read before the transaction: as long as none drops between this read and the
\* commit, no code takes it below zero (the comment at redeem_service.go:444),
\* or further below than usage had; and as long as none is read below zero,
\* where the clamp turns a deduction into a credit, only positive codes add to it.
FundsMatchCodes ==
    \A k \in Funds :
        /\ worth[k].least <= funds[k]
        /\ ~worth[k].raced => worth[k].floor <= funds[k]
        /\ ~worth[k].credited => funds[k] <= worth[k].most

\* Redeem marks the code and grants its benefit atomically: when no request
\* works on a code, it has granted as often as it was redeemed.
AtomicRedeem ==
    \A c \in Codes : (\A w \in Workers : loc[w].code # c) => grants[c] = redeemed[c]

\* However extensions, reductions and edits overwrite each other's expiry, a
\* subscription never runs for more days than were granted.
TermIsPaid == \A r \in Live : sub[r].exp <= now + paid
=============================================================================
