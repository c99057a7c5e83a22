---------------------- MODULE SystemOperationLockProofs ----------------------
(***************************************************************************)
(* That system operations exclude each other, for any number of them and   *)
(* of operation ids: the short ones whatever fails, and those that outlive *)
(* their lease as long as renewLoop gets through in time and no operation  *)
(* outlives the lease of a row it took over.                               *)
(***************************************************************************)
EXTENDS SystemOperationLock, TLAPS

\* A holder's lease is on record and has not run out.
LeaseHolds ==
    \A c \in Callers : pc[c] \in HolderSteps =>
        /\ rec.id = seen[c].id
        /\ rec.status = "processing"
        /\ rec.lock >= Timeout - age[c]
        /\ rec.exp >= TTL - age[c]

\* The clean-up has selected a record that nobody holds.
VictimExpired == victim # None /\ victim = rec.id => rec.exp <= 0

HoldersRenew == \A c \in Callers : pc[c] \notin HolderSteps => renewal[c] = Off

\* What holds, if operations are short, until a claim falls into a clean-up.
LockInv ==
    /\ TypeOK /\ LeaseHolds /\ Exclusive /\ VictimExpired /\ HoldersRenew
    /\ ~lapsed

\* The id of a new record is known to nobody.
LEMMA NextIdIsFresh ==
  ASSUME FreshIds # {}
  PROVE  NextId \in Ids /\ NextId # victim /\ \A c \in Callers : seen[c].id # NextId
  <1>1. NextId \in FreshIds
    BY DEF NextId
  <1> QED
    BY <1>1 DEF FreshIds

LEMMA PastIsNegative == Past \in Int /\ Past < 0
  BY TimeAssumption DEF Past

LEMMA LockInit == Init => LockInv
  <1> SUFFICES ASSUME Init PROVE LockInv
    OBVIOUS
  <1>1. torn \in BOOLEAN /\ lapsed \in BOOLEAN /\ ~lapsed
    BY Zenon DEF Init, StoreInit
  <1> QED
    BY <1>1, NoneAssumption, TimeAssumption, ClaimAssumption, PastIsNegative
    DEF Off, Init, StoreInit, LockInv, TypeOK, StoreOK, LeaseHolds, Exclusive,
        VictimExpired, HoldersRenew, NoRecord, Row, NotSeen, RecordStatuses, HolderSteps,
        ClaimSteps

\* No step forgets that a claim fell into a clean-up or that a lease lapsed.
LEMMA HistoryStays ==
  ASSUME [Next]_vars
  PROVE  (torn => torn') /\ (lapsed => lapsed')
  <1>1. CASE Tick
    BY <1>1, Zenon DEF Tick
  <1>2. CASE Cleanup
    BY <1>2, Zenon DEF Cleanup, DeleteExpired
  <1>3. ASSUME NEW c \in Callers, Reclaim(c)
        PROVE  (torn => torn') /\ (lapsed => lapsed')
    BY <1>3 DEF Reclaim, TryReclaim
  <1>4. CASE UNCHANGED <<torn, lapsed>>
    BY <1>4
  <1>5. Next => \/ Tick \/ Cleanup \/ UNCHANGED <<torn, lapsed>>
                \/ \E c \in Callers : Reclaim(c)
    BY DEF Next, storeVars, otherVars, Step, Begin, Create, ReadExisting,
       Renew, FinishOperation, Release, Crash
  <1>6. UNCHANGED vars => UNCHANGED <<torn, lapsed>>
    BY DEF vars, storeVars
  <1> QED
    BY <1>1, <1>2, <1>3, <1>4, <1>5, <1>6

-----------------------------------------------------------------------------
(* Type correctness.                                                       *)

\* What a handler that returns leaves behind.
LEMMA ReturnKeepsTypes ==
  ASSUME TypeOK, NEW c \in Callers, Return(c), Fault \/ NoFault,
         UNCHANGED <<rec, otherVars>>
  PROVE  TypeOK'
  BY NoneAssumption, TimeAssumption, ClaimAssumption
  DEF Off, TypeOK, StoreOK, RecordStatuses, HolderSteps, ClaimSteps, Return, Goto,
      NotSeen, Fault, NoFault, otherVars

LEMMA TypeStep ==
  ASSUME TypeOK, [Next]_vars
  PROVE  TypeOK'
  <1> USE NoneAssumption, TimeAssumption, ClaimAssumption, PastIsNegative
          DEF TypeOK, StoreOK, RecordStatuses, HolderSteps, ClaimSteps, Row,
              Updated, Off
  <1>1. ASSUME NEW c \in Callers, NEW p \in Prints, Begin(c, p)
        PROVE  TypeOK'
    BY <1>1 DEF Begin, Goto, otherVars
  <1>2. ASSUME NEW c \in Callers, Create(c)
        PROVE  TypeOK'
    <2>0. UNCHANGED otherVars
      BY <1>2 DEF Create
    <2>1. CASE CreateProcessing(c) /\ Acquired(c) /\ NoFault
      <3>1. PICK id \in Ids :
              /\ rec' = Row(id, "processing", print[c], Instant(c, Timeout),
                            Instant(c, TTL), None)
              /\ seen' = [seen EXCEPT ![c] = [id |-> id, status |-> "processing"]]
        BY <2>1, NextIdIsFresh DEF CreateProcessing
      <3>2. Instant(c, Timeout) \in Int /\ Instant(c, TTL) \in Int
        BY DEF Instant
      <3>3. pc' \in [Callers -> {"idle"} \cup ClaimSteps \cup HolderSteps]
        BY <2>1 DEF Acquired, Goto
      <3>4. /\ renewal' \in [Callers -> Off..Interval]
            /\ UNCHANGED <<age, print, faults>>
        BY <2>1 DEF Acquired, NoFault
      <3>5. seen' \in [Callers -> [id : Ids \cup {None}, status : RecordStatuses]]
        BY <3>1
      <3> QED
        BY <2>0, <3>1, <3>2, <3>3, <3>4, <3>5 DEF otherVars
    <2>2. CASE Goto(c, "read") /\ NoFault /\ UNCHANGED <<rec, age, print, seen, renewal>>
      BY <2>0, <2>2 DEF Goto, NoFault, otherVars
    <2>3. CASE Fault /\ Return(c) /\ UNCHANGED rec
      BY <2>0, <2>3, ReturnKeepsTypes
    <2> QED
      BY <1>2, <2>1, <2>2, <2>3 DEF Create
  <1>3. ASSUME NEW c \in Callers, ReadExisting(c)
        PROVE  TypeOK'
    <2>1. CASE Return(c) /\ (Fault \/ NoFault)
      BY <1>3, <2>1, ReturnKeepsTypes DEF ReadExisting
    <2>2. CASE GetRecord(c) /\ Goto(c, "reclaim") /\ NoFault
               /\ UNCHANGED <<age, print, renewal>>
      <3>1. seen' \in [Callers -> [id : Ids \cup {None}, status : RecordStatuses]]
        BY <2>2 DEF GetRecord
      <3>2. pc' \in [Callers -> {"idle"} \cup ClaimSteps \cup HolderSteps]
        BY <2>2 DEF Goto
      <3>3. UNCHANGED <<rec, age, print, renewal, faults, victim, torn, lapsed>>
        BY <1>3, <2>2 DEF ReadExisting, NoFault, otherVars
      <3> QED
        BY <3>1, <3>2, <3>3
    <2> QED
      BY <1>3, <2>1, <2>2 DEF ReadExisting
  <1>4. ASSUME NEW c \in Callers, Reclaim(c)
        PROVE  TypeOK'
    <2>0. UNCHANGED <<victim, lapsed>>
      BY <1>4 DEF Reclaim
    <2>1. CASE TryReclaim(c) /\ Acquired(c)
      <3>1. Instant(c, Timeout) \in Int /\ Instant(c, TTL) \in Int
        BY DEF Instant
      <3>2. /\ rec.status # "absent"
            /\ rec' = Updated("processing", Instant(c, Timeout), Instant(c, TTL))
            /\ seen' = [seen EXCEPT ![c] = [id |-> rec.id, status |-> "processing"]]
        BY <2>1 DEF TryReclaim, Reclaimable
      <3>3. pc' \in [Callers -> {"idle"} \cup ClaimSteps \cup HolderSteps]
        BY <2>1 DEF Acquired, Goto
      <3>4. renewal' \in [Callers -> Off..Interval] /\ UNCHANGED <<age, print>>
        BY <2>1 DEF Acquired
      <3>5. torn' \in BOOLEAN
        BY <2>1, Zenon DEF TryReclaim
      <3>6. faults' \in Nat
        BY <2>1 DEF TryReclaim, Fault, NoFault
      <3>7. seen' \in [Callers -> [id : Ids \cup {None}, status : RecordStatuses]]
        BY <3>2
      <3> QED
        BY <2>0, <3>1, <3>2, <3>3, <3>4, <3>5, <3>6, <3>7
    <2>2. CASE Return(c) /\ (Fault \/ NoFault) /\ UNCHANGED <<rec, torn>>
      BY <2>0, <2>2, ReturnKeepsTypes DEF otherVars
    <2> QED
      BY <1>4, <2>1, <2>2 DEF Reclaim
  <1>5. ASSUME NEW c \in Callers, Renew(c)
        PROVE  TypeOK'
    BY <1>5 DEF Renew, AfterFailedRenewal, Owned, Fault, NoFault, otherVars
  <1>6. ASSUME NEW c \in Callers, FinishOperation(c)
        PROVE  TypeOK'
    BY <1>6 DEF FinishOperation, Goto, storeVars
  <1>7. ASSUME NEW c \in Callers, Release(c)
        PROVE  TypeOK'
    BY <1>7 DEF Release, Mark, FailedRetryable, Goto, Return, NotSeen, Fault,
       NoFault, otherVars
  <1>8. ASSUME NEW c \in Callers, Crash(c)
        PROVE  TypeOK'
    BY <1>8, ReturnKeepsTypes DEF Crash
  <1>9. CASE Cleanup
    BY <1>9 DEF Cleanup, DeleteExpired, SelectExpired, DeleteVictim, NoRecord
  <1>10. CASE Tick
    <2>1. lapsed' \in BOOLEAN
      BY <1>10, Zenon DEF Tick
    <2> QED
      BY <1>10, <2>1 DEF Tick, Aged, Elapse
  <1>11. CASE UNCHANGED vars
    BY <1>11 DEF vars, storeVars
  <1> QED
    BY <1>1, <1>2, <1>3, <1>4, <1>5, <1>6, <1>7, <1>8, <1>9, <1>10, <1>11
    DEF Next, Step

\* Every variable of the lock keeps its type.
THEOREM LockTypeCorrect == Spec => []TypeOK
  <1>1. Init => TypeOK
    BY LockInit DEF LockInv
  <1> QED
    BY <1>1, TypeStep, PTL DEF Spec

-----------------------------------------------------------------------------
(* Exclusion.                                                              *)

\* Nobody can claim a lock that is held: the row exists, says processing,
\* and its lease has not passed for any clock reading.
LEMMA HeldIsNotClaimed ==
  ASSUME MaxAge < Timeout, LockInv, NEW c \in Callers,
         pc[c] \in HolderSteps, NEW d \in Callers
  PROVE  rec.status # "absent" /\ ~Reclaimable(d) /\ rec.exp > 0
  BY TimeAssumption, ClaimAssumption
  DEF LockInv, TypeOK, StoreOK, LeaseHolds, Reclaimable, Passed

LEMMA LockStep ==
  ASSUME MaxAge < Timeout, LockInv, ~torn', [Next]_vars
  PROVE  LockInv'
  <1> USE TimeAssumption, ClaimAssumption, PastIsNegative
  <1>0. TypeOK'
    BY TypeStep DEF LockInv
  <1> USE DEF LockInv, TypeOK, StoreOK, LeaseHolds, Exclusive, VictimExpired,
              HoldersRenew, HolderSteps, ClaimSteps, Row, Updated
  <1>1. ASSUME NEW c \in Callers, NEW p \in Prints, Begin(c, p)
        PROVE  LockInv'
    BY <1>0, <1>1 DEF Begin, Goto, otherVars
  <1>2. ASSUME NEW c \in Callers, Create(c)
        PROVE  LockInv'
    <2>0. UNCHANGED <<victim, lapsed>> /\ pc[c] = "create"
      BY <1>2 DEF Create, otherVars
    <2>1. CASE CreateProcessing(c) /\ Acquired(c)
      <3>1. \A d \in Callers : pc[d] \notin HolderSteps
        BY <2>1, HeldIsNotClaimed DEF CreateProcessing
      <3>2. NextId # victim
        BY <2>1, NextIdIsFresh DEF CreateProcessing
      <3> QED
        BY <1>0, <2>0, <2>1, <3>1, <3>2
        DEF CreateProcessing, Instant, Acquired, Goto
    <2>2. CASE Goto(c, "read") /\ UNCHANGED <<rec, age, print, seen, renewal>>
      BY <1>0, <2>0, <2>2 DEF Goto
    <2>3. CASE Return(c) /\ UNCHANGED rec
      BY <1>0, <2>0, <2>3 DEF Goto, Return
    <2> QED
      BY <1>2, <2>1, <2>2, <2>3 DEF Create
  <1>3. ASSUME NEW c \in Callers, ReadExisting(c)
        PROVE  LockInv'
    <2>0. UNCHANGED <<rec, victim, lapsed>> /\ pc[c] = "read"
      BY <1>3 DEF ReadExisting, otherVars
    <2>1. CASE Return(c)
      BY <1>0, <2>0, <2>1 DEF Goto, Return
    <2>2. CASE GetRecord(c) /\ Goto(c, "reclaim") /\ UNCHANGED <<age, print, renewal>>
      BY <1>0, <2>0, <2>2 DEF GetRecord, Goto
    <2> QED
      BY <1>3, <2>1, <2>2 DEF ReadExisting
  <1>4. ASSUME NEW c \in Callers, Reclaim(c)
        PROVE  LockInv'
    <2>0. UNCHANGED <<victim, lapsed>>
      BY <1>4 DEF Reclaim
    <2>1. CASE TryReclaim(c) /\ Acquired(c)
      <3>1. \A d \in Callers : pc[d] \notin HolderSteps
        BY <2>1, HeldIsNotClaimed DEF TryReclaim
      <3>2. rec.id # victim
        BY <2>1 DEF TryReclaim
      <3> QED
        BY <1>0, <2>0, <2>1, <3>1, <3>2
        DEF TryReclaim, Reclaimable, Instant, Acquired, Goto
    <2>2. CASE Return(c) /\ UNCHANGED rec
      BY <1>0, <2>0, <2>2 DEF Goto, Return
    <2> QED
      BY <1>4, <2>1, <2>2 DEF Reclaim
  <1>5. ASSUME NEW c \in Callers, Renew(c)
        PROVE  LockInv'
    <2>1. pc[c] \in HolderSteps
      BY <1>5 DEF Renew, Off
    <2>2. rec.id # victim
      BY <2>1
    <2>3. /\ UNCHANGED <<age, print, seen, pc, victim, lapsed>>
          /\ \/ UNCHANGED rec
             \/ rec' = Updated("processing", Timeout, TTL)
          /\ \A d \in Callers \ {c} : renewal'[d] = renewal[d]
      BY <1>5 DEF Renew, otherVars
    <2> QED
      BY <1>0, <2>1, <2>2, <2>3
  <1>6. ASSUME NEW c \in Callers, FinishOperation(c)
        PROVE  LockInv'
    BY <1>0, <1>6 DEF FinishOperation, Goto, storeVars
  <1>7. ASSUME NEW c \in Callers, Release(c)
        PROVE  LockInv'
    <2>1. /\ pc[c] \in HolderSteps /\ Return(c) /\ UNCHANGED <<victim, lapsed>>
          /\ rec'.id = rec.id
      BY <1>7 DEF Release, Mark, FailedRetryable, otherVars
    <2>2. rec.id # victim /\ \A d \in Callers \ {c} : pc[d] \notin HolderSteps
      BY <2>1
    <2> QED
      BY <1>0, <2>1, <2>2 DEF Goto, Return
  <1>8. ASSUME NEW c \in Callers, Crash(c)
        PROVE  LockInv'
    BY <1>0, <1>8 DEF Crash, Goto, Return, otherVars
  <1>9. CASE Cleanup
    <2>0. UNCHANGED <<age, print, seen, pc, renewal, lapsed>>
      BY <1>9 DEF Cleanup
    <2>1. CASE SelectExpired
      BY <1>0, <2>0, <2>1 DEF SelectExpired, Expired
    <2>2. CASE DeleteVictim /\ rec.id # victim
      BY <1>0, <2>0, <2>2 DEF DeleteVictim
    <2>3. CASE DeleteVictim /\ rec.id = victim
      <3>1. victim' = None /\ \A d \in Callers : pc[d] \notin HolderSteps
        BY <2>3, HeldIsNotClaimed DEF DeleteVictim
      <3> QED
        BY <1>0, <2>0, <3>1
    <2> QED
      BY <1>9, <2>1, <2>2, <2>3 DEF Cleanup, DeleteExpired
  <1>10. CASE Tick
    <2>1. /\ rec' = Aged /\ UNCHANGED <<print, seen, pc, victim>>
          /\ \A c \in Callers :
                /\ renewal[c] = Off => renewal'[c] = Off
                /\ age'[c] = IF pc[c] = "idle" THEN 0 ELSE age[c] + 1
                /\ pc[c] # "idle" => age[c] < MaxAge
      BY <1>10 DEF Tick, Off
    <2>2. LeaseHolds' /\ Exclusive' /\ VictimExpired' /\ HoldersRenew'
      BY <1>0, <2>1 DEF Aged, Elapse
    <2>3. \A c \in Callers : pc[c] \in HolderSteps => ~(rec'.lock <= 0)
      BY <1>0, <2>1, <2>2
    <2>4. ~lapsed'
      BY <1>10, <2>3 DEF Tick, TookOver
    <2> QED
      BY <1>0, <2>2, <2>4
  <1>11. CASE UNCHANGED vars
    BY <1>0, <1>11 DEF vars, storeVars
  <1> QED
    BY <1>1, <1>2, <1>3, <1>4, <1>5, <1>6, <1>7, <1>8, <1>9, <1>10, <1>11
    DEF Next, Step

\* System operations that end before their lease exclude each other, without
\* any help from renewals, whatever statement or process fails and whoever took
\* over whose row: no lease lapses, unless a claim falls into a clean-up.
THEOREM ShortOperationsExclude ==
  ASSUME MaxAge < Timeout
  PROVE  Spec => [](OneOperation /\ (~torn => ~lapsed))
  <1> DEFINE Inv == torn \/ LockInv
  <1>1. Inv /\ [Next]_vars => Inv'
    BY LockStep, HistoryStays
  <1>2. Init => Inv
    BY LockInit
  <1>3. Inv => OneOperation /\ (~torn => ~lapsed)
    BY DEF LockInv, OneOperation
  <1> QED
    BY <1>1, <1>2, <1>3, PTL DEF Spec

-----------------------------------------------------------------------------
(* Renewal: operations that outlive their lease.                           *)

\* What is left of the lease at the least, when the next round of renewLoop
\* is r away and f statements have failed.
LeaseLeft(r, f) == Timeout - MaxClaim - (Interval - r) - Interval * f

\* A holder's lease has not run out; if the row carries its id then its loop
\* is alive and the lease lasts until the loop's next round, even if every
\* failure so far was one of its renewals.
RenewalHolds ==
    \A c \in Callers : pc[c] \in HolderSteps =>
        /\ rec.id = seen[c].id
        /\ rec.status = "processing"
        /\ rec.lock > 0
        /\ rec.exp >= TTL - age[c]
        /\ rec.print = print[c] =>
             /\ renewal[c] \in 0..Interval
             /\ rec.lock >= LeaseLeft(renewal[c], faults)

\* Claims are made soon after `now` was read, and only holders renew.
ClaimsAreQuick ==
    \A c \in Callers :
        /\ pc[c] \notin HolderSteps => age[c] <= MaxClaim
        /\ pc[c] = "idle" => age[c] = 0
        /\ pc[c] \notin HolderSteps => renewal[c] = Off

\* What holds until a lease lapses or a claim falls into a clean-up.
RenewInv ==
    /\ TypeOK /\ faults <= MaxFaults
    /\ RenewalHolds /\ ClaimsAreQuick /\ VictimExpired /\ Exclusive

\* The lease outlasts a late claim and as many lost rounds of the loop as
\* there can be failures, and one more.
RenewHypothesis == MaxClaim + Interval * (MaxFaults + 1) < Timeout

\* The arithmetic of the lease.
LEMMA LeaseArithmetic ==
  ASSUME RenewHypothesis, NEW f \in 0..MaxFaults
  PROVE  /\ \A r \in 0..Interval :
               LeaseLeft(r, f) \in Int /\ LeaseLeft(r, f) > 0
         /\ LeaseLeft(Interval, f) <= Timeout - MaxClaim
         /\ \A r \in 0..Interval : LeaseLeft(r, f + 1) <= LeaseLeft(r, f)
         /\ LeaseLeft(Interval, f + 1) = LeaseLeft(0, f)
         /\ \A r \in 1..Interval : LeaseLeft(r - 1, f) = LeaseLeft(r, f) - 1
  <1> USE TimeAssumption, ClaimAssumption
  <1>1. PICK a \in Nat : a = Interval * f
    BY SMT
  <1>2. Interval * (f + 1) = a + Interval
    BY <1>1
  <1>3. PICK g \in Nat : f + g = MaxFaults
    <2>1. MaxFaults - f \in Nat /\ f + (MaxFaults - f) = MaxFaults
      OBVIOUS
    <2> QED
      BY <2>1
  <1>4. PICK b \in Nat : b = Interval * g
    BY SMT
  <1>5. Interval * (MaxFaults + 1) = a + b + Interval
    BY <1>1, <1>3, <1>4
  <1>6. MaxClaim + a + Interval < Timeout
    BY <1>5 DEF RenewHypothesis
  <1> QED
    BY <1>1, <1>2, <1>6 DEF LeaseLeft

LEMMA RenewInit == Init => RenewInv
  BY LockInit, TimeAssumption, ClaimAssumption
  DEF Init, StoreInit, LockInv, RenewInv, RenewalHolds, ClaimsAreQuick,
      HolderSteps

\* Nobody can claim a lock that is held, and it is not cleaned up.
LEMMA RenewedIsNotClaimed ==
  ASSUME RenewHypothesis, RenewInv, NEW c \in Callers, pc[c] \in HolderSteps
  PROVE  /\ rec.status # "absent" /\ rec.lock > 0 /\ rec.exp > 0
         /\ \A d \in Callers : ~Reclaimable(d)
  <1> USE TimeAssumption, ClaimAssumption DEF RenewInv, TypeOK, StoreOK
  <1>1. rec.status # "absent" /\ rec.lock > 0 /\ rec.exp > 0
    BY DEF RenewalHolds
  <1> QED
    BY <1>1 DEF Reclaimable, Passed

\* A caller that is no holder may come and go: nothing changes for holders.
LEMMA OthersHold ==
  ASSUME RenewHypothesis, RenewInv, TypeOK', NEW c \in Callers,
         \A d \in Callers \ {c} :
            /\ pc'[d] = pc[d] /\ age'[d] = age[d] /\ print'[d] = print[d]
            /\ seen'[d] = seen[d] /\ renewal'[d] = renewal[d],
         pc'[c] \notin HolderSteps,
         pc'[c] = "idle" => age'[c] = 0,
         age'[c] <= MaxClaim,
         renewal'[c] = Off,
         \/ UNCHANGED <<rec, victim>>
         \/ /\ \A d \in Callers \ {c} : pc[d] \notin HolderSteps
            /\ VictimExpired',
         faults' \in {faults, faults + 1}, faults' <= MaxFaults
  PROVE  RenewInv'
  <1> USE TimeAssumption, ClaimAssumption DEF RenewInv
  <1>1. faults \in 0..MaxFaults
    BY DEF TypeOK, StoreOK
  <1>2. ASSUME NEW d \in Callers, pc'[d] \in HolderSteps
        PROVE  /\ rec'.id = seen'[d].id
               /\ rec'.status = "processing"
               /\ rec'.lock > 0
               /\ rec'.exp >= TTL - age'[d]
               /\ rec'.print = print'[d] =>
                    /\ renewal'[d] \in 0..Interval
                    /\ rec'.lock >= LeaseLeft(renewal'[d], faults')
    <2>1. d # c /\ pc[d] \in HolderSteps /\ UNCHANGED rec
      BY <1>2
    <2>2. /\ rec.id = seen[d].id /\ rec.status = "processing"
          /\ rec.lock > 0 /\ rec.exp >= TTL - age[d]
          /\ rec.print = print[d] =>
               /\ renewal[d] \in 0..Interval
               /\ rec.lock >= LeaseLeft(renewal[d], faults)
      BY <2>1 DEF RenewalHolds
    <2>3. ASSUME rec.print = print[d]
          PROVE  rec.lock >= LeaseLeft(renewal[d], faults')
      <3>1. LeaseLeft(renewal[d], faults') <= LeaseLeft(renewal[d], faults)
        BY <1>1, <2>2, <2>3, LeaseArithmetic
      <3>2. /\ LeaseLeft(renewal[d], faults') \in Int
            /\ LeaseLeft(renewal[d], faults) \in Int /\ rec.lock \in Int
        BY <1>1, <2>2, <2>3, LeaseArithmetic DEF TypeOK, StoreOK
      <3> QED
        BY <2>2, <2>3, <3>1, <3>2
    <2> QED
      BY <2>1, <2>2, <2>3
  <1>3. RenewalHolds'
    BY <1>2 DEF RenewalHolds
  <1>4. ClaimsAreQuick'
    BY DEF ClaimsAreQuick
  <1>5. VictimExpired'
    BY DEF VictimExpired
  <1>6. Exclusive'
    BY DEF Exclusive
  <1> QED
    BY <1>3, <1>4, <1>5, <1>6

\* A caller that returns leaves the invariant as it is.
LEMMA ReturnHolds ==
  ASSUME RenewHypothesis, RenewInv, TypeOK', NEW c \in Callers, Return(c),
         Fault \/ NoFault,
         \/ UNCHANGED <<rec, victim>>
         \/ /\ \A d \in Callers \ {c} : pc[d] \notin HolderSteps
            /\ VictimExpired'
  PROVE  RenewInv'
  <1> USE TimeAssumption, ClaimAssumption
  <1>1. /\ pc'[c] = "idle" /\ age'[c] = 0 /\ renewal'[c] = Off
        /\ \A d \in Callers \ {c} :
              /\ pc'[d] = pc[d] /\ age'[d] = age[d] /\ print'[d] = print[d]
              /\ seen'[d] = seen[d] /\ renewal'[d] = renewal[d]
    BY DEF Return, Goto, RenewInv, TypeOK, StoreOK
  <1>2. faults' \in {faults, faults + 1} /\ faults' <= MaxFaults
    BY DEF Fault, NoFault, RenewInv, TypeOK, StoreOK
  <1>3. pc'[c] \notin HolderSteps /\ age'[c] <= MaxClaim
    BY <1>1 DEF HolderSteps
  <1> QED
    BY <1>1, <1>2, <1>3, OthersHold

\* A caller that claims the lock becomes its only holder, with a lease that
\* is younger than its claim.
LEMMA AcquiredHolds ==
  ASSUME RenewHypothesis, RenewInv, TypeOK', NEW c \in Callers, Acquired(c),
         NoFault, pc[c] \in ClaimSteps, VictimExpired',
         \A d \in Callers : pc[d] \notin HolderSteps,
         rec'.id = seen'[c].id, rec'.status = "processing",
         rec'.lock = Instant(c, Timeout), rec'.exp = Instant(c, TTL)
  PROVE  RenewInv'
  <1> USE TimeAssumption, ClaimAssumption DEF RenewInv
  <1>1. /\ pc' = [pc EXCEPT ![c] = "operate"]
        /\ renewal' = [renewal EXCEPT ![c] = Interval]
        /\ UNCHANGED <<age, print, faults>>
    BY DEF Acquired, Goto, NoFault
  <1>2. /\ pc'[c] = "operate" /\ renewal'[c] = Interval
        /\ \A d \in Callers \ {c} :
              pc'[d] = pc[d] /\ renewal'[d] = renewal[d]
    BY <1>1 DEF TypeOK
  <1>3. age[c] \in 0..MaxClaim
    BY DEF ClaimsAreQuick, TypeOK, StoreOK, ClaimSteps, HolderSteps
  <1>4. faults \in 0..MaxFaults
    BY DEF TypeOK, StoreOK
  <1>5. rec'.lock >= LeaseLeft(Interval, faults)
    <2>1. LeaseLeft(Interval, faults) <= Timeout - MaxClaim
      BY <1>4, LeaseArithmetic
    <2>2. LeaseLeft(Interval, faults) \in Int
      BY <1>4, LeaseArithmetic
    <2>3. rec'.lock = Timeout - age[c]
      BY DEF Instant
    <2> QED
      BY <1>3, <2>1, <2>2, <2>3
  <1>6. rec'.lock > 0 /\ rec'.exp >= TTL - age[c]
    <2>1. LeaseLeft(Interval, faults) > 0 /\ LeaseLeft(Interval, faults) \in Int
      BY <1>4, LeaseArithmetic
    <2>2. rec'.lock \in Int /\ rec'.exp = TTL - age[c]
      BY <1>3 DEF Instant
    <2> QED
      BY <1>3, <1>5, <2>1, <2>2
  <1>7. RenewalHolds'
    BY <1>1, <1>2, <1>5, <1>6 DEF RenewalHolds
  <1>8. ClaimsAreQuick'
    BY <1>1, <1>2, <1>3 DEF ClaimsAreQuick, HolderSteps
  <1>9. Exclusive'
    BY <1>2 DEF Exclusive
  <1> QED
    BY <1>1, <1>7, <1>8, <1>9

\* Every step preserves the invariant.
LEMMA RenewStep ==
  ASSUME RenewHypothesis, RenewInv, ~torn', ~lapsed', [Next]_vars
  PROVE  RenewInv'
  <1> USE TimeAssumption, ClaimAssumption
  <1>0. TypeOK'
    BY TypeStep DEF RenewInv
  <1>a. ASSUME NEW d \in Callers, rec.status = "absent" \/ rec.exp <= 0
                  \/ \E e \in Callers : Reclaimable(e)
        PROVE  pc[d] \notin HolderSteps
    <2>1. rec.exp \in Int
      BY DEF RenewInv, TypeOK, StoreOK
    <2> QED
      BY <1>a, <2>1, RenewedIsNotClaimed
  <1>1. ASSUME NEW c \in Callers, NEW p \in Prints, Begin(c, p)
        PROVE  RenewInv'
    <2>1. /\ pc'[c] = "create" /\ print'[c] = p /\ age'[c] = age[c]
          /\ pc[c] = "idle" /\ renewal' = renewal
          /\ UNCHANGED <<rec, faults, victim>>
          /\ \A d \in Callers \ {c} :
                /\ pc'[d] = pc[d] /\ age'[d] = age[d] /\ print'[d] = print[d]
                /\ seen'[d] = seen[d] /\ renewal'[d] = renewal[d]
      BY <1>1 DEF Begin, Goto, otherVars, RenewInv, TypeOK, StoreOK
    <2>2. age[c] <= MaxClaim /\ renewal[c] = Off
      BY <2>1 DEF RenewInv, ClaimsAreQuick, HolderSteps
    <2>3. pc'[c] \notin HolderSteps /\ faults' <= MaxFaults
      BY <2>1 DEF HolderSteps, RenewInv
    <2> QED
      BY <1>0, <2>1, <2>2, <2>3, OthersHold
  <1>2. ASSUME NEW c \in Callers, Create(c)
        PROVE  RenewInv'
    <2>0. UNCHANGED victim
      BY <1>2 DEF Create, otherVars
    <2>1. CASE CreateProcessing(c) /\ Acquired(c) /\ NoFault
      <3>1. PICK id \in Ids :
              /\ id # victim
              /\ rec' = Row(id, "processing", print[c], Instant(c, Timeout),
                            Instant(c, TTL), None)
              /\ seen' = [seen EXCEPT ![c] = [id |-> id, status |-> "processing"]]
        BY <2>1, NextIdIsFresh DEF CreateProcessing
      <3>2. \A d \in Callers : pc[d] \notin HolderSteps
        BY <1>a, <2>1 DEF CreateProcessing
      <3>3. pc[c] \in ClaimSteps
        BY <1>2 DEF Create, ClaimSteps
      <3>4. /\ rec'.id = seen'[c].id /\ rec'.status = "processing"
            /\ rec'.lock = Instant(c, Timeout) /\ rec'.exp = Instant(c, TTL)
            /\ VictimExpired'
        BY <2>0, <3>1 DEF Row, VictimExpired, RenewInv, TypeOK, StoreOK
      <3> QED
        BY <1>0, <2>1, <3>2, <3>3, <3>4, AcquiredHolds
    <2>2. CASE Goto(c, "read") /\ NoFault /\ UNCHANGED <<rec, age, print, seen, renewal>>
      <3>1. /\ pc[c] = "create" /\ pc'[c] = "read"
            /\ \A d \in Callers \ {c} : pc'[d] = pc[d]
        BY <1>2, <2>2 DEF Create, Goto, RenewInv, TypeOK
      <3>2. /\ age[c] <= MaxClaim /\ renewal[c] = Off
            /\ pc'[c] \notin HolderSteps
        BY <3>1 DEF RenewInv, ClaimsAreQuick, HolderSteps
      <3>3. faults' = faults /\ faults <= MaxFaults
        BY <2>2 DEF NoFault, RenewInv
      <3> QED
        BY <1>0, <2>0, <2>2, <3>1, <3>2, <3>3, OthersHold
    <2>3. CASE Fault /\ Return(c) /\ UNCHANGED rec
      BY <1>0, <2>0, <2>3, ReturnHolds
    <2> QED
      BY <1>2, <2>1, <2>2, <2>3 DEF Create
  <1>3. ASSUME NEW c \in Callers, ReadExisting(c)
        PROVE  RenewInv'
    <2>0. UNCHANGED <<rec, victim>>
      BY <1>3 DEF ReadExisting, otherVars
    <2>1. CASE Return(c) /\ (Fault \/ NoFault)
      BY <1>0, <2>0, <2>1, ReturnHolds
    <2>2. CASE GetRecord(c) /\ Goto(c, "reclaim") /\ NoFault
               /\ UNCHANGED <<age, print, renewal>>
      <3>1. /\ pc[c] = "read" /\ pc'[c] = "reclaim"
            /\ \A d \in Callers \ {c} : pc'[d] = pc[d] /\ seen'[d] = seen[d]
        BY <1>3, <2>2 DEF ReadExisting, GetRecord, Goto, RenewInv, TypeOK,
           StoreOK
      <3>2. /\ age[c] <= MaxClaim /\ renewal[c] = Off
            /\ pc'[c] \notin HolderSteps
        BY <3>1 DEF RenewInv, ClaimsAreQuick, HolderSteps
      <3>3. faults' = faults /\ faults <= MaxFaults
        BY <2>2 DEF NoFault, RenewInv
      <3> QED
        BY <1>0, <2>0, <2>2, <3>1, <3>2, <3>3, OthersHold
    <2> QED
      BY <1>3, <2>1, <2>2 DEF ReadExisting
  <1>4. ASSUME NEW c \in Callers, Reclaim(c)
        PROVE  RenewInv'
    <2>0. UNCHANGED victim
      BY <1>4 DEF Reclaim
    <2>1. CASE TryReclaim(c) /\ Acquired(c)
      <3>1. /\ rec.status # "absent" /\ rec.id # victim /\ NoFault
            /\ rec' = Updated("processing", Instant(c, Timeout), Instant(c, TTL))
            /\ seen' = [seen EXCEPT ![c] = [id |-> rec.id, status |-> "processing"]]
        BY <2>1 DEF TryReclaim, Reclaimable
      <3>2. \A d \in Callers : pc[d] \notin HolderSteps
        BY <1>a, <2>1 DEF TryReclaim
      <3>3. pc[c] \in ClaimSteps
        BY <1>4 DEF Reclaim, ClaimSteps
      <3>4. /\ rec'.id = seen'[c].id /\ rec'.status = "processing"
            /\ rec'.lock = Instant(c, Timeout) /\ rec'.exp = Instant(c, TTL)
            /\ VictimExpired'
        BY <2>0, <3>1 DEF Updated, Row, VictimExpired, RenewInv, TypeOK, StoreOK
      <3> QED
        BY <1>0, <2>1, <3>1, <3>2, <3>3, <3>4, AcquiredHolds
    <2>2. CASE Return(c) /\ (Fault \/ NoFault) /\ UNCHANGED rec
      BY <1>0, <2>0, <2>2, ReturnHolds
    <2> QED
      BY <1>4, <2>1, <2>2 DEF Reclaim
  <1>5. ASSUME NEW c \in Callers, Renew(c)
        PROVE  RenewInv'
    <2>1. pc[c] \in HolderSteps
      BY <1>5 DEF Renew, RenewInv, ClaimsAreQuick, Off
    <2>2. \A d \in Callers \ {c} : pc[d] \notin HolderSteps
      BY <2>1 DEF RenewInv, Exclusive
    <2>3. /\ rec.id = seen[c].id /\ rec.status = "processing"
          /\ rec.lock > 0 /\ rec.exp >= TTL - age[c] /\ rec.id # victim
      BY <2>1 DEF RenewInv, RenewalHolds, VictimExpired, TypeOK, StoreOK
    <2>4. /\ renewal[c] = 0 /\ UNCHANGED <<age, print, seen, pc, victim>>
          /\ \A d \in Callers \ {c} : renewal'[d] = renewal[d]
      BY <1>5 DEF Renew, otherVars, RenewInv, TypeOK
    <2>5. faults \in 0..MaxFaults
      BY DEF RenewInv, TypeOK, StoreOK
    <2>6. faults' <= MaxFaults
      BY <1>5, <2>5 DEF Renew, Fault, NoFault
    <2>7. /\ rec'.id = rec.id /\ rec'.status = "processing"
          /\ rec'.print = rec.print
          /\ rec'.lock > 0 /\ rec'.exp >= TTL - age[c]
      <3>1. CASE UNCHANGED rec
        BY <2>3, <3>1
      <3>2. CASE rec' = Updated("processing", Timeout, TTL)
        <4>1. age[c] \in Nat
          BY DEF RenewInv, TypeOK, StoreOK
        <4> QED
          BY <3>2, <4>1 DEF Updated, Row
      <3> QED
        BY <1>5, <3>1, <3>2 DEF Renew
    <2>8. ASSUME rec.print = print[c]
          PROVE  /\ renewal'[c] = Interval
                 /\ rec'.lock >= LeaseLeft(Interval, faults')
      <3>0. Owned(c) /\ rec.lock >= LeaseLeft(0, faults)
        BY <2>1, <2>3, <2>4, <2>8 DEF Owned, RenewInv, RenewalHolds
      <3>1. ASSUME rec' = Updated("processing", Timeout, TTL), faults' = faults
            PROVE  rec'.lock >= LeaseLeft(Interval, faults')
        <4>1. rec'.lock = Timeout
          BY <3>1 DEF Updated, Row
        <4>2. /\ LeaseLeft(Interval, faults) \in Int
              /\ LeaseLeft(Interval, faults) <= Timeout - MaxClaim
          BY <2>5, LeaseArithmetic
        <4> QED
          BY <3>1, <4>1, <4>2
      <3>2. ASSUME UNCHANGED rec, Fault
            PROVE  rec'.lock >= LeaseLeft(Interval, faults')
        <4>1. LeaseLeft(Interval, faults') = LeaseLeft(0, faults)
          BY <2>5, <3>2, LeaseArithmetic DEF Fault
        <4> QED
          BY <3>0, <3>2, <4>1
      <3>3. renewal' = [renewal EXCEPT ![c] = Interval]
        BY <1>5, <3>0 DEF Renew, AfterFailedRenewal
      <3>4. renewal'[c] = Interval
        BY <3>3 DEF RenewInv, TypeOK
      <3>5. rec'.lock >= LeaseLeft(Interval, faults')
        BY <1>5, <3>0, <3>1, <3>2 DEF Renew, NoFault
      <3> QED
        BY <3>4, <3>5
    <2>9. RenewalHolds'
      <3>1. \A d \in Callers : pc'[d] \in HolderSteps => d = c
        BY <2>2, <2>4
      <3> QED
        BY <2>3, <2>4, <2>7, <2>8, <3>1 DEF RenewalHolds
    <2>10. ClaimsAreQuick'
      BY <2>1, <2>4 DEF RenewInv, ClaimsAreQuick
    <2>11. VictimExpired' /\ Exclusive'
      BY <2>3, <2>4, <2>7 DEF RenewInv, VictimExpired, Exclusive
    <2> QED
      BY <1>0, <2>6, <2>9, <2>10, <2>11 DEF RenewInv
  <1>6. ASSUME NEW c \in Callers, FinishOperation(c)
        PROVE  RenewInv'
    <2>1. /\ pc[c] = "operate" /\ pc' = [pc EXCEPT ![c] = "release"]
          /\ UNCHANGED <<rec, age, print, seen, faults, renewal, victim>>
      BY <1>6 DEF FinishOperation, Goto, storeVars
    <2>2. \A d \in Callers : pc'[d] \in HolderSteps <=> pc[d] \in HolderSteps
      BY <2>1 DEF RenewInv, TypeOK, HolderSteps
    <2>3. \A d \in Callers : pc'[d] = "idle" <=> pc[d] = "idle"
      BY <2>1 DEF RenewInv, TypeOK
    <2>4. RenewalHolds'
      BY <2>1, <2>2 DEF RenewInv, RenewalHolds
    <2>5. ClaimsAreQuick'
      BY <2>1, <2>2, <2>3 DEF RenewInv, ClaimsAreQuick
    <2> QED
      BY <1>0, <2>1, <2>2, <2>4, <2>5 DEF RenewInv, VictimExpired, Exclusive
  <1>7. ASSUME NEW c \in Callers, Release(c)
        PROVE  RenewInv'
    <2>1. \A d \in Callers \ {c} : pc[d] \notin HolderSteps
      BY <1>7 DEF Release, RenewInv, Exclusive, HolderSteps
    <2>2. VictimExpired'
      <3>1. rec'.id = rec.id /\ UNCHANGED victim /\ pc[c] \in HolderSteps
        BY <1>7 DEF Release, Mark, FailedRetryable, Updated, Row, otherVars,
           HolderSteps
      <3>2. rec.id # victim
        BY <3>1, RenewedIsNotClaimed DEF RenewInv, VictimExpired, TypeOK, StoreOK
      <3> QED
        BY <3>1, <3>2 DEF VictimExpired
    <2>3. Return(c) /\ (Fault \/ NoFault)
      BY <1>7 DEF Release
    <2> QED
      BY <1>0, <2>1, <2>2, <2>3, ReturnHolds
  <1>8. ASSUME NEW c \in Callers, Crash(c)
        PROVE  RenewInv'
    BY <1>0, <1>8, ReturnHolds DEF Crash, otherVars
  <1>9. CASE Cleanup
    <2>0. UNCHANGED <<age, print, seen, faults, pc, renewal>>
      BY <1>9 DEF Cleanup
    <2>1. CASE SelectExpired
      BY <1>0, <2>0, <2>1 DEF RenewInv, RenewalHolds, ClaimsAreQuick,
         VictimExpired, Exclusive, SelectExpired, Expired
    <2>2. CASE DeleteVictim /\ rec.id # victim
      BY <1>0, <2>0, <2>2 DEF RenewInv, RenewalHolds, ClaimsAreQuick,
         VictimExpired, Exclusive, DeleteVictim
    <2>3. CASE DeleteVictim /\ rec.id = victim
      <3>1. victim' = None /\ rec.exp <= 0
        BY <2>3 DEF DeleteVictim, RenewInv, VictimExpired
      <3>2. \A d \in Callers : pc[d] \notin HolderSteps
        BY <1>a, <3>1
      <3> QED
        BY <1>0, <2>0, <3>1, <3>2 DEF RenewInv, RenewalHolds, ClaimsAreQuick,
           VictimExpired, Exclusive
    <2> QED
      BY <1>9, <2>1, <2>2, <2>3 DEF Cleanup, DeleteExpired
  <1>10. CASE Tick
    <2> USE DEF RenewInv, TypeOK, StoreOK
    <2>1. /\ UNCHANGED <<print, seen, faults, pc, victim>>
          /\ rec' = Aged
          /\ rec'.id = rec.id /\ rec'.status = rec.status
          /\ rec'.print = rec.print
          /\ rec'.lock = Elapse(rec.lock) /\ rec'.exp = Elapse(rec.exp)
      BY <1>10 DEF Tick, Aged, Row
    <2>2. ASSUME NEW d \in Callers
          PROVE  /\ renewal[d] # 0
                 /\ pc[d] \in ClaimSteps => age[d] < MaxClaim
                 /\ age'[d] = IF pc[d] = "idle" THEN 0 ELSE age[d] + 1
                 /\ renewal'[d] = IF renewal[d] > 0 THEN renewal[d] - 1
                                  ELSE renewal[d]
      BY <1>10 DEF Tick
    <2>3. ASSUME NEW d \in Callers, pc[d] \in HolderSteps
          PROVE  /\ rec'.lock > 0
                 /\ rec'.exp >= TTL - age'[d]
                 /\ rec.print = print[d] =>
                      /\ renewal'[d] \in 0..Interval
                      /\ rec'.lock >= LeaseLeft(renewal'[d], faults)
      <3>1. rec.exp >= TTL - age[d] /\ age'[d] = age[d] + 1
        BY <2>2, <2>3 DEF RenewalHolds, HolderSteps
      <3>2. rec.lock > 0 /\ rec.exp > 0
        BY <2>3, RenewedIsNotClaimed
      <3>3. rec'.lock = rec.lock - 1 /\ rec'.exp = rec.exp - 1
        BY <2>1, <3>2, PastIsNegative DEF Elapse
      <3>4. faults \in 0..MaxFaults
        OBVIOUS
      <3>5. ASSUME rec.print = print[d]
            PROVE  /\ renewal'[d] \in 0..Interval
                   /\ rec'.lock >= LeaseLeft(renewal'[d], faults)
        <4>1. /\ renewal[d] \in 0..Interval
              /\ rec.lock >= LeaseLeft(renewal[d], faults)
          BY <2>3, <3>5 DEF RenewalHolds
        <4>2. renewal[d] \in 1..Interval /\ renewal'[d] = renewal[d] - 1
          BY <2>2, <4>1
        <4>3. /\ LeaseLeft(renewal[d] - 1, faults)
                   = LeaseLeft(renewal[d], faults) - 1
              /\ LeaseLeft(renewal[d], faults) \in Int
          BY <3>4, <4>1, <4>2, LeaseArithmetic
        <4> QED
          BY <3>3, <4>1, <4>2, <4>3
      <3>6. rec'.lock > 0
        <4>1. CASE rec.print = print[d]
          <5>1. /\ renewal'[d] \in 0..Interval
                /\ rec'.lock >= LeaseLeft(renewal'[d], faults)
            BY <3>5, <4>1
          <5>2. /\ LeaseLeft(renewal'[d], faults) \in Int
                /\ LeaseLeft(renewal'[d], faults) > 0
            BY <3>4, <5>1, LeaseArithmetic
          <5> QED
            BY <3>3, <5>1, <5>2
        <4>2. CASE rec.print # print[d]
          <5>1. TookOver(d)
            BY <2>3, <4>2 DEF TookOver
          <5>2. ~(rec'.lock <= 0)
            BY <1>10, <5>1, Zenon DEF Tick
          <5> QED
            BY <3>3, <5>2
        <4> QED
          BY <4>1, <4>2
      <3> QED
        BY <3>1, <3>3, <3>5, <3>6
    <2>4. RenewalHolds'
      BY <2>1, <2>3 DEF RenewalHolds
    <2>5. ASSUME NEW d \in Callers
          PROVE  /\ pc[d] \notin HolderSteps => age'[d] <= MaxClaim
                 /\ pc[d] = "idle" => age'[d] = 0
                 /\ pc[d] \notin HolderSteps => renewal'[d] = Off
      BY <2>2 DEF ClaimsAreQuick, HolderSteps, ClaimSteps, Off
    <2>6. ClaimsAreQuick'
      BY <2>1, <2>5 DEF ClaimsAreQuick
    <2>7. VictimExpired' /\ Exclusive'
      BY <2>1, PastIsNegative DEF VictimExpired, Exclusive, Elapse
    <2> QED
      BY <1>0, <2>1, <2>4, <2>6, <2>7
  <1>11. CASE UNCHANGED vars
    BY <1>0, <1>11 DEF vars, storeVars, RenewInv, RenewalHolds,
       ClaimsAreQuick, VictimExpired, Exclusive
  <1> QED
    BY <1>1, <1>2, <1>3, <1>4, <1>5, <1>6, <1>7, <1>8, <1>9, <1>10, <1>11
    DEF Next, Step

\* Operations, each with an id of its own, may outlive their lease: renewals
\* keep it alive through as many failures as it was made for, so that no second
\* operation gets in.  The first lease to run out under an operation, if any,
\* is one that was taken over and that its loop cannot renew.
THEOREM RenewedOperationsExclude ==
  ASSUME RenewHypothesis
  PROVE  Spec => [](OneOperation /\ HeldIsRenewed)
  <1> DEFINE Inv == torn \/ lapsed \/ RenewInv
  <1>1. Inv /\ [Next]_vars => Inv'
    BY RenewStep, HistoryStays
  <1>2. Init => Inv
    BY RenewInit
  <1>3. Inv => OneOperation /\ HeldIsRenewed
    BY RenewedIsNotClaimed DEF RenewInv, OneOperation, HeldIsRenewed,
       HolderSteps
  <1> QED
    BY <1>1, <1>2, <1>3, PTL DEF Spec
=============================================================================
