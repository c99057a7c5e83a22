-------------------------- MODULE IdempotencyProofs --------------------------
(***************************************************************************)
(* That requests with one Idempotency-Key exclude each other, replay only  *)
(* their own response, and take effect once until an expired success is    *)
(* revived or claimed under a running clean-up: for any number of requests,*)
(* payloads and failures.                                                  *)
(***************************************************************************)
EXTENDS IdempotencyCoordinator, TLAPS

\* Clock readings are fresh when a request claims the record.
Ages ==
    \A c \in Callers :
        /\ pc[c] = "idle" => age[c] = 0
        /\ pc[c] \in ClaimSteps => age[c] <= MaxClaim

\* The record of an owner is the one it claimed, in its life time.
OwnerHolds ==
    \A c \in Callers : pc[c] \in OwnerSteps =>
        /\ rec.id = seen[c].id
        /\ rec.status = "processing"
        /\ rec.exp = TTL - age[c]

\* What a request that is about to reclaim may rely on, if the record it has
\* seen is still there: a record that says processing has expired or has been
\* claimed since, and an expired success stays one until it is revived.
View ==
    \A c \in Callers : pc[c] \in {"reclaimExpired", "reclaimFailed"} =>
        /\ seen[c].id # None
        /\ pc[c] = "reclaimFailed" => seen[c].status = "failed_retryable"
        /\ seen[c].id = rec.id =>
             /\ rec.status = "processing" =>
                  rec.exp <= -age[c] \/ rec.lock > -age[c]
             /\ seen[c].status = "succeeded" /\ ~revived =>
                  rec.status = "succeeded" /\ rec.exp <= 0

\* A success on record is the last one.
SuccessFiled ==
    /\ rec.status = "succeeded" => rec.exp = shield
    /\ \A c \in Callers : pc[c] = "markSucceeded" => shield = TTL - age[c]

\* Until a success is revived, the record keeps everyone from a second one.
Shielded ==
    shield > 0 /\ ~revived =>
        /\ rec.status \in {"processing", "succeeded"}
        /\ rec.exp = shield
        /\ \A c \in Callers : pc[c] \notin {"execute", "markFailed"}

\* The clean-up has selected a record that nobody owns.
VictimExpired == victim # None /\ victim = rec.id => rec.exp <= 0

Exclusive ==
    \A c, d \in Callers : pc[c] \in OwnerSteps /\ pc[d] \in OwnerSteps => c = d

\* What holds as long as no claim has fallen into a running clean-up.
Held ==
    /\ Ages
    /\ OwnerHolds
    /\ Exclusive
    /\ View
    /\ SuccessFiled
    /\ Shielded
    /\ VictimExpired

\* The inductive invariant.
CoordInv == TypeOK /\ (~torn => Held)

\* The id of a new record is known to nobody.
LEMMA NextIdIsFresh ==
  ASSUME FreshIds # {}
  PROVE  NextId \in Ids /\ NextId # victim /\ \A c \in Callers : seen[c].id # NextId
  <1>1. NextId \in FreshIds
    BY DEF NextId
  <1> QED
    BY <1>1 DEF FreshIds

LEMMA PastIsNegative == Past \in Int /\ Past < 0 /\ Past = -(MaxAge + 1)
  BY TimeAssumption DEF Past

LEMMA CoordInit == Init => CoordInv
  <1> SUFFICES ASSUME Init PROVE CoordInv
    OBVIOUS
  <1>1. \A c \in Callers : pc[c] = "idle" /\ age[c] = 0
    BY DEF Init, StoreInit
  <1>2. rec.status = "absent" /\ ~(shield > 0)
    BY PastIsNegative DEF Init, StoreInit, NoRecord, Row
  <1>3. TypeOK
    <2>0. torn \in BOOLEAN
      BY Zenon DEF Init, StoreInit
    <2>1. StoreOK
      BY <2>0, NoneAssumption, TimeAssumption, PastIsNegative
      DEF Init, StoreInit, StoreOK, NoRecord, Row, NotSeen, RecordStatuses
    <2>2. pc \in [Callers -> CoordinatorSteps] /\ shield \in Int
      BY PastIsNegative DEF Init, CoordinatorSteps
    <2>3. revived \in BOOLEAN
      BY Zenon DEF Init
    <2> QED
      BY <2>1, <2>2, <2>3, Zenon DEF TypeOK
  <1>4. Ages /\ OwnerHolds /\ Exclusive /\ View
    BY <1>1 DEF Ages, OwnerHolds, Exclusive, View, OwnerSteps, ClaimSteps
  <1>5. SuccessFiled /\ Shielded /\ VictimExpired
    BY <1>1, <1>2 DEF SuccessFiled, Shielded, VictimExpired, Init, StoreInit
  <1> QED
    BY <1>3, <1>4, <1>5 DEF CoordInv, Held

-----------------------------------------------------------------------------
(* Type correctness.                                                       *)

\* What a request that returns leaves behind.
LEMMA ReturnKeepsTypes ==
  ASSUME TypeOK, NEW c \in Callers, Return(c), Fault \/ NoFault,
         UNCHANGED <<rec, otherVars>>
  PROVE  TypeOK'
  BY NoneAssumption, TimeAssumption
  DEF TypeOK, StoreOK, RecordStatuses, CoordinatorSteps, Return, Goto,
      NotSeen, Fault, NoFault, otherVars

LEMMA DispatchKeepsTypes ==
  ASSUME TypeOK, NEW c \in Callers, Dispatch(c), NoFault,
         UNCHANGED <<rec, otherVars>>
  PROVE  TypeOK'
  <1>1. CASE Return(c)
    BY <1>1, ReturnKeepsTypes
  <1>2. CASE GetRecord(c) /\ Goto(c, "reclaimFailed") /\ UNCHANGED <<age, print>>
    <2>1. seen' \in [Callers -> [id : Ids \cup {None}, status : RecordStatuses]]
      BY <1>2 DEF GetRecord, TypeOK, StoreOK
    <2>2. pc' \in [Callers -> CoordinatorSteps]
      BY <1>2 DEF Goto, TypeOK, CoordinatorSteps, ClaimSteps
    <2> QED
      BY <1>2, <2>1, <2>2 DEF TypeOK, StoreOK, NoFault, otherVars
  <1> QED
    BY <1>1, <1>2 DEF Dispatch

LEMMA TypeStep ==
  ASSUME TypeOK, [Next]_vars
  PROVE  TypeOK'
  <1> USE NoneAssumption, TimeAssumption, AgeAssumption, PastIsNegative
          DEF TypeOK, StoreOK, RecordStatuses, CoordinatorSteps, OwnerSteps,
              ClaimSteps, Row, Updated
  <1>1. ASSUME NEW c \in Callers, NEW p \in Prints, Begin(c, p)
        PROVE  TypeOK'
    BY <1>1 DEF Begin, Goto, otherVars
  <1>2. ASSUME NEW c \in Callers, Create(c)
        PROVE  TypeOK'
    <2>0. UNCHANGED otherVars
      BY <1>2 DEF Create
    <2>1. CASE /\ CreateProcessing(c) /\ Goto(c, "execute") /\ NoFault
               /\ UNCHANGED <<age, print>>
      <3>1. PICK id \in Ids :
              /\ rec' = Row(id, "processing", print[c], Instant(c, Timeout),
                            Instant(c, TTL), None)
              /\ seen' = [seen EXCEPT ![c] = [id |-> id, status |-> "processing"]]
        BY <2>1, NextIdIsFresh DEF CreateProcessing
      <3>2. Instant(c, Timeout) \in Int /\ Instant(c, TTL) \in Int
        BY DEF Instant
      <3>3. pc' \in [Callers -> CoordinatorSteps]
        BY <2>1 DEF Goto
      <3>4. seen' \in [Callers -> [id : Ids \cup {None}, status : RecordStatuses]]
        BY <3>1
      <3> QED
        BY <2>0, <2>1, <3>1, <3>2, <3>3, <3>4 DEF NoFault, otherVars
    <2>2. CASE /\ Goto(c, "read") /\ NoFault
               /\ UNCHANGED <<rec, age, print, seen>>
      BY <2>0, <2>2 DEF Goto, NoFault, otherVars
    <2>3. CASE Fault /\ Return(c) /\ UNCHANGED rec
      BY <2>0, <2>3, ReturnKeepsTypes
    <2> QED
      BY <1>2, <2>1, <2>2, <2>3 DEF Create
  <1>3. ASSUME NEW c \in Callers, ReadExisting(c)
        PROVE  TypeOK'
    <2>0. UNCHANGED <<rec, otherVars>>
      BY <1>3 DEF ReadExisting
    <2>1. CASE Return(c) /\ (Fault \/ NoFault)
      BY <2>0, <2>1, ReturnKeepsTypes
    <2>2. CASE /\ GetRecord(c) /\ Goto(c, "reclaimExpired") /\ NoFault
               /\ UNCHANGED <<age, print>>
      <3>1. seen' \in [Callers -> [id : Ids \cup {None}, status : RecordStatuses]]
        BY <2>2 DEF GetRecord
      <3>2. pc' \in [Callers -> CoordinatorSteps]
        BY <2>2 DEF Goto
      <3> QED
        BY <2>0, <2>2, <3>1, <3>2 DEF NoFault, otherVars
    <2>3. CASE Dispatch(c) /\ NoFault
      BY <2>0, <2>3, DispatchKeepsTypes
    <2> QED
      BY <1>3, <2>1, <2>2, <2>3 DEF ReadExisting
  <1>4. ASSUME NEW c \in Callers, RereadExisting(c)
        PROVE  TypeOK'
    <2>0. UNCHANGED <<rec, otherVars>>
      BY <1>4 DEF RereadExisting
    <2>1. CASE Return(c) /\ (Fault \/ NoFault)
      BY <2>0, <2>1, ReturnKeepsTypes
    <2>2. CASE Dispatch(c) /\ NoFault
      BY <2>0, <2>2, DispatchKeepsTypes
    <2> QED
      BY <1>4, <2>1, <2>2 DEF RereadExisting
  <1>5. ASSUME NEW c \in Callers, Reclaim(c)
        PROVE  TypeOK'
    <2>0. UNCHANGED <<shield, victim>>
      BY <1>5 DEF Reclaim
    <2>1. CASE /\ TryReclaim(c) /\ Goto(c, "execute")
               /\ revived' = (revived \/ (rec.status = "succeeded" /\ rec.exp <= 0))
               /\ UNCHANGED <<age, print>>
      <3>1. Instant(c, Timeout) \in Int /\ Instant(c, TTL) \in Int
        BY DEF Instant
      <3>2. /\ rec.status # "absent"
            /\ rec' = Updated("processing", Instant(c, Timeout), Instant(c, TTL))
            /\ seen' = [seen EXCEPT ![c] = [id |-> rec.id, status |-> "processing"]]
        BY <2>1 DEF TryReclaim, Reclaimable
      <3>3. pc' \in [Callers -> CoordinatorSteps]
        BY <2>1 DEF Goto
      <3>4. revived' \in BOOLEAN
        BY <2>1, Zenon
      <3>5. torn' \in BOOLEAN /\ faults' \in Nat
        <4>1. torn' \in BOOLEAN
          BY <2>1, Zenon DEF TryReclaim
        <4>2. faults' \in Nat
          BY <2>1 DEF TryReclaim, Fault, NoFault
        <4> QED
          BY <4>1, <4>2
      <3>6. seen' \in [Callers -> [id : Ids \cup {None}, status : RecordStatuses]]
        BY <3>2
      <3> QED
        BY <2>0, <2>1, <3>1, <3>2, <3>3, <3>4, <3>5, <3>6
    <2>2. CASE /\ Goto(c, "reread") /\ NoFault
               /\ UNCHANGED <<rec, age, print, seen, revived, torn>>
      BY <2>0, <2>2 DEF Goto, NoFault
    <2>3. CASE /\ Return(c) /\ (Fault \/ NoFault)
               /\ UNCHANGED <<rec, revived, torn>>
      BY <2>0, <2>3, ReturnKeepsTypes DEF otherVars
    <2> QED
      BY <1>5, <2>1, <2>2, <2>3 DEF Reclaim
  <1>6. ASSUME NEW c \in Callers, ExecuteOperation(c)
        PROVE  TypeOK'
    BY <1>6 DEF ExecuteOperation, Goto, Instant, storeVars
  <1>7. ASSUME NEW c \in Callers, MarkSucceeded(c)
        PROVE  TypeOK'
    BY <1>7 DEF MarkSucceeded, Mark, Succeeded, Instant, Goto, Return, NotSeen,
       Fault, NoFault, otherVars
  <1>8. ASSUME NEW c \in Callers, MarkFailedRetryable(c)
        PROVE  TypeOK'
    BY <1>8 DEF MarkFailedRetryable, Mark, FailedRetryable, Instant, Goto,
       Return, NotSeen, Fault, NoFault, otherVars
  <1>9. ASSUME NEW c \in Callers, Crash(c)
        PROVE  TypeOK'
    BY <1>9, ReturnKeepsTypes DEF Crash
  <1>10. CASE Cleanup
    BY <1>10 DEF Cleanup, DeleteExpired, SelectExpired, DeleteVictim, NoRecord
  <1>11. CASE Tick
    BY <1>11 DEF Tick, Aged, Elapse
  <1>12. CASE UNCHANGED vars
    BY <1>12 DEF vars, storeVars, otherVars
  <1> QED
    BY <1>1, <1>2, <1>3, <1>4, <1>5, <1>6, <1>7, <1>8, <1>9, <1>10, <1>11,
       <1>12
    DEF Next, Step

\* Every variable of the coordinator keeps its type.
THEOREM CoordinatorTypeCorrect == Spec => []TypeOK
  <1>1. Init => TypeOK
    BY CoordInit DEF CoordInv
  <1> QED
    BY <1>1, TypeStep, PTL DEF Spec

-----------------------------------------------------------------------------
(* The record protects its owner and its success.                          *)

\* A request that returns and leaves the record alone disturbs nothing.
LEMMA ReturnKeepsInv ==
  ASSUME TypeOK, Held, TypeOK', NEW c \in Callers, Return(c),
         UNCHANGED <<rec, otherVars>>
  PROVE  Held'
  BY DEF Held, TypeOK, StoreOK, Ages, OwnerHolds, Exclusive, View,
     SuccessFiled, Shielded, VictimExpired, Return, Goto, otherVars,
     OwnerSteps, ClaimSteps

\* No step forgets that a claim has fallen into a running clean-up.
LEMMA TornStays ==
  ASSUME [Next]_vars, torn
  PROVE  torn'
  BY DEF Next, vars, storeVars, otherVars, Step, Begin, Create, ReadExisting,
     RereadExisting, Reclaim, TryReclaim, ExecuteOperation, MarkSucceeded,
     MarkFailedRetryable, Crash, Cleanup, DeleteExpired, Tick

\* Nobody can claim a record that is owned or that shields a success.
LEMMA OwnedIsNotClaimed ==
  ASSUME TypeOK, Held, NEW c \in Callers, pc[c] \in OwnerSteps, NEW d \in Callers,
         pc[d] \in {"reclaimExpired", "reclaimFailed"}
  PROVE  rec.status # "absent" /\ ~Reclaimable(d) /\ rec.exp > 0
  BY TimeAssumption, AgeAssumption
  DEF Held, TypeOK, StoreOK, OwnerHolds, View, Reclaimable, Passed

LEMMA ShieldedIsNotClaimed ==
  ASSUME TypeOK, Held, shield > 0, ~revived, NEW d \in Callers,
         pc[d] \in {"reclaimExpired", "reclaimFailed"}
  PROVE  ~Reclaimable(d)
  BY TimeAssumption, AgeAssumption
  DEF Held, TypeOK, StoreOK, Shielded, View, Reclaimable, Passed

LEMMA CoordStep ==
  ASSUME MaxClaim < Timeout, TypeOK, Held, ~torn', [Next]_vars
  PROVE  Held'
  <1> USE NoneAssumption, TimeAssumption, AgeAssumption, PastIsNegative
  <1>0. TypeOK'
    BY TypeStep
  <1> USE DEF Held, TypeOK, StoreOK, Ages, OwnerHolds, Exclusive, View,
              SuccessFiled, Shielded, VictimExpired, OwnerSteps, ClaimSteps,
              Row, Updated
  <1>1. ASSUME NEW c \in Callers, NEW p \in Prints, Begin(c, p)
        PROVE  Held'
    BY <1>0, <1>1 DEF Begin, Goto, otherVars
  <1>2. ASSUME NEW c \in Callers, Create(c)
        PROVE  Held'
    <2>0. UNCHANGED otherVars
      BY <1>2 DEF Create
    <2>1. CASE /\ CreateProcessing(c) /\ Goto(c, "execute")
               /\ UNCHANGED <<age, print>>
      <3>1. PICK id \in Ids :
              /\ id # victim /\ \A d \in Callers : seen[d].id # id
              /\ rec' = Row(id, "processing", print[c], Instant(c, Timeout),
                            Instant(c, TTL), None)
              /\ seen' = [seen EXCEPT ![c] = [id |-> id, status |-> "processing"]]
        BY <2>1, NextIdIsFresh DEF CreateProcessing
      <3>2. \A d \in Callers : pc[d] \notin OwnerSteps
        BY <2>1 DEF CreateProcessing
      <3>3. id # None /\ \A d \in Callers : seen[d].id # id
        BY <3>1
      <3>4. ~(shield > 0 /\ ~revived)
        BY <2>1 DEF CreateProcessing
      <3>5. Ages' /\ OwnerHolds' /\ Exclusive'
        BY <1>0, <2>1, <3>1, <3>2 DEF Instant, Goto
      <3>6. View'
        BY <1>0, <2>1, <3>1, <3>3 DEF Goto
      <3>7. SuccessFiled' /\ Shielded' /\ VictimExpired'
        BY <1>0, <2>0, <2>1, <3>1, <3>2, <3>4 DEF Goto, otherVars
      <3> QED
        BY <1>0, <3>5, <3>6, <3>7
    <2>2. CASE Goto(c, "read") /\ UNCHANGED <<rec, age, print, seen>>
      BY <1>0, <1>2, <2>0, <2>2 DEF Create, Goto, otherVars
    <2>3. CASE Return(c) /\ UNCHANGED rec
      BY <1>0, <2>0, <2>3, ReturnKeepsInv
    <2> QED
      BY <1>2, <2>1, <2>2, <2>3 DEF Create
  <1>3. ASSUME NEW c \in Callers, Dispatch(c), UNCHANGED <<rec, otherVars>>,
               pc[c] \in {"read", "reread"}, rec.status # "absent", SamePrint(c)
        PROVE  Held'
    <2>1. CASE Return(c)
      BY <1>0, <1>3, <2>1, ReturnKeepsInv
    <2>2. CASE /\ rec.status = "failed_retryable" /\ GetRecord(c)
               /\ Goto(c, "reclaimFailed") /\ UNCHANGED <<age, print>>
      BY <1>0, <1>3, <2>2 DEF GetRecord, Goto, SamePrint, otherVars
    <2> QED
      BY <1>3, <2>1, <2>2 DEF Dispatch
  <1>4. ASSUME NEW c \in Callers, ReadExisting(c)
        PROVE  Held'
    <2>0. UNCHANGED <<rec, otherVars>> /\ pc[c] = "read"
      BY <1>4 DEF ReadExisting
    <2>1. CASE Return(c)
      BY <1>0, <2>0, <2>1, ReturnKeepsInv
    <2>2. CASE /\ rec.status # "absent" /\ SamePrint(c) /\ ExpiredFor(c)
               /\ GetRecord(c) /\ Goto(c, "reclaimExpired")
               /\ UNCHANGED <<age, print>>
      BY <1>0, <2>0, <2>2
      DEF GetRecord, Goto, SamePrint, ExpiredFor, Passed, otherVars
    <2>3. CASE rec.status # "absent" /\ SamePrint(c) /\ Dispatch(c)
      BY <1>3, <2>0, <2>3
    <2> QED
      BY <1>4, <2>1, <2>2, <2>3 DEF ReadExisting
  <1>5. ASSUME NEW c \in Callers, RereadExisting(c)
        PROVE  Held'
    <2>0. UNCHANGED <<rec, otherVars>> /\ pc[c] = "reread"
      BY <1>5 DEF RereadExisting
    <2>1. CASE Return(c)
      BY <1>0, <2>0, <2>1, ReturnKeepsInv
    <2>2. CASE rec.status # "absent" /\ SamePrint(c) /\ Dispatch(c)
      BY <1>3, <2>0, <2>2
    <2> QED
      BY <1>5, <2>1, <2>2 DEF RereadExisting
  <1>6. ASSUME NEW c \in Callers, Reclaim(c)
        PROVE  Held'
    <2>0. /\ UNCHANGED <<shield, victim>>
          /\ pc[c] \in {"reclaimExpired", "reclaimFailed"}
      BY <1>6 DEF Reclaim
    <2>1. CASE /\ TryReclaim(c) /\ Goto(c, "execute")
               /\ revived' = (revived \/ (rec.status = "succeeded" /\ rec.exp <= 0))
               /\ UNCHANGED <<age, print>>
      <3>1. /\ Reclaimable(c)
            /\ rec.status # "absent" /\ rec.id = seen[c].id /\ rec.id # victim
            /\ rec' = Updated("processing", Instant(c, Timeout), Instant(c, TTL))
            /\ seen' = [seen EXCEPT ![c] = [id |-> rec.id, status |-> "processing"]]
        BY <2>1 DEF TryReclaim, Reclaimable
      <3>2. \A d \in Callers : pc[d] \notin OwnerSteps
        BY <2>0, <3>1, OwnedIsNotClaimed
      <3>3. age[c] <= MaxClaim
        BY <2>0
      <3>4. /\ revived => revived'
            /\ rec.status = "succeeded" /\ rec.exp <= 0 => revived'
        BY <2>1, Zenon
      <3>5. ~(shield > 0 /\ ~revived)
        BY <2>0, <3>1, ShieldedIsNotClaimed
      <3>6. Ages' /\ OwnerHolds' /\ Exclusive'
        BY <1>0, <2>0, <2>1, <3>1, <3>2 DEF Instant, Goto
      <3>7. View'
        <4> SUFFICES ASSUME NEW d \in Callers,
                            pc'[d] \in {"reclaimExpired", "reclaimFailed"}
                     PROVE  /\ seen'[d].id # None
                            /\ pc'[d] = "reclaimFailed" =>
                                 seen'[d].status = "failed_retryable"
                            /\ seen'[d].id = rec'.id =>
                                 /\ rec'.lock > -age'[d]
                                 /\ seen'[d].status = "succeeded" => revived'
          OBVIOUS
        <4>1. /\ d # c /\ pc[d] = pc'[d]
              /\ UNCHANGED age /\ seen'[d] = seen[d]
              /\ rec'.id = rec.id
              /\ rec'.lock = Timeout - age[c]
          BY <2>1, <3>1 DEF Instant, Goto
        <4>2. rec'.lock > -age[d]
          BY <3>3, <4>1
        <4>3. seen[d].id = rec.id /\ seen[d].status = "succeeded" => revived'
          BY <3>4, <4>1
        <4> QED
          BY <4>1, <4>2, <4>3
      <3>8. SuccessFiled' /\ Shielded' /\ VictimExpired'
        BY <1>0, <2>0, <2>1, <3>1, <3>2, <3>4, <3>5 DEF Goto
      <3> QED
        BY <1>0, <3>6, <3>7, <3>8
    <2>2. CASE /\ Goto(c, "reread")
               /\ UNCHANGED <<rec, age, print, seen, revived, victim>>
      BY <1>0, <2>0, <2>2 DEF Goto
    <2>3. CASE Return(c) /\ UNCHANGED <<rec, revived, torn>>
      BY <1>0, <2>0, <2>3, ReturnKeepsInv DEF otherVars
    <2> QED
      BY <1>6, <2>1, <2>2, <2>3 DEF Reclaim
  <1>7. ASSUME NEW c \in Callers, ExecuteOperation(c)
        PROVE  Held'
    <2>1. pc[c] = "execute" /\ UNCHANGED <<rec, age, print, seen, revived, victim>>
      BY <1>7 DEF ExecuteOperation, storeVars
    <2>2. CASE Goto(c, "markSucceeded") /\ shield' = Instant(c, TTL)
      BY <1>0, <2>1, <2>2 DEF Goto, Instant
    <2>3. CASE Goto(c, "markFailed") /\ UNCHANGED shield
      BY <1>0, <2>1, <2>3 DEF Goto
    <2> QED
      BY <1>7, <2>2, <2>3 DEF ExecuteOperation
  <1>8. ASSUME NEW c \in Callers, MarkSucceeded(c)
        PROVE  Held'
    <2>0. pc[c] = "markSucceeded" /\ Return(c) /\ UNCHANGED otherVars
      BY <1>8 DEF MarkSucceeded
    <2>1. CASE UNCHANGED rec
      BY <1>0, <2>0, <2>1, ReturnKeepsInv
    <2>2. CASE rec' = Succeeded(c, Instant(c, TTL))
      BY <1>0, <2>0, <2>2 DEF Succeeded, Instant, Return, Goto, otherVars
    <2> QED
      BY <1>8, <2>1, <2>2 DEF MarkSucceeded, Mark
  <1>9. ASSUME NEW c \in Callers, MarkFailedRetryable(c)
        PROVE  Held'
    <2>0. pc[c] = "markFailed" /\ Return(c) /\ UNCHANGED otherVars
      BY <1>9 DEF MarkFailedRetryable
    <2>1. CASE UNCHANGED rec
      BY <1>0, <2>0, <2>1, ReturnKeepsInv
    <2>2. CASE rec' = FailedRetryable(Backoff, Instant(c, TTL))
      BY <1>0, <2>0, <2>2 DEF FailedRetryable, Return, Goto, otherVars
    <2> QED
      BY <1>9, <2>1, <2>2 DEF MarkFailedRetryable, Mark
  <1>10. ASSUME NEW c \in Callers, Crash(c)
         PROVE  Held'
    BY <1>0, <1>10, ReturnKeepsInv DEF Crash
  <1>11. CASE Cleanup
    <2>0. UNCHANGED <<age, print, seen, pc, shield, revived>>
      BY <1>11 DEF Cleanup
    <2>1. CASE SelectExpired
      BY <1>0, <2>0, <2>1 DEF SelectExpired, Expired
    <2>2. CASE DeleteVictim /\ rec.id # victim
      BY <1>0, <2>0, <2>2 DEF DeleteVictim
    <2>3. CASE DeleteVictim /\ rec.id = victim
      <3>1. rec' = NoRecord /\ rec.exp <= 0 /\ victim' = None
        BY <2>3 DEF DeleteVictim
      <3>2. \A d \in Callers : pc[d] \notin OwnerSteps
        BY <3>1
      <3> QED
        BY <1>0, <2>0, <3>1, <3>2 DEF NoRecord
    <2> QED
      BY <1>11, <2>1, <2>2, <2>3 DEF Cleanup, DeleteExpired
  <1>12. CASE Tick
    <2>1. \A c \in Callers : age'[c] = IF pc[c] = "idle" THEN 0 ELSE age[c] + 1
      BY <1>12 DEF Tick
    <2>2. /\ rec' = Aged /\ shield' = Elapse(shield)
          /\ UNCHANGED <<print, seen, pc, revived, victim>>
      BY <1>12 DEF Tick
    <2>3. \A c \in Callers :
            /\ pc[c] # "idle" => age[c] < MaxAge
            /\ pc[c] \in ClaimSteps => age[c] < MaxClaim
      BY <1>12 DEF Tick
    <2>4. Ages' /\ Exclusive'
      BY <1>0, <2>1, <2>2, <2>3
    <2>9. VictimExpired'
      BY <1>0, <2>2 DEF Aged, Elapse
    <2>5. OwnerHolds'
      BY <1>0, <2>1, <2>2, <2>3 DEF Aged, Elapse
    <2>6. View'
      BY <1>0, <2>1, <2>2, <2>3 DEF Aged, Elapse
    <2>7. SuccessFiled'
      <3>1. rec'.status = "succeeded" => rec'.exp = shield'
        BY <2>2 DEF Aged
      <3>2. ASSUME NEW c \in Callers, pc[c] = "markSucceeded"
            PROVE  shield' = TTL - age'[c]
        <4>1. /\ shield = TTL - age[c] /\ age'[c] = age[c] + 1
              /\ age[c] \in 0..MaxAge /\ shield \in Int
          BY <2>1, <3>2
        <4> QED
          BY <2>2, <4>1 DEF Elapse
      <3> QED
        BY <2>2, <3>1, <3>2
    <2>8. Shielded'
      BY <1>0, <2>1, <2>2, <2>3 DEF Aged, Elapse
    <2> QED
      BY <1>0, <2>4, <2>5, <2>6, <2>7, <2>8, <2>9
  <1>13. CASE UNCHANGED vars
    BY <1>0, <1>13 DEF vars, storeVars, otherVars
  <1> QED
    BY <1>1, <1>2, <1>4, <1>5, <1>6, <1>7, <1>8, <1>9, <1>10, <1>11, <1>12,
       <1>13
    DEF Next, Step

-----------------------------------------------------------------------------
(* A response is filed under its payload.                                  *)

\* Whoever may still write to the record has the payload that is in it.
Filed ==
    \A c \in Callers :
        pc[c] \in OwnerSteps \cup {"reclaimExpired", "reclaimFailed"} =>
            seen[c].id # None /\ (seen[c].id = rec.id => rec.print = print[c])

\* The response on record is the one to the payload on record, although a
\* reclaim leaves the old fingerprint, a mark goes by the id alone and the
\* clean-up may delete a record under its owner.
THEOREM ReplayIsRight == Spec => []ReplayAnswersRequest
  <1> DEFINE Inv == TypeOK /\ Filed /\ ReplayAnswersRequest
  <1>1. Init => Inv
    <2> SUFFICES ASSUME Init PROVE Inv
      OBVIOUS
    <2>1. TypeOK
      BY CoordInit DEF CoordInv
    <2> QED
      BY <2>1 DEF Init, StoreInit, NoRecord, Row, Filed, ReplayAnswersRequest,
         OwnerSteps
  <1>2. Inv /\ [Next]_vars => Inv'
    <2> SUFFICES ASSUME TypeOK, Filed, ReplayAnswersRequest, [Next]_vars
                 PROVE  TypeOK' /\ Filed' /\ ReplayAnswersRequest'
      BY DEF Inv
    <2>0. TypeOK'
      BY TypeStep
    <2> USE NoneAssumption
        DEF TypeOK, StoreOK, Filed, ReplayAnswersRequest, OwnerSteps,
            ClaimSteps, Row, Updated
    <2>1. ASSUME NEW c \in Callers, Return(c), UNCHANGED rec
          PROVE  Filed' /\ ReplayAnswersRequest'
      BY <2>0, <2>1 DEF Return, Goto
    <2>2. ASSUME NEW c \in Callers, NEW p \in Prints, Begin(c, p)
          PROVE  Filed' /\ ReplayAnswersRequest'
      BY <2>0, <2>2 DEF Begin, Goto
    <2>3. ASSUME NEW c \in Callers, Create(c)
          PROVE  Filed' /\ ReplayAnswersRequest'
      <3>1. CASE CreateProcessing(c) /\ Goto(c, "execute") /\ UNCHANGED print
        <4>1. PICK id \in Ids :
                /\ \A d \in Callers : seen[d].id # id
                /\ rec' = Row(id, "processing", print[c], Instant(c, Timeout),
                              Instant(c, TTL), None)
                /\ seen' = [seen EXCEPT ![c] = [id |-> id, status |-> "processing"]]
          BY <3>1, NextIdIsFresh DEF CreateProcessing
        <4> QED
          BY <2>0, <3>1, <4>1 DEF Goto
      <3>2. CASE Goto(c, "read") /\ UNCHANGED <<rec, print, seen>>
        BY <2>0, <3>2 DEF Goto
      <3> QED
        BY <2>1, <2>3, <3>1, <3>2 DEF Create
    <2>4. ASSUME NEW c \in Callers, UNCHANGED <<rec, print>>, GetRecord(c),
                 rec.status # "absent", SamePrint(c), NEW step, Goto(c, step)
          PROVE  Filed' /\ ReplayAnswersRequest'
      BY <2>0, <2>4 DEF GetRecord, SamePrint, Goto
    <2>5. ASSUME NEW c \in Callers, ReadExisting(c) \/ RereadExisting(c)
          PROVE  Filed' /\ ReplayAnswersRequest'
      BY <2>1, <2>4, <2>5 DEF ReadExisting, RereadExisting, Dispatch
    <2>6. ASSUME NEW c \in Callers, Reclaim(c)
          PROVE  Filed' /\ ReplayAnswersRequest'
      <3>1. CASE TryReclaim(c) /\ Goto(c, "execute") /\ UNCHANGED print
        BY <2>0, <2>6, <3>1 DEF Reclaim, TryReclaim, Reclaimable, Goto
      <3>2. CASE Goto(c, "reread") /\ UNCHANGED <<rec, print, seen>>
        BY <2>0, <3>2 DEF Goto
      <3> QED
        BY <2>1, <2>6, <3>1, <3>2 DEF Reclaim
    <2>7. ASSUME NEW c \in Callers, ExecuteOperation(c)
          PROVE  Filed' /\ ReplayAnswersRequest'
      BY <2>0, <2>7 DEF ExecuteOperation, Goto, storeVars
    <2>8. ASSUME NEW c \in Callers, MarkSucceeded(c) \/ MarkFailedRetryable(c)
          PROVE  Filed' /\ ReplayAnswersRequest'
      <3>1. pc[c] \in OwnerSteps /\ Return(c)
        BY <2>8 DEF MarkSucceeded, MarkFailedRetryable
      <3>2. CASE /\ rec.id = seen[c].id
                 /\ \/ rec' = Succeeded(c, Instant(c, TTL))
                    \/ rec' = FailedRetryable(Backoff, Instant(c, TTL))
        BY <2>0, <3>1, <3>2 DEF Succeeded, FailedRetryable, Return, Goto
      <3> QED
        BY <2>1, <2>8, <3>1, <3>2 DEF MarkSucceeded, MarkFailedRetryable, Mark
    <2>9. ASSUME NEW c \in Callers, Crash(c)
          PROVE  Filed' /\ ReplayAnswersRequest'
      BY <2>1, <2>9 DEF Crash
    <2>10. CASE Cleanup
      BY <2>0, <2>10 DEF Cleanup, DeleteExpired, SelectExpired, DeleteVictim,
         NoRecord
    <2>11. CASE Tick
      BY <2>0, <2>11 DEF Tick, Aged
    <2>12. CASE UNCHANGED vars
      BY <2>0, <2>12 DEF vars, storeVars
    <2> QED
      BY <2>0, <2>2, <2>3, <2>5, <2>6, <2>7, <2>8, <2>9, <2>10, <2>11, <2>12
      DEF Next, Step
  <1> QED
    BY <1>1, <1>2, PTL DEF Spec

-----------------------------------------------------------------------------
(* What a client may rely on.  MaxClaim < Timeout: a request that finds the *)
(* record claims it within the processing timeout of reading the clock.     *)

LEMMA CoordInvariant ==
  ASSUME MaxClaim < Timeout
  PROVE  Spec => []CoordInv
  <1>1. CoordInv /\ [Next]_vars => CoordInv'
    <2> SUFFICES ASSUME CoordInv, [Next]_vars
                 PROVE  CoordInv'
      OBVIOUS
    <2>1. TypeOK'
      BY TypeStep DEF CoordInv
    <2>2. ~torn' => ~torn
      BY TornStays
    <2> QED
      BY <2>1, <2>2, CoordStep DEF CoordInv
  <1> QED
    BY CoordInit, <1>1, PTL DEF Spec

\* Two requests with the same key never run the operation at the same time,
\* with claims, crashes, lost marks and clean-ups in any order, until a claim
\* falls between the two halves of a clean-up.
THEOREM RequestsExclude ==
  ASSUME MaxClaim < Timeout
  PROVE  Spec => []OneOwner
  <1>1. CoordInv => OneOwner
    BY DEF CoordInv, Held, Exclusive, OneOwner
  <1> QED
    BY CoordInvariant, <1>1, PTL

\* A record that is replayed stands for an effect, one that lets the
\* operation run again for none.
THEOREM RecordIsTrue ==
  ASSUME MaxClaim < Timeout
  PROVE  Spec => []RecordTellsEffect
  <1>1. CoordInv => RecordTellsEffect
    BY DEF CoordInv, Held, TypeOK, StoreOK, SuccessFiled, Shielded,
       RecordTellsEffect
  <1> QED
    BY CoordInvariant, <1>1, PTL

\* Until a request takes over an expired success, the operation takes effect
\* once in the life time of a record, whether or not its success was recorded.
THEOREM EffectOnce ==
  ASSUME MaxClaim < Timeout
  PROVE  Spec => EffectOnceUntilRevived
  <1>1. CoordInv => [TakesEffect /\ ~revived /\ ~torn => shield <= 0]_vars
    BY DEF CoordInv, Held, TypeOK, Shielded, TakesEffect
  <1> QED
    BY CoordInvariant, <1>1, PTL DEF EffectOnceUntilRevived
=============================================================================
