------------------------- MODULE SystemOperationLock -------------------------
(***************************************************************************)
(* system_operation_lock_service.go and the system handlers: updates,      *)
(* rollbacks and restarts exclude each other by a lease on one idempotency *)
(* record, whose fingerprint is the operation id.                          *)
(***************************************************************************)
EXTENDS IdempotencyStore

CONSTANTS
    Interval,   \* renewInterval
    MaxClaim    \* bound on the time from `now` to the claim of the lock

ASSUME ClaimAssumption ==
    MaxClaim \in Nat /\ Interval \in Nat \ {0} /\ MaxAge < TTL

VARIABLES
    pc,
    renewal,    \* time until the next round of the caller's renewLoop
    lapsed      \* history: a lease that nobody renews ran out in an operation

vars == <<storeVars, pc, renewal, lapsed>>
otherVars == <<victim, torn, lapsed>>

\* There is no renewLoop.
Off == -1

ClaimSteps == {"create", "read", "reclaim"}
HolderSteps == {"operate", "release"}

Goto(c, step) == pc' = [pc EXCEPT ![c] = step]

Return(c) ==
    /\ Goto(c, "idle")
    /\ age' = [age EXCEPT ![c] = 0]
    /\ print' = [print EXCEPT ![c] = None]
    /\ seen' = [seen EXCEPT ![c] = NotSeen]
    /\ renewal' = [renewal EXCEPT ![c] = Off]

-----------------------------------------------------------------------------
(* Acquire.                                                                *)

\* A system handler is called with the operation id p.
Begin(c, p) ==
    /\ pc[c] = "idle"
    /\ Goto(c, "create")
    /\ print' = [print EXCEPT ![c] = p]
    /\ UNCHANGED <<rec, age, seen, faults, renewal, otherVars>>

Acquired(c) ==
    /\ Goto(c, "operate")
    /\ renewal' = [renewal EXCEPT ![c] = Interval]
    /\ UNCHANGED <<age, print>>

Create(c) ==
    /\ pc[c] = "create"
    /\ \/ /\ CreateProcessing(c)
          /\ Acquired(c)
          /\ NoFault
       \/ /\ rec.status # "absent"
          /\ Goto(c, "read")
          /\ NoFault
          /\ UNCHANGED <<rec, age, print, seen, renewal>>
       \/ /\ Fault
          /\ Return(c)
          /\ UNCHANGED rec
    /\ UNCHANGED otherVars

\* Mutant: a lock is never given up by waiting for it.
BusyUntilReleased(c) == rec.status = "processing"

Busy(c) == rec.status = "processing" /\ ~Passed(c, rec.lock)

ReadExisting(c) ==
    /\ pc[c] = "read"
    /\ \/ /\ rec.status = "absent" \/ Busy(c)
          /\ Return(c)
          /\ NoFault
       \/ /\ rec.status # "absent" /\ ~Busy(c)
          /\ GetRecord(c)
          /\ Goto(c, "reclaim")
          /\ NoFault
          /\ UNCHANGED <<age, print, renewal>>
       \/ Fault /\ Return(c)
    /\ UNCHANGED <<rec, otherVars>>

Reclaim(c) ==
    /\ pc[c] = "reclaim"
    /\ \/ /\ TryReclaim(c)
          /\ Acquired(c)
       \/ /\ ~Reclaimable(c)
          /\ Return(c)
          /\ NoFault
          /\ UNCHANGED <<rec, torn>>
       \/ /\ Fault
          /\ Return(c)
          /\ UNCHANGED <<rec, torn>>
    /\ UNCHANGED <<victim, lapsed>>

-----------------------------------------------------------------------------
(* renewLoop.                                                              *)

\* Mutant: a transient failure ends the loop.
LoopGivesUp == Off

\* "A transient failure must not make the renewal goroutine exit."
AfterFailedRenewal == Interval

Owned(c) ==
    rec.id = seen[c].id /\ rec.status = "processing" /\ rec.print = print[c]

\* ExtendProcessingLock; the loop ends when it finds its ownership lost, as it
\* does after a claim of a row with another operation's id in it.
Renew(c) ==
    /\ renewal[c] = 0
    /\ \/ /\ Owned(c)
          /\ rec' = Updated("processing", Timeout, TTL)
          /\ renewal' = [renewal EXCEPT ![c] = Interval]
          /\ NoFault
       \/ /\ ~Owned(c)
          /\ renewal' = [renewal EXCEPT ![c] = Off]
          /\ NoFault
          /\ UNCHANGED rec
       \/ /\ Fault
          /\ renewal' = [renewal EXCEPT ![c] = AfterFailedRenewal]
          /\ UNCHANGED rec
    /\ UNCHANGED <<age, print, seen, pc, otherVars>>

-----------------------------------------------------------------------------
(* Release.                                                                *)

\* The operation ends.  Closing stopCh does not interrupt a renewal that is
\* under way, which may still extend the lease before the release.
FinishOperation(c) ==
    /\ pc[c] = "operate"
    /\ Goto(c, "release")
    /\ UNCHANGED <<storeVars, renewal, lapsed>>

\* Success and failure are recorded differently; both free the lock, by the
\* id of the record alone.  Nobody reads the response.  The handlers ignore
\* an error.
Release(c) ==
    /\ pc[c] = "release"
    /\ \/ /\ \/ Mark(c, Updated("succeeded", Past, TTL))
             \/ Mark(c, FailedRetryable(0, TTL))
          /\ NoFault
       \/ Fault /\ UNCHANGED rec
    /\ Return(c)
    /\ UNCHANGED otherVars

\* The process dies, or restarts after a restart operation, or a claim takes
\* effect and reports an error.
Crash(c) ==
    /\ pc[c] # "idle"
    /\ Fault
    /\ Return(c)
    /\ UNCHANGED <<rec, otherVars>>

Cleanup ==
    /\ DeleteExpired
    /\ UNCHANGED <<age, print, seen, faults, pc, renewal, lapsed>>

\* The operation has claimed a row with another operation's id in it.
TookOver(c) == pc[c] \in HolderSteps /\ rec.print # print[c]

\* Time passes.  A renewal and a release are given two seconds, which is less
\* than a unit of time.
Tick ==
    /\ \A c \in Callers :
         /\ renewal[c] # 0 /\ pc[c] # "release"
         /\ pc[c] # "idle" => age[c] < MaxAge
         /\ pc[c] \in ClaimSteps => age[c] < MaxClaim
    /\ age' = [c \in Callers |-> IF pc[c] = "idle" THEN 0 ELSE age[c] + 1]
    /\ rec' = Aged
    /\ renewal' = [c \in Callers |->
                     IF renewal[c] > 0 THEN renewal[c] - 1 ELSE renewal[c]]
    /\ lapsed' = (lapsed \/ \E c \in Callers : TookOver(c) /\ rec'.lock <= 0)
    /\ UNCHANGED <<print, seen, faults, pc, victim, torn>>

-----------------------------------------------------------------------------
Step(c) ==
    \/ Create(c) \/ ReadExisting(c) \/ Reclaim(c)
    \/ FinishOperation(c) \/ Release(c)

Init ==
    /\ StoreInit
    /\ pc = [c \in Callers |-> "idle"]
    /\ renewal = [c \in Callers |-> Off]
    /\ lapsed = FALSE

Next ==
    \/ \E c \in Callers :
         \/ \E p \in Prints : Begin(c, p)
         \/ Step(c) \/ Renew(c) \/ Crash(c)
    \/ Cleanup
    \/ Tick

Spec == Init /\ [][Next]_vars

\* Handlers and renewals go on, time passes, a clean-up that has begun ends,
\* and administrators ask again for an operation that was refused.
Fairness ==
    /\ WF_vars(Tick) /\ WF_vars(Cleanup /\ victim # None)
    /\ \A c \in Callers : WF_vars(Step(c)) /\ WF_vars(Renew(c))
    /\ \A p \in Prints : SF_vars(\E c \in Callers : Begin(c, p))

FairSpec == Spec /\ Fairness

-----------------------------------------------------------------------------
\* The variables keep their types.
TypeOK ==
    /\ StoreOK
    /\ pc \in [Callers -> {"idle"} \cup ClaimSteps \cup HolderSteps]
    /\ renewal \in [Callers -> Off..Interval]
    /\ lapsed \in BOOLEAN

Exclusive ==
    \A c, d \in Callers :
        pc[c] \in HolderSteps /\ pc[d] \in HolderSteps => c = d

\* Two system operations never run at the same time, although they outlive
\* their leases and renewals fail: the second is told "another system operation
\* is in progress" (Acquire).  Two things end this: the lease of an operation
\* that took over another one's row runs out (TryReclaim leaves the other id
\* in the row and ExtendProcessingLock asks for the own one), and a claim falls
\* into a running clean-up.
OneOperation == ~lapsed /\ ~torn => Exclusive

\* "locked_until should be renewed while lock is held": the lease of an
\* operation does not run out while it operates (renewLoop).  The first one
\* that does is of an operation that took over another one's row.
HeldIsRenewed ==
    ~lapsed /\ ~torn => \A c \in Callers : pc[c] = "operate" => rec.lock > 0

\* The lock of an operation that died does not stay taken for ever:
\* "expired lease should allow a new operation to reclaim lock".
DeadLockIsFreed ==
    (rec.status = "processing" /\ \A c \in Callers : pc[c] \notin HolderSteps)
        ~> (rec.status = "absent" \/ \E c \in Callers : pc[c] \in HolderSteps)
=============================================================================
