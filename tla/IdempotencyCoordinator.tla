------------------------ MODULE IdempotencyCoordinator ------------------------
(***************************************************************************)
(* idempotency.go: Execute runs the operation behind an Idempotency-Key,   *)
(* replays its stored response to repeated requests, and lets it be tried  *)
(* again after a failure or when the record has expired.  All requests     *)
(* carry the same key; requests with other keys use other records.         *)
(***************************************************************************)
EXTENDS IdempotencyStore

CONSTANTS
    Backoff,    \* cfg.FailedRetryBackoff
    MaxClaim    \* bound on the time from `now` to the claim of the record

\* A request ends before the record it wrote expires: minutes against hours.
ASSUME AgeAssumption == MaxAge < TTL /\ Backoff \in Nat /\ MaxClaim \in Nat

VARIABLES
    pc,
    shield, \* time left in the life time that the last success began
    revived \* some request has taken over an expired success

otherVars == <<shield, revived, victim, torn>>
vars == <<storeVars, pc, shield, revived>>

\* The owner of the record, from its claim to its last statement.
OwnerSteps == {"execute", "markSucceeded", "markFailed"}

ClaimSteps == {"create", "read", "reclaimExpired", "reread", "reclaimFailed"}

CoordinatorSteps == {"idle"} \cup ClaimSteps \cup OwnerSteps

Goto(c, step) == pc' = [pc EXCEPT ![c] = step]

\* Execute returns, with a result, a replay or an error.
Return(c) ==
    /\ Goto(c, "idle")
    /\ age' = [age EXCEPT ![c] = 0]
    /\ print' = [print EXCEPT ![c] = None]
    /\ seen' = [seen EXCEPT ![c] = NotSeen]

-----------------------------------------------------------------------------
\* A request arrives and reads the clock.
Begin(c, p) ==
    /\ pc[c] = "idle"
    /\ Goto(c, "create")
    /\ print' = [print EXCEPT ![c] = p]
    /\ UNCHANGED <<rec, age, seen, faults, otherVars>>

Create(c) ==
    /\ pc[c] = "create"
    /\ \/ /\ CreateProcessing(c)
          /\ Goto(c, "execute")
          /\ NoFault
          /\ UNCHANGED <<age, print>>
       \/ /\ rec.status # "absent"
          /\ Goto(c, "read")
          /\ NoFault
          /\ UNCHANGED <<rec, age, print, seen>>
       \/ /\ Fault
          /\ Return(c)
          /\ UNCHANGED rec
    /\ UNCHANGED otherVars

\* Mutant: payloads are not compared.
AnyPrint(c) == TRUE

SamePrint(c) == rec.print = print[c]

ExpiredFor(c) == Passed(c, rec.exp)

\* The switch on the status of the existing record: replay, conflict,
\* backoff, or another try.
Dispatch(c) ==
    \/ /\ rec.status = "failed_retryable" /\ Passed(c, rec.lock)
       /\ GetRecord(c)
       /\ Goto(c, "reclaimFailed")
       /\ UNCHANGED <<age, print>>
    \/ /\ ~(rec.status = "failed_retryable" /\ Passed(c, rec.lock))
       /\ Return(c)

ReadExisting(c) ==
    /\ pc[c] = "read"
    /\ \/ /\ rec.status = "absent" \/ ~SamePrint(c)
          /\ Return(c)
          /\ NoFault
       \/ /\ rec.status # "absent" /\ SamePrint(c) /\ ExpiredFor(c)
          /\ GetRecord(c)
          /\ Goto(c, "reclaimExpired")
          /\ NoFault
          /\ UNCHANGED <<age, print>>
       \/ /\ rec.status # "absent" /\ SamePrint(c) /\ ~ExpiredFor(c)
          /\ Dispatch(c)
          /\ NoFault
       \/ Fault /\ Return(c)
    /\ UNCHANGED <<rec, otherVars>>

\* After a lost race for an expired record the expiry is not checked again.
RereadExisting(c) ==
    /\ pc[c] = "reread"
    /\ \/ /\ rec.status = "absent" \/ ~SamePrint(c)
          /\ Return(c)
          /\ NoFault
       \/ /\ rec.status # "absent" /\ SamePrint(c)
          /\ Dispatch(c)
          /\ NoFault
       \/ Fault /\ Return(c)
    /\ UNCHANGED <<rec, otherVars>>

Reclaim(c) ==
    /\ pc[c] \in {"reclaimExpired", "reclaimFailed"}
    /\ \/ /\ TryReclaim(c)
          /\ Goto(c, "execute")
          /\ revived' = (revived \/ (rec.status = "succeeded" /\ rec.exp <= 0))
          /\ UNCHANGED <<age, print>>
       \/ /\ ~Reclaimable(c) /\ pc[c] = "reclaimExpired"
          /\ Goto(c, "reread")
          /\ NoFault
          /\ UNCHANGED <<rec, age, print, seen, revived, torn>>
       \/ /\ ~Reclaimable(c) /\ pc[c] = "reclaimFailed"
          /\ Return(c)
          /\ NoFault
          /\ UNCHANGED <<rec, revived, torn>>
       \/ /\ Fault
          /\ Return(c)
          /\ UNCHANGED <<rec, revived, torn>>
    /\ UNCHANGED <<shield, victim>>

\* The operation itself: it takes effect, or fails without effect.
ExecuteOperation(c) ==
    /\ pc[c] = "execute"
    /\ \/ /\ Goto(c, "markSucceeded")
          /\ shield' = Instant(c, TTL)
       \/ /\ Goto(c, "markFailed")
          /\ UNCHANGED shield
    /\ UNCHANGED <<storeVars, revived>>

MarkSucceeded(c) ==
    /\ pc[c] = "markSucceeded"
    /\ \/ /\ Mark(c, Succeeded(c, Instant(c, TTL)))
          /\ NoFault
       \/ Fault /\ UNCHANGED rec
    /\ Return(c)
    /\ UNCHANGED otherVars

\* The backoff starts now, the expiry is still that of the request's start.
MarkFailedRetryable(c) ==
    /\ pc[c] = "markFailed"
    /\ \/ /\ Mark(c, FailedRetryable(Backoff, Instant(c, TTL)))
          /\ NoFault
       \/ Fault /\ UNCHANGED rec
    /\ Return(c)
    /\ UNCHANGED otherVars

\* The process dies between two statements, or a claim takes effect and
\* reports an error.
Crash(c) ==
    /\ pc[c] # "idle"
    /\ Fault
    /\ Return(c)
    /\ UNCHANGED <<rec, otherVars>>

Cleanup ==
    /\ DeleteExpired
    /\ UNCHANGED <<age, print, seen, faults, pc, shield, revived>>

\* Time passes, for everybody alike.
Tick ==
    /\ \A c \in Callers :
         /\ pc[c] # "idle" => age[c] < MaxAge
         /\ pc[c] \in ClaimSteps => age[c] < MaxClaim
    /\ age' = [c \in Callers |-> IF pc[c] = "idle" THEN 0 ELSE age[c] + 1]
    /\ rec' = Aged
    /\ shield' = Elapse(shield)
    /\ UNCHANGED <<print, seen, faults, pc, revived, victim, torn>>

-----------------------------------------------------------------------------
Step(c) ==
    \/ Create(c) \/ ReadExisting(c) \/ RereadExisting(c) \/ Reclaim(c)
    \/ ExecuteOperation(c) \/ MarkSucceeded(c) \/ MarkFailedRetryable(c)

Init ==
    /\ StoreInit
    /\ pc = [c \in Callers |-> "idle"]
    /\ shield = Past
    /\ revived = FALSE

Next ==
    \/ \E c \in Callers :
         (\E p \in Prints : Begin(c, p)) \/ Step(c) \/ Crash(c)
    \/ Cleanup
    \/ Tick

Spec == Init /\ [][Next]_vars

\* Handlers go on, time passes, and the clean-up runs at its intervals.
\* Nothing is assumed of the clients.
Fairness ==
    /\ WF_vars(Tick) /\ WF_vars(Cleanup)
    /\ \A c \in Callers : WF_vars(Step(c))

FairSpec == Spec /\ Fairness

-----------------------------------------------------------------------------
\* The variables keep their types.
TypeOK ==
    /\ StoreOK
    /\ pc \in [Callers -> CoordinatorSteps]
    /\ shield \in Int
    /\ revived \in BOOLEAN

\* Two requests with the same key never run the operation at the same time,
\* although claims are made by an id and a status read earlier and with an
\* old clock reading (CreateProcessing, TryReclaim).  The one exception is a
\* claim that falls into a running clean-up, which deletes the claimed record.
OneOwner ==
    ~torn => \A c, d \in Callers :
                pc[c] \in OwnerSteps /\ pc[d] \in OwnerSteps => c = d

TakesEffect ==
    \E c \in Callers : pc[c] = "execute" /\ pc'[c] = "markSucceeded"

\* The operation takes effect at most once in the life time of a record,
\* counted from the start of the request that succeeded, as long as no request
\* has taken over an expired success or a record about to be cleaned up,
\* although MarkSucceeded may fail or never come (Execute).
EffectOnceUntilRevived ==
    [][TakesEffect /\ ~revived /\ ~torn => shield <= 0]_vars

\* A stored response answers the payload it is filed under: who repeats a
\* request is never given the response to another (the fingerprint checks
\* of Execute; TryReclaim leaves the old fingerprint in the record).
ReplayAnswersRequest == rec.status = "succeeded" => rec.body = rec.print

\* A record says succeeded, and is replayed, only if the operation took
\* effect for it; one that says failed_retryable, and lets the operation
\* run again, only if it did not (MarkSucceeded, MarkFailedRetryable; with
\* the same two exceptions).
RecordTellsEffect ==
    ~torn =>
        /\ rec.status = "succeeded" /\ rec.exp > 0 => shield > 0
        /\ rec.status = "failed_retryable" /\ ~revived => shield <= 0

\* A key whose request died does not stay blocked: in the end the record is
\* deleted or another request owns it.
OrphanIsFreed ==
    (rec.status = "processing" /\ \A c \in Callers : pc[c] \notin OwnerSteps)
        ~> (rec.status = "absent" \/ \E c \in Callers : pc[c] \in OwnerSteps)
=============================================================================
