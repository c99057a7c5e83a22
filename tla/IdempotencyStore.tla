--------------------------- MODULE IdempotencyStore ---------------------------
(***************************************************************************)
(* idempotency_repo.go: the idempotency record of one (scope, key), and    *)
(* the statements that claim, extend, finish and delete it.  The statements*)
(* of a caller use the instant `now` it read before the first of them, so  *)
(* they work with a clock reading that grows old.                          *)
(*                                                                         *)
(* Instants are kept relative to the present: a record's lock and exp are  *)
(* the time left until locked_until and expires_at, negative once they     *)
(* have passed, and a caller whose age is a has now = -a.                  *)
(***************************************************************************)
EXTENDS Integers, FiniteSets

CONSTANTS
    Callers,    \* concurrent requests for the key
    Prints,     \* request fingerprints
    Ids,        \* values of the id sequence
    None,       \* no id, no fingerprint
    TTL,        \* life time of a record
    Timeout,    \* cfg.ProcessingTimeout
    MaxAge,     \* bound on the time a caller needs from `now` to its end
    MaxFaults   \* bound on the number of failures in a behaviour

ASSUME NoneAssumption == None \notin Ids /\ None \notin Prints

ASSUME TimeAssumption ==
    /\ TTL \in Nat \ {0} /\ Timeout \in Nat \ {0}
    /\ MaxAge \in Nat /\ MaxFaults \in Nat

VARIABLES
    rec,    \* the row, with status "absent" when there is none
    age,    \* time since the caller read the clock
    print,  \* the caller's fingerprint
    seen,   \* id and status of the row as the caller last saw or claimed it
    victim, \* the id that a running clean-up has selected
    torn,   \* history: a record was claimed after the clean-up selected it
    faults

storeVars == <<rec, age, print, seen, victim, torn, faults>>

\* An instant that lies before any caller's now.  SQL's NULL locked_until
\* is treated like one by every condition.
Past == -(MaxAge + 1)

Row(id, status, fp, lock, exp, body) ==
    [id |-> id, status |-> status, print |-> fp, lock |-> lock, exp |-> exp,
     body |-> body]

NoRecord == Row(None, "absent", None, Past, Past, None)

\* UPDATE ... SET status, locked_until, expires_at.
Updated(status, lock, exp) ==
    Row(rec.id, status, rec.print, lock, exp, rec.body)

NotSeen == [id |-> None, status |-> "absent"]

RecordStatuses == {"absent", "processing", "succeeded", "failed_retryable"}

-----------------------------------------------------------------------------
(* Time.                                                                   *)

\* now.Add(d) and !t.After(now), for the now of caller c.
Instant(c, d) == d - age[c]
Passed(c, t) == t <= -age[c]

Elapse(t) == IF t > Past THEN t - 1 ELSE Past

Aged == Row(rec.id, rec.status, rec.print, Elapse(rec.lock), Elapse(rec.exp),
            rec.body)

-----------------------------------------------------------------------------
(* Statements.                                                             *)

Fault == faults < MaxFaults /\ faults' = faults + 1
NoFault == UNCHANGED faults

\* The id sequence never repeats a value; an id nobody knows any more
\* stands for a new one.
FreshIds == Ids \ ({seen[c].id : c \in Callers} \cup {victim})
NextId == CHOOSE id \in FreshIds : TRUE

\* INSERT ... ON CONFLICT DO NOTHING.
CreateProcessing(c) ==
    /\ rec.status = "absent"
    /\ FreshIds # {}
    /\ rec' = Row(NextId, "processing", print[c], Instant(c, Timeout),
                  Instant(c, TTL), None)
    /\ seen' = [seen EXCEPT ![c] = [id |-> NextId, status |-> "processing"]]

\* GetByScopeAndKeyHash.
GetRecord(c) ==
    seen' = [seen EXCEPT ![c] = [id |-> rec.id, status |-> rec.status]]

\* Mutants: the lock is not looked at; the status is not looked at.
ReclaimableLocked(c) ==
    rec.status # "absent" /\ rec.id = seen[c].id /\ rec.status = seen[c].status
ReclaimableAnyStatus(c) ==
    rec.status # "absent" /\ rec.id = seen[c].id /\ Passed(c, rec.lock)

Reclaimable(c) ==
    /\ rec.status # "absent"
    /\ rec.id = seen[c].id
    /\ rec.status = seen[c].status
    /\ Passed(c, rec.lock)

\* The fingerprint of the row is left alone.  A claim that falls into a
\* running clean-up counts as a failure.
TryReclaim(c) ==
    /\ Reclaimable(c)
    /\ rec' = Updated("processing", Instant(c, Timeout), Instant(c, TTL))
    /\ seen' = [seen EXCEPT ![c] = [id |-> rec.id, status |-> "processing"]]
    /\ \/ rec.id = victim /\ Fault /\ torn' = TRUE
       \/ rec.id # victim /\ NoFault /\ UNCHANGED torn

\* MarkSucceeded and MarkFailedRetryable go by the id alone.
Mark(c, marked) ==
    rec' = IF rec.status # "absent" /\ rec.id = seen[c].id THEN marked ELSE rec

Succeeded(c, exp) ==
    Row(rec.id, "succeeded", rec.print, Past, exp, print[c])

\* Mutant: a status that nobody looks for.
FailedForGood(lock, exp) == Updated("failed", lock, exp)

FailedRetryable(lock, exp) == Updated("failed_retryable", lock, exp)

\* Mutants: clean-up goes by the lock, not by the expiry; it spares records
\* that say processing.
Unlocked == rec.status # "absent" /\ rec.lock <= 0
ExpiredAndFinished == rec.status \notin {"absent", "processing"} /\ rec.exp <= 0

\* IdempotencyCleanupService.cleanupOnce reads the clock just before.
Expired == rec.status # "absent" /\ rec.exp <= 0

\* The statement selects the expired rows, then deletes by id what it has
\* selected: a row that was claimed in between is deleted all the same.
SelectExpired ==
    /\ victim = None
    /\ Expired
    /\ victim' = rec.id
    /\ UNCHANGED rec

DeleteVictim ==
    /\ victim # None
    /\ rec' = IF rec.id = victim THEN NoRecord ELSE rec
    /\ victim' = None

DeleteExpired == (SelectExpired \/ DeleteVictim) /\ UNCHANGED torn

-----------------------------------------------------------------------------
StoreInit ==
    /\ rec = NoRecord
    /\ age = [c \in Callers |-> 0]
    /\ print = [c \in Callers |-> None]
    /\ seen = [c \in Callers |-> NotSeen]
    /\ victim = None
    /\ torn = FALSE
    /\ faults = 0

StoreOK ==
    /\ rec \in [id : Ids \cup {None}, status : RecordStatuses,
                print : Prints \cup {None}, lock : Int, exp : Int,
                body : Prints \cup {None}]
    /\ rec.status = "absent" <=> rec.id = None
    /\ age \in [Callers -> 0..MaxAge]
    /\ print \in [Callers -> Prints \cup {None}]
    /\ seen \in [Callers -> [id : Ids \cup {None}, status : RecordStatuses]]
    /\ victim \in Ids \cup {None}
    /\ torn \in BOOLEAN
    /\ faults \in Nat
=============================================================================
