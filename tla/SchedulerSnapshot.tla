-------------------------- MODULE SchedulerSnapshot --------------------------
(***************************************************************************)
(* scheduler_snapshot_service.go, scheduler_outbox_repo.go and             *)
(* scheduler_cache.go: the list of schedulable accounts that the gateway   *)
(* reads from Redis, and the outbox by which the instances learn that it   *)
(* has changed.                                                            *)
(*                                                                         *)
(* One account that is in no group, and its bucket: all its events have the *)
(* same dedup key.  The data of the account is the number of its last      *)
(* change.  A version number of a snapshot is only compared with others,   *)
(* so it is kept as the order of the numbers in use.                       *)
(***************************************************************************)
EXTENDS Integers, FiniteSets

CONSTANTS
    Writers,        \* goroutines that change the account
    Pollers,        \* pollOutbox, one per instance
    Rebuilders,     \* runInitialRebuild and runFullRebuildWorker
    Readers,        \* requests in ListSchedulableAccounts
    StateOf,        \* the account after a change: "on" (schedulable), "off", "gone"
    Limit,          \* rows of a poll, 200
    MaxChanges,     \* bound on the changes of the account
    MaxRows,        \* bound on the rows of the outbox
    MaxFaults       \* bound on failing calls, dying processes and lost locks

Versions == 0..MaxChanges
Ids == 1..MaxRows
Tasks == Pollers \cup Rebuilders \cup Readers

ASSUME SchedulerAssumption ==
    /\ MaxChanges \in Nat /\ MaxRows \in Nat /\ MaxFaults \in Nat
    /\ Limit \in Nat \ {0}
    /\ StateOf \in [Versions -> {"on", "off", "gone"}]
    /\ Pollers \cap Rebuilders = {} /\ Pollers \cap Readers = {}
    /\ Rebuilders \cap Readers = {}

VARIABLES
    db,         \* the account's row: its last committed change
    row,        \* scheduler_outbox, by id
    seq,        \* the last id taken from the sequence
    wm,         \* sched:outbox:watermark
    lock,       \* sched:lock:{bucket} is set
    snap,       \* the change at which the active snapshot was loaded
    data,       \* the change that sched:acc:{id} and sched:meta:{id} hold
    task,       \* where the tasks are, what they have read, the rows a poller works on
    ahead,      \* the tasks whose version numbers are in use and below a task's
    late,       \* the tasks whose version numbers are below the active one
    wpc, how, note, by,     \* the writers: step, kind of change, its number, its event's row
    faults,
    handled,    \* rows whose event was handled to its end
    slow,       \* rows not committed when a later one was listed
    broken      \* the lock was lost while held, or a request wrote a snapshot

outbox == <<row, seq>>
cache == <<snap, data>>
order == <<ahead, late>>
bg == <<task, order>>
writer == <<wpc, how, note, by>>
ghosts == <<handled, slow, broken>>
vars == <<db, outbox, wm, lock, cache, bg, writer, faults, ghosts>>

None == 0 - 1
Idle == [step |-> "idle", ver |-> None, from |-> 0, batch |-> {}, at |-> 0, seen |-> FALSE]
NoRow == [state |-> "none", kind |-> "changed", key |-> FALSE]

Init ==
    /\ db = 0 /\ row = [i \in Ids |-> NoRow] /\ seq = 0
    /\ wm = 0 /\ lock = FALSE /\ snap = None /\ data = None
    /\ task = [t \in Tasks |-> Idle]
    /\ ahead = [t \in Tasks |-> {}] /\ late = {}
    /\ wpc = [w \in Writers |-> "idle"] /\ how = [w \in Writers |-> "own"]
    /\ note = [w \in Writers |-> None] /\ by = [w \in Writers |-> 0]
    /\ faults = 0
    /\ handled = {} /\ slow = {} /\ broken = FALSE

Fault == faults < MaxFaults /\ faults' = faults + 1
NoFault == UNCHANGED faults

-----------------------------------------------------------------------------
(* Changes of the account, and the outbox (account_repo.go,                *)
(* usage_billing_repo.go).                                                 *)

WGoto(w, step) == wpc' = [wpc EXCEPT ![w] = step]

\* The call returns.
WReturn(w) ==
    /\ WGoto(w, "idle")
    /\ how' = [how EXCEPT ![w] = "own"]
    /\ note' = [note EXCEPT ![w] = None]
    /\ by' = [by EXCEPT ![w] = 0]

\* A transaction that changes the account holds its row.
AccountLocked == \E w \in Writers : how[w] = "tx"

MayChange == db < MaxChanges /\ StateOf[db] # "gone" /\ ~AccountLocked

\* The account's row is updated or deleted by a statement or a transaction of
\* its own; credentials change without an event.
Change(w) ==
    /\ wpc[w] = "idle" /\ MayChange
    /\ db' = db + 1
    /\ note' = [note EXCEPT ![w] = db + 1]
    /\ IF StateOf[db + 1] = "gone" THEN WGoto(w, "forget")
       ELSE WGoto(w, "enqueue") \/ WGoto(w, "sync")
    /\ UNCHANGED <<outbox, wm, lock, cache, bg, how, by, faults, ghosts>>

\* incrementUsageBillingAccountQuota: a quota is used up by a transaction that
\* commits later, with its event.
TxChange(w) ==
    /\ wpc[w] = "idle" /\ MayChange /\ StateOf[db + 1] # "gone"
    /\ how' = [how EXCEPT ![w] = "tx"]
    /\ note' = [note EXCEPT ![w] = db + 1]
    /\ WGoto(w, "enqueue")
    /\ UNCHANGED <<db, outbox, wm, lock, cache, bg, by, faults, ghosts>>

\* UpdateLastUsed
Touch(w) ==
    /\ wpc[w] = "idle" /\ seq < MaxRows
    /\ how' = [how EXCEPT ![w] = "touch"]
    /\ WGoto(w, "enqueue")
    /\ UNCHANGED <<db, outbox, wm, lock, cache, bg, note, by, faults, ghosts>>

Keyed(state) == {i \in Ids : row[i].state = state /\ row[i].key}

\* After its event a writer may refresh the account's entry.
Announced(w) ==
    \/ WReturn(w)
    \/ /\ how[w] = "own" /\ StateOf[note[w]] # "gone"
       /\ WGoto(w, "sync")
       /\ UNCHANGED <<how, note, by>>

\* enqueueSchedulerOutbox: a pending row with the same dedup key stands for
\* the new event as well; the insert waits for one that is not committed.
\* A failure is logged, and ends the transaction that changes the quota.
Enqueue(w) ==
    /\ wpc[w] = "enqueue"
    /\ \/ /\ how[w] # "touch" /\ Keyed("open") = {}
          /\ \E i \in Keyed("live") :
                \/ how[w] = "own" /\ Announced(w)
                \/ /\ how[w] = "tx" /\ WGoto(w, "commit")
                   /\ by' = [by EXCEPT ![w] = i]
                   /\ UNCHANGED <<how, note>>
          /\ NoFault
          /\ UNCHANGED outbox
       \/ /\ how[w] = "touch" \/ Keyed("open") \cup Keyed("live") = {}
          /\ seq < MaxRows
          /\ seq' = seq + 1
          /\ row' = [row EXCEPT ![seq + 1] =
                        [state |-> "open", key |-> how[w] # "touch",
                         kind |-> IF how[w] = "touch" THEN "used" ELSE "changed"]]
          /\ by' = [by EXCEPT ![w] = seq + 1]
          /\ WGoto(w, "commit")
          /\ NoFault
          /\ UNCHANGED <<how, note>>
       \/ /\ Fault \/ (seq = MaxRows /\ NoFault)
          /\ Announced(w)
          /\ UNCHANGED outbox
    /\ UNCHANGED <<db, wm, lock, cache, bg, ghosts>>

\* The event's row is committed, if it is the writer's own; with it, in its
\* transaction, the quota that is used up.
Commit(w) ==
    /\ wpc[w] = "commit"
    /\ row' = [row EXCEPT ![by[w]].state = IF @ = "open" THEN "live" ELSE @]
    /\ db' = IF how[w] = "tx" THEN note[w] ELSE db
    /\ Announced(w)
    /\ UNCHANGED <<seq, wm, lock, cache, bg, faults, ghosts>>

\* The transaction rolls back, and its row was never there.
Rollback(w) ==
    /\ wpc[w] = "commit" /\ how[w] = "tx" /\ Fault
    /\ row' = [row EXCEPT ![by[w]] = IF @.state = "open" THEN NoRow ELSE @]
    /\ WReturn(w)
    /\ UNCHANGED <<db, seq, wm, lock, cache, bg, ghosts>>

\* syncSchedulerAccountSnapshot reads the account ...
SyncRead(w) ==
    /\ wpc[w] = "sync"
    /\ \/ StateOf[db] = "gone" /\ WReturn(w)
       \/ /\ StateOf[db] # "gone" /\ WGoto(w, "syncWrite")
          /\ note' = [note EXCEPT ![w] = db]
          /\ UNCHANGED <<how, by>>
    /\ UNCHANGED <<db, outbox, wm, lock, cache, bg, faults, ghosts>>

\* ... and writes its entry.  A failure is logged.
SyncWrite(w) ==
    /\ wpc[w] = "syncWrite"
    /\ \/ data' = note[w] /\ NoFault
       \/ Fault /\ UNCHANGED data
    /\ WReturn(w)
    /\ UNCHANGED <<db, outbox, wm, lock, snap, bg, ghosts>>

\* deleteSchedulerAccountSnapshot, before the event.
Forget(w) ==
    /\ wpc[w] = "forget"
    /\ \/ data' = None /\ NoFault
       \/ Fault /\ UNCHANGED data
    /\ WGoto(w, "enqueue")
    /\ UNCHANGED <<db, outbox, wm, lock, snap, bg, how, note, by, ghosts>>

WriterStep(w) == Enqueue(w) \/ Commit(w) \/ SyncRead(w) \/ SyncWrite(w) \/ Forget(w)

-----------------------------------------------------------------------------
(* Reading the outbox: pollOutbox.                                         *)

\* What the tasks leave alone.
other == <<db, writer>>

Move(t, next) == task' = [task EXCEPT ![t] = next]
Goto(t, step) == Move(t, [task[t] EXCEPT !.step = step])
Read(t, step, v) == Move(t, [task[t] EXCEPT !.step = step, !.ver = v])

\* GetOutboxWatermark
Poll(p) ==
    /\ task[p].step = "idle"
    /\ Move(p, [Idle EXCEPT !.step = "list", !.from = wm])
    /\ UNCHANGED <<other, outbox, wm, lock, cache, order, faults, ghosts>>

Visible(id) == {i \in Ids : i > id /\ row[i].state = "live"}
FirstOf(S) == {i \in S : Cardinality({j \in S : j < i}) < Limit}
MaxOf(S) == CHOOSE i \in S : \A j \in S : j <= i

\* ListAfterAndReleaseDedup: one statement, which also clears the keys.
List(p) ==
    LET rows == FirstOf(Visible(task[p].from))
    IN  /\ task[p].step = "list"
        /\ row' = [i \in Ids |-> IF i \in rows THEN [row[i] EXCEPT !.key = FALSE] ELSE row[i]]
        /\ slow' = slow \cup {i \in Ids : row[i].state = "open" /\ \E j \in rows : i < j}
        /\ Move(p, IF rows = {} THEN Idle
                   ELSE [Idle EXCEPT !.step = "event", !.batch = rows])
        /\ UNCHANGED <<other, seq, wm, lock, cache, order, faults,
                       handled, broken>>

Todo(p) == {i \in task[p].batch : i > task[p].at}

\* handleOutboxEvent of the next row: GetByID of the account, or MGET of its
\* entry in UpdateLastUsed.
Event(p) ==
    /\ task[p].step = "event"
    /\ \E e \in Todo(p) :
          /\ \A i \in Todo(p) : e <= i
          /\ Move(p, [task[p] EXCEPT
                         !.at = e,
                         !.step = IF row[e].kind = "used" THEN "touch" ELSE "put",
                         !.ver = IF row[e].kind = "used" THEN data ELSE db])
    /\ UNCHANGED <<other, outbox, wm, lock, cache, order, faults, ghosts>>

\* A task goes on after an event or a rebuild: a poller with its batch.
GoOn(t) ==
    IF task[t].batch = {}
    THEN Move(t, Idle) /\ UNCHANGED handled
    ELSE /\ Read(t, "event", None)
         /\ handled' = handled \cup {task[t].at}

\* UpdateLastUsed writes what it read, with another last_used_at.
TouchEntry(p) ==
    /\ task[p].step = "touch"
    /\ data' = IF task[p].ver = None THEN data ELSE task[p].ver
    /\ GoOn(p)
    /\ UNCHANGED <<other, outbox, wm, lock, snap, order, faults, slow, broken>>

\* SetAccount or DeleteAccount; the bucket is rebuilt once per batch.
PutEntry(p) ==
    /\ task[p].step = "put"
    /\ data' = IF StateOf[task[p].ver] = "gone" THEN None ELSE task[p].ver
    /\ \/ task[p].seen /\ GoOn(p)
       \/ /\ ~task[p].seen
          /\ Move(p, [task[p] EXCEPT !.step = "lock", !.ver = None, !.seen = TRUE])
          /\ UNCHANGED handled
    /\ UNCHANGED <<other, outbox, wm, lock, snap, order, faults, slow, broken>>

\* checkOutboxLag may trigger a full rebuild.
CheckLag(p) == Move(p, Idle) \/ Move(p, [Idle EXCEPT !.step = "lock"])

\* Mutant: the watermark is the next row to be read.
MarkNext(p) ==
    /\ task[p].step = "event" /\ Todo(p) = {}
    /\ wm' = MaxOf(task[p].batch) + 1 /\ Goto(p, "clean")
    /\ UNCHANGED <<other, outbox, lock, cache, order, faults, ghosts>>

\* SetOutboxWatermark, tried three times.
Mark(p) ==
    /\ task[p].step = "event" /\ Todo(p) = {}
    /\ \/ wm' = MaxOf(task[p].batch) /\ Goto(p, "clean") /\ NoFault
       \/ Fault /\ CheckLag(p) /\ UNCHANGED wm
    /\ UNCHANGED <<other, outbox, lock, cache, order, ghosts>>

\* cleanupConsumedOutbox: of the rows up to the poller's watermark those older
\* than 10 seconds, unless another instance is at it.
Clean(p) ==
    /\ task[p].step = "clean"
    /\ \E old \in SUBSET {i \in Ids : i <= MaxOf(task[p].batch) /\ row[i].state = "live"} :
          row' = [i \in Ids |-> IF i \in old THEN [NoRow EXCEPT !.state = "deleted"]
                                ELSE row[i]]
    /\ CheckLag(p)
    /\ UNCHANGED <<other, seq, wm, lock, cache, order, faults, ghosts>>

-----------------------------------------------------------------------------
(* Writing a snapshot: rebuildBucket and SetSnapshot.                      *)

\* GetSnapshot: an empty snapshot and one with a missing entry do not count.
Hit == snap # None /\ StateOf[snap] = "on" /\ data # None

\* Mutant: a bucket whose snapshot can be read is not rebuilt.
StartIfMissing(t) ==
    /\ task[t].step = "idle" /\ ~Hit /\ Goto(t, "lock")
    /\ UNCHANGED <<other, outbox, wm, lock, cache, order, faults, ghosts>>

\* runInitialRebuild, triggerFullRebuild
StartRebuild(t) ==
    /\ task[t].step = "idle" /\ Goto(t, "lock")
    /\ UNCHANGED <<other, outbox, wm, lock, cache, order, faults, ghosts>>

\* ListSchedulableAccounts falls back to the database, without the lock.
StartFallback(t) ==
    /\ task[t].step = "idle" /\ ~Hit /\ Goto(t, "load")
    /\ broken' = TRUE
    /\ UNCHANGED <<other, outbox, wm, lock, cache, order, faults, handled, slow>>

\* Mutant: the unlock is deferred before the answer is looked at.
TryLockDeferred(t) ==
    /\ task[t].step = "lock"
    /\ lock' = TRUE
    /\ Goto(t, IF lock THEN "unlock" ELSE "load")
    /\ UNCHANGED <<other, outbox, wm, cache, order, faults, ghosts>>

\* TryLockBucket; whoever does not get the lock takes the bucket for rebuilt.
TryLock(t) ==
    /\ task[t].step = "lock"
    /\ lock' = TRUE
    /\ \/ lock /\ GoOn(t)
       \/ ~lock /\ Goto(t, "load") /\ UNCHANGED handled
    /\ UNCHANGED <<other, outbox, wm, cache, order, faults, slow, broken>>

\* loadAccountsFromDB
Load(t) ==
    /\ task[t].step = "load" /\ Read(t, "number", db)
    /\ UNCHANGED <<other, outbox, wm, lock, cache, order, faults, ghosts>>

Numbered == {t \in Tasks : task[t].step \in {"write", "activate"}}

\* INCR of the bucket's version.
Number(t) ==
    /\ task[t].step = "number" /\ Goto(t, "write")
    /\ ahead' = [ahead EXCEPT ![t] = Numbered]
    /\ UNCHANGED <<other, outbox, wm, lock, cache, late, faults, ghosts>>

\* writeAccounts: the entries are shared by all versions.
WriteEntries(t) ==
    /\ task[t].step = "write" /\ Goto(t, "activate")
    /\ data' = IF StateOf[task[t].ver] = "on" THEN task[t].ver ELSE data
    /\ UNCHANGED <<other, outbox, wm, lock, snap, order, faults, ghosts>>

\* The number is not in use any more.
Retire(t) == ahead' = [u \in Tasks |-> IF u = t THEN {} ELSE ahead[u] \ {t}]

\* activateSnapshotScript, unless a higher number is active.
Activate(t) ==
    /\ task[t].step = "activate"
    /\ Retire(t)
    /\ \/ t \in late /\ late' = late \ {t} /\ UNCHANGED snap
       \/ t \notin late /\ late' = late \cup ahead[t] /\ snap' = task[t].ver
    /\ IF t \in Readers THEN Move(t, Idle) ELSE Read(t, "unlock", None)
    /\ UNCHANGED <<other, outbox, wm, lock, data, faults, ghosts>>

\* UnlockBucket deletes the key, whoever set it.
Unlock(t) ==
    /\ task[t].step = "unlock"
    /\ lock' = FALSE
    /\ GoOn(t)
    /\ UNCHANGED <<other, outbox, wm, cache, order, faults, slow, broken>>

Holds(t) == /\ t \notin Readers
            /\ task[t].step \in {"load", "number", "write", "activate", "unlock"}

\* Mutant: a poll goes on after a failed event.
FailGoesOn(t) ==
    /\ task[t].step # "idle" /\ Fault
    /\ Move(t, IF task[t].batch = {} THEN Idle ELSE [task[t] EXCEPT !.step = "event", !.ver = None])
    /\ Retire(t) /\ late' = late \ {t}
    /\ lock' = IF Holds(t) THEN FALSE ELSE lock
    /\ UNCHANGED <<other, outbox, wm, cache, ghosts>>

\* A call fails or the process dies: the poll ends before its watermark.  The
\* deferred UnlockBucket may run or not.
Fail(t) ==
    /\ task[t].step # "idle" /\ Fault
    /\ Move(t, Idle)
    /\ Retire(t) /\ late' = late \ {t}
    /\ lock' \in IF Holds(t) THEN {lock, FALSE} ELSE {lock}
    /\ UNCHANGED <<other, outbox, wm, cache, ghosts>>

\* The lock's 30 seconds are over.
LockExpires ==
    /\ lock /\ lock' = FALSE
    /\ \/ (\E t \in Tasks : Holds(t)) /\ Fault /\ broken' = TRUE
       \/ (\A t \in Tasks : ~Holds(t)) /\ NoFault /\ UNCHANGED broken
    /\ UNCHANGED <<other, outbox, wm, cache, bg, handled, slow>>

-----------------------------------------------------------------------------

PollStep(p) == Poll(p) \/ List(p) \/ Event(p) \/ TouchEntry(p) \/ PutEntry(p)
               \/ Mark(p) \/ Clean(p)

SnapshotStep(t) == TryLock(t) \/ Load(t) \/ Number(t) \/ WriteEntries(t)
                   \/ Activate(t) \/ Unlock(t)

Next ==
    \/ \E w \in Writers : Change(w) \/ TxChange(w) \/ Touch(w) \/ WriterStep(w) \/ Rollback(w)
    \/ \E p \in Pollers : PollStep(p)
    \/ \E t \in Rebuilders : StartRebuild(t)
    \/ \E t \in Readers : StartFallback(t)
    \/ \E t \in Tasks : SnapshotStep(t) \/ Fail(t)
    \/ LockExpires

Spec == Init /\ [][Next]_vars

\* Every goroutine goes on, the tickers of the pollers and of the full rebuild
\* fire again and again, and a lock that nobody deletes expires.
FairSpec ==
    /\ Spec
    /\ \A w \in Writers : WF_vars(WriterStep(w))
    /\ \A p \in Pollers : WF_vars(PollStep(p))
    /\ \A t \in Rebuilders : WF_vars(StartRebuild(t))
    /\ \A t \in Tasks : WF_vars(SnapshotStep(t))
    /\ WF_vars(lock /\ (\A t \in Tasks : ~Holds(t)) /\ LockExpires)

-----------------------------------------------------------------------------
(* Properties.                                                             *)

TaskSteps == {"idle", "list", "event", "touch", "put", "clean", "lock",
              "load", "number", "write", "activate", "unlock"}

\* Every variable has its type.
TypeOK ==
    /\ db \in Versions /\ seq \in 0..MaxRows /\ wm \in 0..seq
    /\ row \in [Ids -> [state : {"none", "open", "live", "deleted"},
                        kind : {"changed", "used"}, key : BOOLEAN]]
    /\ lock \in BOOLEAN /\ snap \in Versions \cup {None} /\ data \in Versions \cup {None}
    /\ task \in [Tasks -> [step : TaskSteps, ver : Versions \cup {None}, from : 0..seq,
                            batch : SUBSET (1..seq), at : 0..seq, seen : BOOLEAN]]
    /\ ahead \in [Tasks -> SUBSET Tasks] /\ late \subseteq Tasks
    /\ wpc \in [Writers -> {"idle", "forget", "enqueue", "commit", "sync", "syncWrite"}]
    /\ how \in [Writers -> {"own", "tx", "touch"}]
    /\ note \in [Writers -> Versions \cup {None}] /\ by \in [Writers -> 0..seq]
    /\ faults \in 0..MaxFaults
    /\ handled \subseteq Ids /\ slow \subseteq Ids
    /\ broken \in BOOLEAN

\* However polls of several instances overlap, fail and move the watermark, no
\* row is passed over or deleted unhandled that was committed in time.
NoneSkipped ==
    \A i \in Ids : row[i].state = "deleted" \/ (row[i].state = "live" /\ i <= wm)
                   => i \in handled \cup slow

\* The list never goes back to older data as long as the lock is not lost and
\* no request writes a snapshot.
NoRollback == [][snap' >= snap \/ broken]_vars

\* What ListSchedulableAccounts finds in Redis is what the database says.
Fresh == Hit => snap = db /\ data = db

\* Whatever was lost, skipped or overtaken: once the changes end, the list is
\* that of the database for good.
EventuallyFresh == <>[]Fresh
=============================================================================
