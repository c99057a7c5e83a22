---------------------------- MODULE SchedulerProofs ----------------------------
(***************************************************************************)
(* That no event is passed over that was committed in time, and that a     *)
(* list is not replaced by an older one while the lock is kept, for any    *)
(* number of writers, pollers, rebuilds, rows and failures.                *)
(***************************************************************************)
EXTENDS SchedulerSnapshot, FiniteSetTheorems, TLAPS

RowStates == {"none", "open", "live", "deleted"}
RowType == [state : RowStates, kind : {"changed", "used"}, key : BOOLEAN]
TaskType(n) == [step : TaskSteps, ver : Versions \cup {None}, from : 0..n,
                batch : SUBSET (1..n), at : 0..n, seen : BOOLEAN]

\* The types, by who changes them.
OutboxTypes ==
    /\ seq \in 0..MaxRows /\ row \in [Ids -> RowType]
    /\ by \in [Writers -> 0..seq]
TaskTypes ==
    /\ wm \in 0..seq /\ task \in [Tasks -> TaskType(seq)]
    /\ handled \subseteq Ids /\ slow \subseteq Ids
VersionTypes ==
    /\ db \in Versions /\ note \in [Writers -> Versions \cup {None}]
    /\ snap \in Versions \cup {None} /\ data \in Versions \cup {None}
WriterTypes ==
    /\ wpc \in [Writers -> {"idle", "forget", "enqueue", "commit", "sync", "syncWrite"}]
    /\ how \in [Writers -> {"own", "tx", "touch"}]
OrderTypes == ahead \in [Tasks -> SUBSET Tasks] /\ late \subseteq Tasks
FlagTypes == lock \in BOOLEAN /\ broken \in BOOLEAN /\ faults \in 0..MaxFaults

LEMMA TypeParts ==
  TypeOK <=> /\ OutboxTypes /\ TaskTypes /\ VersionTypes
             /\ WriterTypes /\ OrderTypes /\ FlagTypes
  BY DEF TypeOK, OutboxTypes, TaskTypes, VersionTypes, WriterTypes, OrderTypes, FlagTypes,
     RowStates, RowType, TaskType

-----------------------------------------------------------------------------
(* The invariant.                                                          *)

\* The transaction that changes the account is alone and writes the next number.
Transactions ==
    /\ \A w \in Writers :
          how[w] = "tx" => /\ wpc[w] \in {"enqueue", "commit"}
                           /\ note[w] = db + 1 /\ db < MaxChanges
    /\ \A v, w \in Writers : how[v] = "tx" /\ how[w] = "tx" => v = w

Loaded(t) == task[t].step \in {"number", "write", "activate"}

\* Nothing was loaded that is newer than the database.
Loads ==
    /\ snap <= db
    /\ \A t \in Tasks : Loaded(t) => task[t].ver \in 0..db

\* As long as the lock is kept it is held by one task, whose load is not older
\* than the active snapshot.
Locked ==
    /\ \A t \in Readers : task[t].step = "idle"
    /\ \A t \in Tasks : Holds(t) => lock
    /\ \A t, u \in Tasks : Holds(t) /\ Holds(u) => t = u
    /\ \A t \in Tasks : Loaded(t) => snap <= task[t].ver

LockKept == ~broken => Locked

\* The rows up to n are handled, or were too late.
Covered(n) ==
    \A i \in Ids : i <= n => /\ row[i].state = "open" => i \in slow
                             /\ row[i].state = "live" => i \in handled \cup slow

\* Steps of a poller between the events of its batch, and at work on one.
Middle == {"touch", "put", "lock", "load", "number", "write", "activate", "unlock"}

\* What a poller may have missed is in its batch; it has handled the batch up
\* to `at`, which it may be working on.
Batch(t) ==
    LET x == task[t]
    IN  /\ x.step = "idle" => x = Idle
        /\ x.step = "list" => Covered(x.from)
        /\ x.batch # {} =>
              /\ x.step \in Middle \cup {"event", "clean"}
              /\ \A j \in x.batch, i \in Ids :
                    i <= j => /\ row[i].state = "open" => i \in slow
                              /\ row[i].state = "live" => i \in handled \cup slow \cup x.batch
              /\ \A i \in x.batch :
                    i <= x.at => i \in handled \/ (i = x.at /\ x.step \in Middle)
              /\ x.at \in x.batch \cup {0}
              /\ x.step # "event" => x.at \in x.batch
              /\ x.step = "clean" => \A i \in x.batch : i <= x.at
        /\ x.step \in {"event", "touch", "put", "clean"} => x.batch # {}

\* Rows beyond the sequence do not exist yet.
Unused == \A i \in Ids : i > seq => row[i].state = "none"

Polls ==
    /\ \A i \in Ids : row[i].state = "deleted" => i \in handled \cup slow
    /\ Unused
    /\ Covered(wm)
    /\ \A t \in Tasks : Batch(t)

SchedulerInv == TypeOK /\ Transactions /\ Loads /\ LockKept /\ Polls

LEMMA SchedulerInit == Init => SchedulerInv
  <1> SUFFICES ASSUME Init PROVE SchedulerInv
    OBVIOUS
  <1> USE SchedulerAssumption DEF Init
  <1>1. OutboxTypes /\ WriterTypes /\ OrderTypes
    BY DEF OutboxTypes, WriterTypes, OrderTypes, RowType, RowStates, NoRow
  <1>2. TaskTypes
    BY DEF TaskTypes, TaskType, Idle, TaskSteps
  <1>3. VersionTypes
    BY DEF VersionTypes, Versions, None
  <1>4. FlagTypes
    <2>1. lock \in BOOLEAN /\ broken \in BOOLEAN
      OBVIOUS
    <2>2. faults \in 0..MaxFaults
      OBVIOUS
    <2> QED
      BY <2>1, <2>2 DEF FlagTypes
  <1>5. Transactions /\ Loads
    BY DEF Transactions, Loads, Loaded, Idle, None
  <1>6. LockKept
    BY DEF LockKept, Locked, Loaded, Holds, Idle, Tasks
  <1>7. Polls
    <2>1. \A i \in Ids : row[i].state = "none" /\ i > 0
      BY DEF NoRow, Ids
    <2>2. \A t \in Tasks : Batch(t)
      BY DEF Batch, Idle
    <2> QED
      BY <2>1, <2>2 DEF Polls, Covered, Unused
  <1> QED
    BY <1>1, <1>2, <1>3, <1>4, <1>5, <1>6, <1>7, TypeParts DEF SchedulerInv

-----------------------------------------------------------------------------
(* Who changes what.                                                       *)

Writes(w) == Change(w) \/ TxChange(w) \/ Touch(w) \/ WriterStep(w) \/ Rollback(w)

\* The steps of a task.
Acts(t) ==
    \/ t \in Pollers /\ PollStep(t)
    \/ t \in Rebuilders /\ StartRebuild(t)
    \/ t \in Readers /\ StartFallback(t)
    \/ SnapshotStep(t) \/ Fail(t)

LEMMA NextCases ==
  ASSUME [Next]_vars
  PROVE  \/ \E w \in Writers : Writes(w)
         \/ \E t \in Tasks : Acts(t)
         \/ LockExpires
         \/ UNCHANGED vars
  BY DEF Next, Writes, Acts, Tasks

LEMMA WriterFrame ==
  ASSUME NEW w \in Writers, Writes(w)
  PROVE  UNCHANGED <<wm, lock, snap, task, ahead, late, handled, slow, broken>>
  BY DEF Writes, WriterStep, Change, TxChange, Touch, Enqueue, Commit, Rollback, SyncRead,
     SyncWrite, Forget, cache, bg, order, ghosts

LEMMA TaskFrame ==
  ASSUME NEW t \in Tasks, Acts(t)
  PROVE  UNCHANGED <<db, seq, wpc, how, note, by>>
  BY DEF Acts, PollStep, Poll, List, Event, TouchEntry, PutEntry, Mark, Clean, StartRebuild,
     StartFallback, SnapshotStep, TryLock, Load, Number, WriteEntries, Activate, Unlock, Fail,
     other, writer, outbox

LEMMA ExpiryFrame ==
  ASSUME LockExpires
  PROVE  UNCHANGED <<db, seq, row, wm, snap, data, task, ahead, late, wpc, how, note, by,
                     handled, slow>>
  BY DEF LockExpires, other, writer, outbox, cache, bg, order

-----------------------------------------------------------------------------
(* Writers: the types of what they change, and their transactions.         *)

\* A row that a writer touches goes from open to live or disappears, or is new.
RowStep ==
    /\ seq <= seq'
    /\ \A i \in Ids :
          \/ row'[i].state = row[i].state
          \/ row[i].state = "open" /\ row'[i].state \in {"live", "none"}
          \/ i > seq /\ i <= seq' /\ row'[i].state = "open"

LEMMA WriterOutbox ==
  ASSUME OutboxTypes, Unused, NEW w \in Writers, Writes(w)
  PROVE  OutboxTypes' /\ RowStep
  <1> USE SchedulerAssumption DEF OutboxTypes
  <1>0. seq \in Nat
    OBVIOUS
  <1>1. ASSUME UNCHANGED seq, UNCHANGED row, WReturn(w) \/ UNCHANGED by
        PROVE  OutboxTypes' /\ RowStep
    BY <1>0, <1>1 DEF WReturn, RowStep
  <1>2. CASE Change(w) \/ TxChange(w) \/ Touch(w) \/ SyncRead(w) \/ SyncWrite(w) \/ Forget(w)
    BY <1>1, <1>2 DEF Change, TxChange, Touch, SyncRead, SyncWrite, Forget, outbox
  <1>3. CASE Enqueue(w)
    <2>1. CASE UNCHANGED outbox /\ Announced(w)
      BY <1>1, <2>1 DEF Announced, outbox
    <2>2. CASE UNCHANGED outbox /\ \E i \in Keyed("live") : by' = [by EXCEPT ![w] = i]
      <3>1. PICK i \in Keyed("live") : by' = [by EXCEPT ![w] = i]
        BY <2>2
      <3>2. i \in 0..seq
        BY <1>0 DEF Keyed, Unused, Ids
      <3> QED
        BY <1>0, <2>2, <3>1, <3>2 DEF outbox, RowStep
    <2>3. CASE /\ seq < MaxRows /\ seq' = seq + 1
               /\ row' = [row EXCEPT ![seq + 1] =
                            [state |-> "open", key |-> how[w] # "touch",
                             kind |-> IF how[w] = "touch" THEN "used" ELSE "changed"]]
               /\ by' = [by EXCEPT ![w] = seq + 1]
      <3> DEFINE k == how[w] # "touch"
                 s == IF how[w] = "touch" THEN "used" ELSE "changed"
                 x == [state |-> "open", key |-> k, kind |-> s]
      <3>1. k \in BOOLEAN /\ s \in {"used", "changed"}
        OBVIOUS
      <3>2. row' = [row EXCEPT ![seq + 1] = x]
        BY <2>3
      <3> HIDE DEF k, s
      <3>3. x \in RowType /\ x.state = "open"
        BY <3>1 DEF RowType, RowStates
      <3> HIDE DEF x
      <3>4. seq + 1 \in Ids /\ seq' \in 0..MaxRows
        BY <1>0, <2>3 DEF Ids
      <3>5. row' \in [Ids -> RowType]
        BY <3>2, <3>3
      <3>6. by' \in [Writers -> 0..seq']
        BY <1>0, <2>3
      <3>7. \A i \in Ids : IF i = seq + 1 THEN row'[i].state = "open" ELSE row'[i] = row[i]
        BY <3>2, <3>3, <3>4
      <3> QED
        BY <1>0, <2>3, <3>4, <3>5, <3>6, <3>7 DEF RowStep
    <2> QED
      BY <1>3, <2>1, <2>2, <2>3 DEF Enqueue
  <1>4. ASSUME NEW x, NEW j \in 0..seq, UNCHANGED seq, row' = [row EXCEPT ![j] = x],
               j \in Ids => /\ x \in RowType
                            /\ \/ x.state = row[j].state
                               \/ row[j].state = "open" /\ x.state \in {"live", "none"},
               WReturn(w) \/ UNCHANGED by
        PROVE  OutboxTypes' /\ RowStep
    <2>1. row' \in [Ids -> RowType]
      BY <1>4
    <2>2. by' \in [Writers -> 0..seq']
      BY <1>0, <1>4 DEF WReturn
    <2> QED
      BY <1>0, <1>4, <2>1, <2>2 DEF RowStep
  <1>5. CASE Commit(w)
    <2> DEFINE j == by[w]
               x == [row[j] EXCEPT !.state = IF @ = "open" THEN "live" ELSE @]
    <2>1. row' = [row EXCEPT ![j] = x] /\ UNCHANGED seq
      BY <1>5 DEF Commit
    <2>2. j \in Ids => /\ x \in RowType
                       /\ \/ x.state = row[j].state
                          \/ row[j].state = "open" /\ x.state \in {"live", "none"}
      BY DEF RowType, RowStates
    <2>3. WReturn(w) \/ UNCHANGED by
      BY <1>5 DEF Commit, Announced
    <2> HIDE DEF x
    <2> QED
      BY <1>4, <2>1, <2>2, <2>3
  <1>6. CASE Rollback(w)
    <2> DEFINE j == by[w]
               x == IF row[j].state = "open" THEN NoRow ELSE row[j]
    <2>1. row' = [row EXCEPT ![j] = x] /\ UNCHANGED seq
      BY <1>6 DEF Rollback
    <2>2. j \in Ids => /\ x \in RowType
                       /\ \/ x.state = row[j].state
                          \/ row[j].state = "open" /\ x.state \in {"live", "none"}
      BY DEF RowType, RowStates, NoRow
    <2>3. WReturn(w)
      BY <1>6 DEF Rollback
    <2> HIDE DEF x
    <2> QED
      BY <1>4, <2>1, <2>2, <2>3
  <1> QED
    BY <1>2, <1>3, <1>5, <1>6 DEF Writes, WriterStep

\* The account's row is changed by one writer at a time, and numbered upwards.
LEMMA WriterVersions ==
  ASSUME VersionTypes, WriterTypes, Transactions, NEW w \in Writers, Writes(w)
  PROVE  VersionTypes' /\ WriterTypes' /\ Transactions' /\ db <= db'
  <1> USE SchedulerAssumption DEF VersionTypes, WriterTypes, Transactions, WGoto, Versions
  <1>0. db \in Nat /\ db \in 0..MaxChanges /\ None \notin Nat
    BY DEF None
  <1>1. UNCHANGED snap
    BY WriterFrame
  <1>2. ASSUME WReturn(w), UNCHANGED db, data' \in Versions \cup {None}
        PROVE  VersionTypes' /\ WriterTypes' /\ Transactions' /\ db <= db'
    BY <1>0, <1>1, <1>2 DEF WReturn
  <1>3. CASE Change(w)
    <2>1. \A v \in Writers : how[v] # "tx"
      BY <1>3 DEF Change, MayChange, AccountLocked
    <2>2. UNCHANGED <<how, data>> /\ db' = db + 1 /\ db < MaxChanges
          /\ note' = [note EXCEPT ![w] = db + 1]
      BY <1>3 DEF Change, MayChange, cache
    <2>3. \E s \in {"forget", "enqueue", "sync"} : wpc' = [wpc EXCEPT ![w] = s]
      BY <1>3 DEF Change
    <2> QED
      BY <1>0, <1>1, <2>1, <2>2, <2>3
  <1>4. CASE TxChange(w)
    <2>1. \A v \in Writers : how[v] # "tx"
      BY <1>4 DEF TxChange, MayChange, AccountLocked
    <2>2. UNCHANGED <<db, data>> /\ db < MaxChanges
          /\ note' = [note EXCEPT ![w] = db + 1] /\ how' = [how EXCEPT ![w] = "tx"]
          /\ wpc' = [wpc EXCEPT ![w] = "enqueue"]
      BY <1>4 DEF TxChange, MayChange, cache
    <2> QED
      BY <1>0, <1>1, <2>1, <2>2
  <1>5. CASE Touch(w)
    BY <1>0, <1>1, <1>5 DEF Touch, cache
  <1>6. ASSUME Announced(w), UNCHANGED <<db, data>>
        PROVE  VersionTypes' /\ WriterTypes' /\ Transactions' /\ db <= db'
    <2>1. CASE WReturn(w)
      BY <1>2, <1>6, <2>1
    <2>2. CASE how[w] = "own" /\ WGoto(w, "sync") /\ UNCHANGED <<how, note, by>>
      BY <1>0, <1>1, <1>6, <2>2
    <2> QED
      BY <1>6, <2>1, <2>2 DEF Announced
  <1>7. CASE Enqueue(w)
    <2>1. UNCHANGED <<db, data>>
      BY <1>7 DEF Enqueue, cache
    <2>2. CASE WGoto(w, "commit") /\ UNCHANGED <<how, note>>
      BY <1>0, <1>1, <2>1, <2>2
    <2> QED
      BY <1>6, <1>7, <2>1, <2>2 DEF Enqueue
  <1>8. CASE Commit(w)
    <2>1. CASE how[w] # "tx"
      BY <1>6, <1>8, <2>1 DEF Commit, cache
    <2>2. CASE how[w] = "tx"
      <3>1. WReturn(w) /\ db' = db + 1 /\ db < MaxChanges /\ UNCHANGED data
        BY <1>8, <2>2 DEF Commit, Announced, cache
      <3>2. \A v \in Writers : v # w => how[v] # "tx"
        BY <2>2
      <3> QED
        BY <1>0, <1>1, <3>1, <3>2 DEF WReturn
    <2> QED
      BY <2>1, <2>2
  <1>9. CASE Rollback(w)
    BY <1>2, <1>9 DEF Rollback, cache
  <1>10. CASE SyncRead(w)
    <2>1. CASE WReturn(w)
      BY <1>2, <1>10, <2>1 DEF SyncRead, cache
    <2>2. CASE wpc' = [wpc EXCEPT ![w] = "syncWrite"] /\ note' = [note EXCEPT ![w] = db]
               /\ UNCHANGED how
      BY <1>0, <1>1, <1>10, <2>2 DEF SyncRead, cache
    <2> QED
      BY <1>10, <2>1, <2>2 DEF SyncRead
  <1>11. CASE SyncWrite(w)
    <2>1. data' = note[w] \/ UNCHANGED data
      BY <1>11 DEF SyncWrite
    <2> QED
      BY <1>2, <1>11, <2>1 DEF SyncWrite
  <1>12. CASE Forget(w)
    <2>1. data' = None \/ UNCHANGED data
      BY <1>12 DEF Forget
    <2> QED
      BY <1>0, <1>1, <1>12, <2>1 DEF Forget
  <1> QED
    BY <1>3, <1>4, <1>5, <1>7, <1>8, <1>9, <1>10, <1>11, <1>12 DEF Writes, WriterStep

-----------------------------------------------------------------------------
(* Tasks: what they know next.                                             *)

LEMMA Records ==
  ASSUME NEW n \in Nat, NEW x \in TaskType(n), NEW s \in TaskSteps,
         NEW v \in Versions \cup {None}, NEW e \in 0..n, NEW S \in SUBSET (1..n)
  PROVE  /\ Idle \in TaskType(n)
         /\ [Idle EXCEPT !.step = s] \in TaskType(n)
         /\ [Idle EXCEPT !.step = s, !.from = e] \in TaskType(n)
         /\ [Idle EXCEPT !.step = s, !.batch = S] \in TaskType(n)
         /\ [x EXCEPT !.step = s] \in TaskType(n)
         /\ [x EXCEPT !.step = s, !.ver = v] \in TaskType(n)
         /\ [x EXCEPT !.step = s, !.ver = v, !.seen = TRUE] \in TaskType(n)
         /\ [x EXCEPT !.at = e, !.step = s, !.ver = v] \in TaskType(n)
  <1>1. None \in Versions \cup {None} /\ "idle" \in TaskSteps /\ 0 \in 0..n
    BY DEF TaskSteps
  <1>2. /\ Idle \in TaskType(n)
        /\ [Idle EXCEPT !.step = s] \in TaskType(n)
        /\ [Idle EXCEPT !.step = s, !.from = e] \in TaskType(n)
        /\ [Idle EXCEPT !.step = s, !.batch = S] \in TaskType(n)
    BY <1>1 DEF TaskType, Idle
  <1>3. [x EXCEPT !.step = s] \in TaskType(n)
    BY DEF TaskType
  <1>4. [x EXCEPT !.step = s, !.ver = v] \in TaskType(n)
    BY DEF TaskType
  <1>5. [x EXCEPT !.step = s, !.ver = v, !.seen = TRUE] \in TaskType(n)
    BY DEF TaskType
  <1>6. [x EXCEPT !.at = e, !.step = s, !.ver = v] \in TaskType(n)
    BY DEF TaskType
  <1> QED
    BY <1>2, <1>3, <1>4, <1>5, <1>6

\* What a step makes of its task.
Outcome(t, y) ==
    LET x == task[t]
    IN  \/ y = Idle /\ UNCHANGED <<handled, wm>>
        \/ /\ x.step \in {"event", "clean"} /\ UNCHANGED <<handled, wm>>
           /\ y = [Idle EXCEPT !.step = "lock"]
        \/ /\ x.step = "idle" /\ UNCHANGED <<handled, wm>>
           /\ y = [Idle EXCEPT !.step = "list", !.from = wm]
        \/ /\ x.step = "list" /\ List(t) /\ FirstOf(Visible(x.from)) # {}
           /\ y = [Idle EXCEPT !.step = "event", !.batch = FirstOf(Visible(x.from))]
        \/ /\ x.step = "event" /\ UNCHANGED <<handled, wm>>
           /\ \E e \in Todo(t), s \in {"touch", "put"}, v \in Versions \cup {None} :
                 /\ \A i \in Todo(t) : e <= i
                 /\ y = [x EXCEPT !.at = e, !.step = s, !.ver = v]
        \/ /\ x.step = "idle" /\ UNCHANGED <<handled, wm>>
           /\ \E s \in {"lock", "load"} : y = [x EXCEPT !.step = s]
        \/ /\ x.step \in Middle /\ UNCHANGED <<handled, wm>>
           /\ \E s \in Middle \ {"touch", "put"}, v \in Versions \cup {None} :
                 \/ y = [x EXCEPT !.step = s]
                 \/ y = [x EXCEPT !.step = s, !.ver = v]
                 \/ y = [x EXCEPT !.step = s, !.ver = v, !.seen = TRUE]
        \/ /\ x.step \in Middle /\ x.batch # {}
           /\ handled' = handled \cup {x.at} /\ UNCHANGED wm
           /\ y = [x EXCEPT !.step = "event", !.ver = None]
        \/ /\ x.step = "event" /\ Todo(t) = {} /\ wm' = MaxOf(x.batch)
           /\ UNCHANGED handled /\ y = [x EXCEPT !.step = "clean"]

LEMMA Outcomes ==
  ASSUME VersionTypes, NEW t \in Tasks, Acts(t)
  PROVE  \E y : Move(t, y) /\ Outcome(t, y)
  <1> USE DEF Outcome, Middle
  <1>a. ASSUME GoOn(t), UNCHANGED wm, task[t].step \in Middle
        PROVE  \E y : Move(t, y) /\ Outcome(t, y)
    BY <1>a DEF GoOn, Read
  <1>b. ASSUME CheckLag(t), UNCHANGED <<handled, wm>>, task[t].step \in {"event", "clean"}
        PROVE  \E y : Move(t, y) /\ Outcome(t, y)
    BY <1>b DEF CheckLag
  <1>c. db \in Versions \cup {None} /\ data \in Versions \cup {None}
    BY DEF VersionTypes
  <1>d. ASSUME NEW s \in Middle \ {"touch", "put"}, NEW v \in Versions \cup {None},
               task[t].step \in Middle, UNCHANGED <<handled, wm>>,
               \/ Move(t, [task[t] EXCEPT !.step = s])
               \/ Move(t, [task[t] EXCEPT !.step = s, !.ver = v])
               \/ Move(t, [task[t] EXCEPT !.step = s, !.ver = v, !.seen = TRUE])
        PROVE  \E y : Move(t, y) /\ Outcome(t, y)
    <2>1. CASE Move(t, [task[t] EXCEPT !.step = s])
      <3>1. Outcome(t, [task[t] EXCEPT !.step = s])
        BY <1>d
      <3> QED
        BY <2>1, <3>1
    <2>2. CASE Move(t, [task[t] EXCEPT !.step = s, !.ver = v])
      <3>1. Outcome(t, [task[t] EXCEPT !.step = s, !.ver = v])
        BY <1>d
      <3> QED
        BY <2>2, <3>1
    <2>3. CASE Move(t, [task[t] EXCEPT !.step = s, !.ver = v, !.seen = TRUE])
      <3>1. Outcome(t, [task[t] EXCEPT !.step = s, !.ver = v, !.seen = TRUE])
        BY <1>d
      <3> QED
        BY <2>3, <3>1
    <2> QED
      BY <1>d, <2>1, <2>2, <2>3
  <1>1. CASE Poll(t)
    BY <1>1 DEF Poll, ghosts
  <1>2. CASE List(t)
    <2>1. CASE FirstOf(Visible(task[t].from)) = {}
      BY <1>2, <2>1 DEF List
    <2>2. CASE FirstOf(Visible(task[t].from)) # {}
      BY <1>2, <2>2 DEF List
    <2> QED
      BY <2>1, <2>2
  <1>3. CASE Event(t)
    <2>1. PICK e \in Todo(t) :
             /\ \A i \in Todo(t) : e <= i
             /\ Move(t, [task[t] EXCEPT
                         !.at = e,
                         !.step = IF row[e].kind = "used" THEN "touch" ELSE "put",
                         !.ver = IF row[e].kind = "used" THEN data ELSE db])
      BY <1>3 DEF Event
    <2> DEFINE s == IF row[e].kind = "used" THEN "touch" ELSE "put"
               v == IF row[e].kind = "used" THEN data ELSE db
               y == [task[t] EXCEPT !.at = e, !.step = s, !.ver = v]
    <2>2. s \in {"touch", "put"} /\ v \in Versions \cup {None} /\ Move(t, y)
      BY <1>c, <2>1
    <2>3. task[t].step = "event" /\ UNCHANGED <<handled, wm>>
      BY <1>3 DEF Event, ghosts
    <2> HIDE DEF s, v
    <2>4. Outcome(t, y)
      BY <2>1, <2>2, <2>3
    <2> QED
      BY <2>2, <2>4
  <1>4. CASE TouchEntry(t)
    BY <1>4, <1>a DEF TouchEntry
  <1>5. CASE PutEntry(t)
    <2>1. CASE GoOn(t)
      BY <1>5, <1>a, <2>1 DEF PutEntry
    <2>2. CASE /\ Move(t, [task[t] EXCEPT !.step = "lock", !.ver = None, !.seen = TRUE])
               /\ UNCHANGED handled
      <3> HIDE DEF Outcome
      <3> QED
        BY <1>5, <1>c, <1>d, <2>2 DEF PutEntry
    <2> QED
      BY <1>5, <2>1, <2>2 DEF PutEntry
  <1>6. CASE Mark(t)
    <2>1. CASE wm' = MaxOf(task[t].batch) /\ Goto(t, "clean")
      BY <1>6, <2>1 DEF Mark, Goto, ghosts
    <2>2. CASE CheckLag(t) /\ UNCHANGED wm
      BY <1>6, <1>b, <2>2 DEF Mark, ghosts
    <2> QED
      BY <1>6, <2>1, <2>2 DEF Mark
  <1>7. CASE Clean(t)
    BY <1>7, <1>b DEF Clean, ghosts
  <1>8. CASE StartRebuild(t) \/ StartFallback(t)
    BY <1>8 DEF StartRebuild, StartFallback, Goto, ghosts
  <1>9. CASE TryLock(t)
    <2>1. CASE GoOn(t)
      BY <1>9, <1>a, <2>1 DEF TryLock
    <2>2. CASE Goto(t, "load") /\ UNCHANGED handled
      BY <1>9, <2>2 DEF TryLock, Goto
    <2> QED
      BY <1>9, <2>1, <2>2 DEF TryLock
  <1>10. CASE Load(t)
    <2> HIDE DEF Outcome
    <2> QED
      BY <1>10, <1>c, <1>d DEF Load, Read, ghosts
  <1>11. CASE Number(t) \/ WriteEntries(t)
    <2> HIDE DEF Outcome
    <2> QED
      BY <1>11, <1>c, <1>d DEF Number, WriteEntries, Goto, ghosts
  <1>12. CASE Activate(t)
    <2>1. CASE Move(t, Idle)
      BY <1>12, <2>1 DEF Activate, ghosts
    <2>2. CASE Read(t, "unlock", None)
      <3> HIDE DEF Outcome
      <3> QED
        BY <1>12, <1>c, <1>d, <2>2 DEF Activate, Read, ghosts
    <2> QED
      BY <1>12, <2>1, <2>2 DEF Activate
  <1>13. CASE Unlock(t)
    BY <1>13, <1>a DEF Unlock
  <1>14. CASE Fail(t)
    BY <1>14 DEF Fail, ghosts
  <1> QED
    BY <1>1, <1>2, <1>3, <1>4, <1>5, <1>6, <1>7, <1>8, <1>9, <1>10, <1>11, <1>12, <1>13, <1>14
    DEF Acts, PollStep, SnapshotStep

LEMMA MaxIs ==
  ASSUME NEW S \in SUBSET Int, NEW m \in S, \A j \in S : j <= m
  PROVE  MaxOf(S) = m
  <1>1. \A i \in S : (\A j \in S : j <= i) => i = m
    OBVIOUS
  <1> QED
    BY <1>1 DEF MaxOf

\* A batch that is done is done up to its last row.
LEMMA BatchDone ==
  ASSUME TaskTypes, seq \in Nat, NEW t \in Tasks, Batch(t),
         \/ task[t].step = "event" /\ Todo(t) = {}
         \/ task[t].step = "clean"
  PROVE  /\ task[t].at \in task[t].batch /\ MaxOf(task[t].batch) = task[t].at
         /\ \A i \in task[t].batch : i <= task[t].at
  <1>1. task[t].batch \in SUBSET (1..seq) /\ task[t].at \in 0..seq
    BY DEF TaskTypes, TaskType
  <1>2. \A i \in task[t].batch : i <= task[t].at
    BY <1>1 DEF Todo, Batch
  <1>3. task[t].at \in task[t].batch
    BY <1>1, <1>2 DEF Batch
  <1>4. task[t].batch \in SUBSET Int
    BY <1>1
  <1> QED
    BY <1>2, <1>3, <1>4, MaxIs

LEMMA TaskTypesStay ==
  ASSUME OutboxTypes, VersionTypes, TaskTypes, Unused, NEW t \in Tasks, Batch(t), Acts(t)
  PROVE  TaskTypes'
  <1>0. /\ seq \in Nat /\ seq <= MaxRows /\ task[t] \in TaskType(seq) /\ wm \in 0..seq
        /\ UNCHANGED seq /\ None \in Versions \cup {None} /\ {} \in SUBSET (1..seq)
    BY SchedulerAssumption, TaskFrame DEF OutboxTypes, TaskTypes
  <1>1. PICK y : Move(t, y) /\ Outcome(t, y)
    BY Outcomes
  <1>2. y \in TaskType(seq)
    <2> DEFINE x == task[t]
    <2> USE <1>0
    <2>1. ASSUME NEW S \in SUBSET (1..seq)
          PROVE  [Idle EXCEPT !.step = "event", !.batch = S] \in TaskType(seq)
      BY Records DEF TaskSteps
    <2>2. FirstOf(Visible(x.from)) \in SUBSET (1..seq)
      BY DEF FirstOf, Visible, Unused, Ids
    <2>3. x \in TaskType(seq) /\ 0 \in 0..seq
      OBVIOUS
    <2>4. Todo(t) \subseteq 0..seq
      BY DEF Todo, TaskType
    <2>5. Middle \subseteq TaskSteps /\ {"lock", "list", "event", "clean", "load"} \subseteq TaskSteps
      BY DEF Middle, TaskSteps
    <2>6. \/ y = Idle \/ y = [Idle EXCEPT !.step = "lock"]
          \/ y = [Idle EXCEPT !.step = "list", !.from = wm]
          \/ y = [Idle EXCEPT !.step = "event", !.batch = FirstOf(Visible(x.from))]
          \/ \E e \in Todo(t), s \in {"touch", "put"}, v \in Versions \cup {None} :
                y = [x EXCEPT !.at = e, !.step = s, !.ver = v]
          \/ \E s \in Middle \cup {"event", "clean"}, v \in Versions \cup {None} :
                \/ y = [x EXCEPT !.step = s]
                \/ y = [x EXCEPT !.step = s, !.ver = v]
                \/ y = [x EXCEPT !.step = s, !.ver = v, !.seen = TRUE]
      BY <1>1 DEF Outcome, Middle
    <2> HIDE DEF x
    <2>7. CASE \/ y = Idle \/ y = [Idle EXCEPT !.step = "lock"]
               \/ y = [Idle EXCEPT !.step = "list", !.from = wm]
      <3>1. "lock" \in TaskSteps /\ "list" \in TaskSteps
        BY <2>5
      <3>2. Idle \in TaskType(seq) /\ [Idle EXCEPT !.step = "lock"] \in TaskType(seq)
        BY <2>3, <3>1, Records
      <3>3. [Idle EXCEPT !.step = "list", !.from = wm] \in TaskType(seq)
        BY <2>3, <3>1, Records
      <3> QED
        BY <2>7, <3>2, <3>3
    <2>8. CASE y = [Idle EXCEPT !.step = "event", !.batch = FirstOf(Visible(x.from))]
      BY <2>1, <2>2, <2>8
    <2>9. CASE \E e \in Todo(t), s \in {"touch", "put"}, v \in Versions \cup {None} :
                 y = [x EXCEPT !.at = e, !.step = s, !.ver = v]
      <3>1. PICK e \in Todo(t), s \in {"touch", "put"}, v \in Versions \cup {None} :
               y = [x EXCEPT !.at = e, !.step = s, !.ver = v]
        BY <2>9
      <3>2. e \in 0..seq /\ s \in TaskSteps
        BY <2>4 DEF TaskSteps
      <3> QED
        BY <2>3, <3>1, <3>2, Records
    <2>10. CASE \E s \in Middle \cup {"event", "clean"}, v \in Versions \cup {None} :
                 \/ y = [x EXCEPT !.step = s]
                 \/ y = [x EXCEPT !.step = s, !.ver = v]
                 \/ y = [x EXCEPT !.step = s, !.ver = v, !.seen = TRUE]
      <3>1. PICK s \in Middle \cup {"event", "clean"}, v \in Versions \cup {None} :
                 \/ y = [x EXCEPT !.step = s]
                 \/ y = [x EXCEPT !.step = s, !.ver = v]
                 \/ y = [x EXCEPT !.step = s, !.ver = v, !.seen = TRUE]
        BY <2>10
      <3>2. s \in TaskSteps
        BY <2>5
      <3>3. /\ [x EXCEPT !.step = s] \in TaskType(seq)
            /\ [x EXCEPT !.step = s, !.ver = v] \in TaskType(seq)
            /\ [x EXCEPT !.step = s, !.ver = v, !.seen = TRUE] \in TaskType(seq)
        BY <2>3, <3>2, Records
      <3> QED
        BY <3>1, <3>3
    <2> QED
      BY <2>6, <2>7, <2>8, <2>9, <2>10
  <1>3. task' \in [Tasks -> TaskType(seq)]
    BY <1>1, <1>2 DEF Move, TaskTypes
  <1>4. wm' \in 0..seq
    <2>1. UNCHANGED wm \/ (task[t].step = "event" /\ Todo(t) = {} /\ wm' = MaxOf(task[t].batch))
      BY <1>1 DEF Outcome, List
    <2>2. task[t].at \in 0..seq
      BY <1>0 DEF TaskType
    <2> QED
      BY <1>0, <2>1, <2>2, BatchDone
  <1>5. handled' \subseteq Ids
    <2>1. UNCHANGED handled \/
          (handled' = handled \cup {task[t].at} /\ task[t].batch # {} /\ task[t].step \in Middle)
      BY <1>1 DEF Outcome, List
    <2>2. task[t].batch # {} /\ task[t].step \in Middle => task[t].at \in Ids
      <3>1. task[t].batch \subseteq Ids
        BY <1>0, SchedulerAssumption DEF TaskType, Ids
      <3> QED
        BY <3>1 DEF Batch, Middle
    <2> QED
      BY <2>1, <2>2 DEF TaskTypes
  <1>6. slow' \subseteq Ids
    BY DEF TaskTypes, Acts, PollStep, Poll, List, Event, TouchEntry, PutEntry, Mark, Clean,
       StartRebuild, StartFallback, SnapshotStep, TryLock, Load, Number, WriteEntries,
       Activate, Unlock, Fail, ghosts
  <1> QED
    BY <1>0, <1>3, <1>4, <1>5, <1>6 DEF TaskTypes

-----------------------------------------------------------------------------
(* The outbox.                                                             *)

\* Rows only go on, and what is handled or late stays so.
RowsKeep ==
    /\ handled \subseteq handled' /\ slow \subseteq slow'
    /\ \A i \in Ids : \/ row'[i].state = row[i].state
                      \/ row[i].state = "open" /\ row'[i].state \in {"live", "none"}
                      \/ row'[i].state = "deleted"
                      \/ i > seq

LEMMA RowKept ==
  ASSUME RowsKeep, seq \in Nat, NEW B, NEW i \in Ids, i <= seq,
         row[i].state = "open" => i \in slow,
         row[i].state = "live" => i \in handled \cup slow \cup B
  PROVE  /\ row'[i].state = "open" => i \in slow'
         /\ row'[i].state = "live" => i \in handled' \cup slow' \cup B
  <1>1. i \in Int
    BY DEF Ids
  <1>2. ~(i > seq)
    BY <1>1
  <1> QED
    BY <1>2 DEF RowsKeep

LEMMA CoveredKept ==
  ASSUME RowsKeep, seq \in Nat, wm \in 0..seq, UNCHANGED wm, Covered(wm)
  PROVE  Covered(wm)'
  <1>1. ASSUME NEW i \in Ids, i <= wm
        PROVE  /\ row'[i].state = "open" => i \in slow'
               /\ row'[i].state = "live" => i \in handled' \cup slow' \cup {}
    <2>1. i <= seq
      BY <1>1 DEF Ids
    <2>2. /\ row[i].state = "open" => i \in slow
          /\ row[i].state = "live" => i \in handled \cup slow \cup {}
      BY <1>1 DEF Covered
    <2> QED
      BY <2>1, <2>2, RowKept
  <1> QED
    BY <1>1 DEF Covered

\* A poller that does not move keeps what it knows.
LEMMA BatchKept ==
  ASSUME RowsKeep, seq \in Nat, TaskTypes, NEW u \in Tasks, Batch(u), task'[u] = task[u]
  PROVE  Batch(u)'
  <1> DEFINE x == task[u]
  <1>0. x.batch \subseteq 1..seq /\ x.from \in 0..seq
    BY DEF TaskTypes, TaskType
  <1>1. ASSUME x.step = "list", NEW i \in Ids, i <= x.from
        PROVE  /\ row'[i].state = "open" => i \in slow'
               /\ row'[i].state = "live" => i \in handled' \cup slow' \cup {}
    <2>1. i <= seq
      BY <1>0, <1>1 DEF Ids
    <2>2. /\ row[i].state = "open" => i \in slow
          /\ row[i].state = "live" => i \in handled \cup slow \cup {}
      BY <1>1 DEF Batch, Covered
    <2> QED
      BY <2>1, <2>2, RowKept
  <1>2. ASSUME NEW j \in x.batch, NEW i \in Ids, i <= j
        PROVE  /\ row'[i].state = "open" => i \in slow'
               /\ row'[i].state = "live" => i \in handled' \cup slow' \cup x.batch
    <2>1. i <= seq
      BY <1>0, <1>2 DEF Ids
    <2>2. /\ row[i].state = "open" => i \in slow
          /\ row[i].state = "live" => i \in handled \cup slow \cup x.batch
      BY <1>2 DEF Batch
    <2> HIDE DEF x
    <2> QED
      BY <2>1, <2>2, RowKept
  <1>3. handled \subseteq handled'
    BY DEF RowsKeep
  <1> QED
    BY <1>1, <1>2, <1>3 DEF Batch, Covered

\* What a task does to the rows: List clears keys and Clean deletes.
LEMMA TaskRows ==
  ASSUME OutboxTypes, TaskTypes, NEW t \in Tasks, Batch(t), Acts(t)
  PROVE  /\ OutboxTypes' /\ RowsKeep
         /\ \A i \in Ids : \/ row'[i].state = row[i].state
                           \/ /\ row[i].state = "live" /\ row'[i].state = "deleted"
                              /\ i \in handled \cup slow
  <1>0. UNCHANGED <<seq, by>> /\ row \in [Ids -> RowType] /\ seq \in Nat
    BY SchedulerAssumption, TaskFrame DEF OutboxTypes
  <1>1. handled \subseteq handled' /\ slow \subseteq slow'
    BY DEF Acts, PollStep, Poll, List, Event, TouchEntry, PutEntry, Mark, Clean,
       StartRebuild, StartFallback, SnapshotStep, TryLock, Load, Number, WriteEntries,
       Activate, Unlock, Fail, GoOn, ghosts
  <1>2. CASE UNCHANGED row
    BY <1>0, <1>1, <1>2 DEF OutboxTypes, RowsKeep
  <1>3. CASE List(t)
    <2> DEFINE rows == FirstOf(Visible(task[t].from))
    <2>1. row' = [i \in Ids |-> IF i \in rows THEN [row[i] EXCEPT !.key = FALSE] ELSE row[i]]
      BY <1>3 DEF List
    <2> HIDE DEF rows
    <2>2. ASSUME NEW i \in Ids
          PROVE  row'[i] \in RowType /\ row'[i].state = row[i].state
      <3>1. row[i] \in RowType
        BY <1>0
      <3>2. [row[i] EXCEPT !.key = FALSE] \in RowType /\ [row[i] EXCEPT !.key = FALSE].state = row[i].state
        BY <3>1 DEF RowType
      <3> QED
        BY <2>1, <3>1, <3>2
    <2>3. row' \in [Ids -> RowType]
      BY <2>1, <2>2
    <2> QED
      BY <1>0, <1>1, <2>2, <2>3 DEF OutboxTypes, RowsKeep
  <1>4. CASE Clean(t)
    <2>1. PICK old \in SUBSET {i \in Ids : i <= MaxOf(task[t].batch) /\ row[i].state = "live"} :
             row' = [i \in Ids |-> IF i \in old THEN [NoRow EXCEPT !.state = "deleted"] ELSE row[i]]
      BY <1>4 DEF Clean
    <2>2. [NoRow EXCEPT !.state = "deleted"] \in RowType /\ [NoRow EXCEPT !.state = "deleted"].state = "deleted"
      BY DEF NoRow, RowType, RowStates
    <2>3. row' \in [Ids -> RowType]
      BY <1>0, <2>1, <2>2
    <2>4. \A i \in Ids : IF i \in old THEN row'[i].state = "deleted" ELSE row'[i] = row[i]
      BY <2>1, <2>2
    <2>5. task[t].step = "clean"
      BY <1>4 DEF Clean
    <2>6. /\ task[t].at \in task[t].batch /\ MaxOf(task[t].batch) = task[t].at
          /\ \A i \in task[t].batch : i <= task[t].at
      BY <1>0, <2>5, BatchDone
    <2>7. \A i \in old : row[i].state = "live" /\ i \in handled \cup slow
      BY <2>1, <2>5, <2>6 DEF Batch, Middle
    <2> QED
      BY <1>0, <1>1, <2>3, <2>4, <2>7 DEF OutboxTypes, RowsKeep
  <1> QED
    BY <1>2, <1>3, <1>4 DEF Acts, PollStep, Poll, Event, TouchEntry, PutEntry, Mark,
       StartRebuild, StartFallback, SnapshotStep, TryLock, Load, Number, WriteEntries,
       Activate, Unlock, Fail, outbox

\* Writers add rows beyond those that the pollers have seen.
LEMMA WriterPolls ==
  ASSUME OutboxTypes, TaskTypes, Polls, NEW w \in Writers, Writes(w)
  PROVE  TaskTypes' /\ Polls'
  <1>0. /\ seq \in Nat /\ seq' \in Nat /\ wm \in 0..seq /\ RowStep /\ OutboxTypes' /\ Unused
        /\ UNCHANGED <<wm, task, handled, slow>>
    BY SchedulerAssumption, WriterOutbox, WriterFrame DEF OutboxTypes, TaskTypes, Polls
  <1>1. RowsKeep
    BY <1>0 DEF RowStep, RowsKeep
  <1>2. TaskTypes'
    <2>1. 0..seq \subseteq 0..seq' /\ 1..seq \subseteq 1..seq'
      BY <1>0 DEF RowStep
    <2>2. TaskType(seq) \subseteq TaskType(seq')
      BY <2>1 DEF TaskType
    <2>3. task' \in [Tasks -> TaskType(seq')]
      BY <1>0, <2>2 DEF TaskTypes
    <2> QED
      BY <1>0, <2>1, <2>3 DEF TaskTypes
  <1>3. \A i \in Ids : row'[i].state = "deleted" => i \in handled' \cup slow'
    BY <1>0 DEF RowStep, Polls
  <1>4. Unused'
    <2> SUFFICES ASSUME NEW i \in Ids, i > seq' PROVE row'[i].state = "none"
      BY DEF Unused
    <2>1. i \in Int /\ i > seq /\ ~(i <= seq')
      BY <1>0 DEF RowStep, Ids
    <2>2. row[i].state = "none"
      BY <1>0, <2>1 DEF Unused
    <2> QED
      BY <1>0, <2>1, <2>2 DEF RowStep
  <1>5. Covered(wm)'
    BY <1>0, <1>1, CoveredKept DEF Polls
  <1>6. \A t \in Tasks : Batch(t)'
    BY <1>0, <1>1, BatchKept DEF Polls
  <1> QED
    BY <1>2, <1>3, <1>4, <1>5, <1>6 DEF Polls

\* A poll takes the rows after its watermark from the first one on.
LEMMA FirstRows ==
  ASSUME NEW n, NEW j \in FirstOf(Visible(n)), NEW i \in Visible(n), i <= j
  PROVE  i \in FirstOf(Visible(n))
  <1> DEFINE V == Visible(n)
             A == {k \in V : k < i}
             C == {k \in V : k < j}
  <1>1. V \subseteq Ids /\ Ids \subseteq Int /\ j \in V
    BY DEF Visible, Ids, FirstOf
  <1>2. IsFiniteSet(C)
    <2>1. IsFiniteSet(Ids)
      BY SchedulerAssumption, FS_Interval DEF Ids
    <2>2. C \subseteq Ids
      BY <1>1
    <2> QED
      BY <2>1, <2>2, FS_Subset
  <1>3. A \subseteq C
    <2>1. \A k \in Int : i \in Int /\ j \in Int /\ k < i /\ i <= j => k < j
      OBVIOUS
    <2>2. i \in Int /\ j \in Int /\ V \subseteq Int /\ i <= j
      BY <1>1
    <2> HIDE DEF V
    <2> QED
      BY <2>1, <2>2
  <1>4. Cardinality(A) \in Nat /\ Cardinality(C) \in Nat /\ Cardinality(A) <= Cardinality(C)
    BY <1>2, <1>3, FS_Subset, FS_CardinalityType
  <1>5. Cardinality(C) < Limit
    BY DEF FirstOf
  <1>6. Cardinality(A) < Limit
    BY <1>4, <1>5, SchedulerAssumption
  <1>7. V = Visible(n) /\ A = {k \in V : k < i}
    OBVIOUS
  <1> HIDE DEF V, A, C
  <1> QED
    BY <1>6, <1>7 DEF FirstOf

\* What a batch leaves out stays handled or late.
LEMMA BatchRows ==
  ASSUME RowsKeep, seq \in Nat, TaskTypes, NEW t \in Tasks, Batch(t),
         NEW j \in task[t].batch, NEW i \in Ids, i <= j
  PROVE  /\ row'[i].state = "open" => i \in slow'
         /\ row'[i].state = "live" => i \in handled' \cup slow' \cup task[t].batch
  <1>1. task[t].batch \subseteq 1..seq
    BY DEF TaskTypes, TaskType
  <1>2. i <= seq
    BY <1>1 DEF Ids
  <1>3. /\ row[i].state = "open" => i \in slow
        /\ row[i].state = "live" => i \in handled \cup slow \cup task[t].batch
    BY DEF Batch
  <1> QED
    BY <1>2, <1>3, RowKept

\* A task between two events of its batch.
LEMMA BatchNext ==
  ASSUME NEW t \in Tasks, task'[t].step \in Middle \cup {"event", "clean"},
         \A j \in task'[t].batch, i \in Ids :
            i <= j => /\ row'[i].state = "open" => i \in slow'
                      /\ row'[i].state = "live" => i \in handled' \cup slow' \cup task'[t].batch,
         \A i \in task'[t].batch :
            i <= task'[t].at => \/ i \in handled'
                                \/ i = task'[t].at /\ task'[t].step \in Middle,
         task'[t].batch # {} => task'[t].at \in task'[t].batch \cup {0},
         task'[t].batch # {} /\ task'[t].step # "event" => task'[t].at \in task'[t].batch,
         task'[t].step = "clean" => \A i \in task'[t].batch : i <= task'[t].at,
         task'[t].step \in {"event", "touch", "put", "clean"} => task'[t].batch # {}
  PROVE  Batch(t)'
  BY DEF Batch, Middle

\* A step of a task keeps what the task knows.
LEMMA MoverBatch ==
  ASSUME OutboxTypes, VersionTypes, TaskTypes, Polls, NEW t \in Tasks, Acts(t)
  PROVE  Batch(t)'
  <1> DEFINE x == task[t]
  <1>0. /\ seq \in Nat /\ wm \in 0..seq /\ Batch(t) /\ RowsKeep /\ x \in TaskType(seq)
        /\ handled \subseteq handled' /\ slow \subseteq slow'
        /\ task \in [Tasks -> TaskType(seq)]
    BY SchedulerAssumption, TaskRows DEF OutboxTypes, TaskTypes, Polls, RowsKeep
  <1>1. PICK y : Move(t, y) /\ Outcome(t, y)
    BY Outcomes
  <1>2. task'[t] = y
    BY <1>0, <1>1 DEF Move
  <1>3. ASSUME y.batch = {}, y.step \in Middle \ {"touch", "put"} \/ y = Idle
        PROVE  Batch(t)'
    <2>1. /\ task'[t].batch = {} /\ task'[t].step \notin {"list", "event", "touch", "put", "clean"}
          /\ task'[t].step = "idle" => task'[t] = Idle
      BY <1>2, <1>3 DEF Middle, Idle
    <2> QED
      BY <2>1 DEF Batch
  <1>4. \A j \in x.batch, i \in Ids :
            i <= j => /\ row'[i].state = "open" => i \in slow'
                      /\ row'[i].state = "live" => i \in handled' \cup slow' \cup x.batch
    BY <1>0, BatchRows
  <1>5. \A i \in x.batch : i \in Int /\ i > 0
    BY <1>0 DEF TaskType
  <1>6. x.at \in Int
    BY <1>0 DEF TaskType
  <1>7. CASE y = Idle \/ y = [Idle EXCEPT !.step = "lock"]
    BY <1>3, <1>7 DEF Idle, Middle
  <1>8. CASE y = [Idle EXCEPT !.step = "list", !.from = wm] /\ UNCHANGED wm
    <2>1. y.step = "list" /\ y.from = wm /\ y.batch = {}
      BY <1>8 DEF Idle
    <2>2. Covered(wm)'
      BY <1>0, <1>8, CoveredKept DEF Polls
    <2> QED
      BY <1>2, <1>8, <2>1, <2>2 DEF Batch, Covered
  <1>9. CASE /\ x.step = "list" /\ List(t) /\ FirstOf(Visible(x.from)) # {}
             /\ y = [Idle EXCEPT !.step = "event", !.batch = FirstOf(Visible(x.from))]
    <2> DEFINE B == FirstOf(Visible(x.from))
    <2>1. y.step = "event" /\ y.batch = B /\ y.at = 0
      BY <1>9 DEF Idle
    <2>2. ASSUME NEW j \in B, NEW i \in Ids, i <= j
          PROVE  /\ row'[i].state = "open" => i \in slow'
                 /\ row'[i].state = "live" => i \in handled' \cup slow' \cup B
      <3>1. /\ j \in Ids /\ row[j].state = "live" /\ Ids \subseteq Int
            /\ x.from \in Int
        BY <1>0 DEF FirstOf, Visible, Ids, TaskType
      <3>2. row'[i].state = row[i].state
        <4>1. row' = [k \in Ids |-> IF k \in B THEN [row[k] EXCEPT !.key = FALSE] ELSE row[k]]
          BY <1>9 DEF List
        <4>2. row[i] \in RowType
          BY DEF OutboxTypes
        <4>3. [row[i] EXCEPT !.key = FALSE].state = row[i].state
          BY <4>2 DEF RowType
        <4> HIDE DEF B
        <4> QED
          BY <4>1, <4>3
      <3>3. row[i].state = "open" => i \in slow'
        <4>1. slow' = slow \cup {k \in Ids : row[k].state = "open" /\ \E l \in B : k < l}
          BY <1>9 DEF List
        <4>2. row[i].state = "open" => i < j
          BY <3>1, <2>2
        <4> HIDE DEF B
        <4> QED
          BY <4>1, <4>2
      <3>4. CASE i <= x.from
        <4>1. row[i].state = "live" => i \in handled \cup slow
          BY <1>0, <1>9, <3>4 DEF Batch, Covered
        <4> QED
          BY <1>0, <3>2, <3>3, <4>1
      <3>5. CASE i > x.from
        <4>1. row[i].state = "live" => i \in Visible(x.from)
          BY <3>5 DEF Visible
        <4>2. row[i].state = "live" => i \in B
          BY <2>2, <4>1, FirstRows
        <4> HIDE DEF B
        <4> QED
          BY <3>2, <3>3, <4>2
      <3> QED
        BY <3>1, <3>4, <3>5
    <2>3. \A i \in B : i \in Int /\ i > 0
      BY DEF FirstOf, Visible, Ids
    <2>4. B # {}
      BY <1>9
    <2> HIDE DEF B
    <2> QED
      BY <1>2, <2>1, <2>2, <2>3, <2>4, BatchNext
  <1>10. CASE /\ x.step = "event"
              /\ \E e \in Todo(t), s \in {"touch", "put"}, v \in Versions \cup {None} :
                   /\ \A i \in Todo(t) : e <= i
                   /\ y = [x EXCEPT !.at = e, !.step = s, !.ver = v]
    <2>1. PICK e \in Todo(t), s \in {"touch", "put"}, v \in Versions \cup {None} :
                   /\ \A i \in Todo(t) : e <= i
                   /\ y = [x EXCEPT !.at = e, !.step = s, !.ver = v]
      BY <1>10
    <2>2. y.at = e /\ y.step = s /\ y.batch = x.batch
      BY <1>0, <2>1 DEF TaskType
    <2>3. e \in x.batch
      BY DEF Todo
    <2>4. ASSUME NEW i \in x.batch, i <= e
          PROVE  i \in handled \/ i = e
      <3>1. CASE i \in Todo(t)
        BY <1>5, <2>1, <2>3, <2>4, <3>1
      <3>2. CASE i \notin Todo(t)
        BY <1>0, <1>5, <1>6, <1>10, <3>2 DEF Todo, Batch, Middle
      <3> QED
        BY <3>1, <3>2
    <2>5. s \in Middle
      BY DEF Middle
    <2> HIDE DEF x
    <2> QED
      BY <1>0, <1>2, <1>4, <2>2, <2>3, <2>4, <2>5, BatchNext
  <1>11. CASE x.step = "idle" /\ \E s \in {"lock", "load"} : y = [x EXCEPT !.step = s]
    <2>1. x = Idle
      BY <1>0, <1>11 DEF Batch
    <2> QED
      BY <1>3, <1>11, <2>1 DEF Idle, Middle
  <1>12. CASE /\ x.step \in Middle
              /\ \E s \in Middle \ {"touch", "put"}, v \in Versions \cup {None} :
                    \/ y = [x EXCEPT !.step = s]
                    \/ y = [x EXCEPT !.step = s, !.ver = v]
                    \/ y = [x EXCEPT !.step = s, !.ver = v, !.seen = TRUE]
    <2>1. y.at = x.at /\ y.batch = x.batch /\ y.step \in Middle \ {"touch", "put"}
      BY <1>0, <1>12 DEF TaskType
    <2>2. CASE x.batch = {}
      BY <1>3, <2>1, <2>2
    <2>3. CASE x.batch # {}
      <3>1. x.at \in x.batch /\ \A i \in x.batch : i <= x.at => i \in handled \/ i = x.at
        BY <1>0, <1>12, <2>3 DEF Batch, Middle
      <3>2. y.step \in Middle /\ y.step \notin {"event", "clean"}
        BY <2>1 DEF Middle
      <3> HIDE DEF x
      <3> QED
        BY <1>0, <1>2, <1>4, <2>1, <2>3, <3>1, <3>2, BatchNext
    <2> QED
      BY <2>2, <2>3
  <1>13. CASE /\ x.step \in Middle /\ x.batch # {} /\ handled' = handled \cup {x.at}
              /\ y = [x EXCEPT !.step = "event", !.ver = None]
    <2>1. y.at = x.at /\ y.batch = x.batch /\ y.step = "event"
      BY <1>0, <1>13 DEF TaskType
    <2>2. x.at \in x.batch /\ \A i \in x.batch : i <= x.at => i \in handled'
      BY <1>0, <1>13 DEF Batch, Middle
    <2> HIDE DEF x
    <2> QED
      BY <1>2, <1>4, <1>13, <2>1, <2>2, BatchNext
  <1>14. CASE x.step = "event" /\ Todo(t) = {} /\ y = [x EXCEPT !.step = "clean"]
    <2>1. y.at = x.at /\ y.batch = x.batch /\ y.step = "clean"
      BY <1>0, <1>14 DEF TaskType
    <2>2. x.at \in x.batch /\ \A i \in x.batch : i <= x.at
      BY <1>0, <1>14, BatchDone
    <2>3. \A i \in x.batch : i \in handled
      BY <1>0, <1>14, <2>2 DEF Batch, Middle
    <2> HIDE DEF x
    <2> QED
      BY <1>0, <1>2, <1>4, <2>1, <2>2, <2>3, BatchNext
  <1> QED
    BY <1>1, <1>7, <1>8, <1>9, <1>10, <1>11, <1>12, <1>13, <1>14 DEF Outcome

LEMMA TaskPolls ==
  ASSUME OutboxTypes, VersionTypes, TaskTypes, Polls, NEW t \in Tasks, Acts(t)
  PROVE  Polls'
  <1>0. /\ seq \in Nat /\ wm \in 0..seq /\ Batch(t) /\ RowsKeep /\ UNCHANGED seq
        /\ task \in [Tasks -> TaskType(seq)]
    BY SchedulerAssumption, TaskRows, TaskFrame DEF OutboxTypes, TaskTypes, Polls
  <1>1. \A i \in Ids : \/ row'[i].state = row[i].state
                       \/ /\ row[i].state = "live" /\ row'[i].state = "deleted"
                          /\ i \in handled \cup slow
    BY <1>0, TaskRows
  <1>2. PICK y : Move(t, y) /\ Outcome(t, y)
    BY Outcomes
  <1>3. \A i \in Ids : row'[i].state = "deleted" => i \in handled' \cup slow'
    BY <1>0, <1>1 DEF RowsKeep, Polls
  <1>4. Unused'
    BY <1>0, <1>1 DEF Unused, Polls
  <1>5. Covered(wm)'
    <2>1. CASE UNCHANGED wm
      BY <1>0, <2>1, CoveredKept DEF Polls
    <2>2. CASE task[t].step = "event" /\ Todo(t) = {} /\ wm' = MaxOf(task[t].batch)
      <3>1. /\ task[t].at \in task[t].batch /\ wm' = task[t].at
            /\ \A i \in task[t].batch : i <= task[t].at
        BY <1>0, <2>2, BatchDone
      <3>2. \A i \in task[t].batch : i \in handled'
        BY <1>0, <2>2, <3>1 DEF Batch, Middle, RowsKeep
      <3>3. \A i \in Ids : i <= task[t].at =>
               /\ row'[i].state = "open" => i \in slow'
               /\ row'[i].state = "live" => i \in handled' \cup slow' \cup task[t].batch
        BY <1>0, <3>1, BatchRows
      <3> QED
        BY <3>1, <3>2, <3>3 DEF Covered
    <2> QED
      BY <1>2, <2>1, <2>2 DEF Outcome, List
  <1>6. ASSUME NEW u \in Tasks
        PROVE  Batch(u)'
    <2>1. CASE u = t
      BY <2>1, MoverBatch
    <2>2. CASE u # t
      <3>1. task'[u] = task[u]
        BY <1>0, <1>2, <2>2 DEF Move
      <3> QED
        BY <1>0, <3>1, BatchKept DEF Polls
    <2> QED
      BY <2>1, <2>2
  <1> QED
    BY <1>3, <1>4, <1>5, <1>6 DEF Polls

-----------------------------------------------------------------------------
(* The other types.                                                        *)

LEMMA TaskVersions ==
  ASSUME VersionTypes, TaskTypes, NEW t \in Tasks, Acts(t)
  PROVE  VersionTypes'
  <1>0. UNCHANGED <<db, note>> /\ task[t].ver \in Versions \cup {None}
    BY TaskFrame DEF TaskTypes, TaskType
  <1>1. snap' \in Versions \cup {None}
    BY <1>0 DEF VersionTypes, Acts, PollStep, Poll, List, Event, TouchEntry, PutEntry, Mark,
       Clean, StartRebuild, StartFallback, SnapshotStep, TryLock, Load, Number, WriteEntries,
       Activate, Unlock, Fail, cache
  <1>2. data' \in Versions \cup {None}
    BY <1>0 DEF VersionTypes, Acts, PollStep, Poll, List, Event, TouchEntry, PutEntry, Mark,
       Clean, StartRebuild, StartFallback, SnapshotStep, TryLock, Load, Number, WriteEntries,
       Activate, Unlock, Fail, cache
  <1> QED
    BY <1>0, <1>1, <1>2 DEF VersionTypes

LEMMA TaskOrder ==
  ASSUME OrderTypes, NEW t \in Tasks, Acts(t)
  PROVE  OrderTypes'
  <1>1. CASE UNCHANGED <<ahead, late>>
    BY <1>1 DEF OrderTypes
  <1>2. CASE Number(t)
    BY <1>2 DEF OrderTypes, Number, Numbered
  <1>3. Retire(t) => ahead' \in [Tasks -> SUBSET Tasks]
    BY DEF OrderTypes, Retire
  <1>4. CASE Activate(t)
    <2>1. ahead[t] \subseteq Tasks
      BY DEF OrderTypes
    <2>2. late' \subseteq Tasks
      BY <1>4, <2>1 DEF OrderTypes, Activate
    <2> QED
      BY <1>3, <1>4, <2>2 DEF OrderTypes, Activate
  <1>5. CASE Fail(t)
    BY <1>3, <1>5 DEF OrderTypes, Fail
  <1> QED
    BY <1>1, <1>2, <1>4, <1>5 DEF Acts, PollStep, Poll, List, Event, TouchEntry, PutEntry, Mark,
       Clean, StartRebuild, StartFallback, SnapshotStep, TryLock, Load, WriteEntries,
       Unlock, order

LEMMA FlagsStay ==
  ASSUME FlagTypes, [Next]_vars
  PROVE  FlagTypes'
  <1>1. faults' \in 0..MaxFaults
    <2>0. MaxFaults \in Nat /\ faults \in 0..MaxFaults
      BY SchedulerAssumption DEF FlagTypes
    <2>1. UNCHANGED faults \/ Fault
      BY DEF Next, WriterStep, Change, TxChange, Touch, Enqueue, Commit, Rollback,
         SyncRead, SyncWrite, Forget, PollStep, Poll, List, Event, TouchEntry, PutEntry, Mark,
         Clean, StartRebuild, StartFallback, SnapshotStep, TryLock, Load, Number, WriteEntries,
         Activate, Unlock, Fail, LockExpires, NoFault, vars
    <2> QED
      BY <2>0, <2>1 DEF Fault
  <1>2. lock \in BOOLEAN /\ broken \in BOOLEAN
    BY DEF FlagTypes
  <1>3. lock' = lock \/ lock' = TRUE \/ lock' = FALSE
    BY NextCases, WriterFrame, Zenon
    DEF Acts, PollStep, Poll, List, Event, TouchEntry, PutEntry, Mark, Clean, StartRebuild,
       StartFallback, SnapshotStep, TryLock, Load, Number, WriteEntries, Activate, Unlock, Fail,
       LockExpires, vars
  <1>4. broken' = broken \/ broken' = TRUE
    BY NextCases, WriterFrame, Zenon
    DEF Acts, PollStep, Poll, List, Event, TouchEntry, PutEntry, Mark, Clean, StartRebuild,
       StartFallback, SnapshotStep, TryLock, Load, Number, WriteEntries, Activate, Unlock, Fail,
       LockExpires, vars, ghosts
  <1> QED
    BY <1>1, <1>2, <1>3, <1>4, Zenon DEF FlagTypes

-----------------------------------------------------------------------------
(* The lock and the snapshot.                                              *)

\* The step that a task goes to.
LEMMA NewStep ==
  ASSUME TaskTypes, NEW t \in Tasks, NEW s, NEW v
  PROVE  /\ Goto(t, s) => task'[t].step = s /\ task'[t].ver = task[t].ver
         /\ Read(t, s, v) => task'[t].step = s /\ task'[t].ver = v
         /\ GoOn(t) => task'[t].step \in {"idle", "event"}
         /\ CheckLag(t) => task'[t].step \in {"idle", "lock"}
         /\ Move(t, Idle) => task'[t].step = "idle"
  <1>0. task[t] \in TaskType(seq) /\ \A y : Move(t, y) => task'[t] = y
    BY DEF TaskTypes, Move
  <1>1. /\ Goto(t, s) => task'[t].step = s /\ task'[t].ver = task[t].ver
        /\ Read(t, s, v) => task'[t].step = s /\ task'[t].ver = v
    BY <1>0 DEF Goto, Read, TaskType
  <1>2. Read(t, "event", None) => task'[t].step = "event"
    BY <1>0 DEF Read, TaskType
  <1>3. /\ CheckLag(t) => task'[t].step \in {"idle", "lock"}
        /\ Move(t, Idle) => task'[t].step = "idle"
    BY <1>0 DEF CheckLag, Idle
  <1> QED
    BY <1>1, <1>2, <1>3 DEF GoOn

\* A task reads the account when it loads it, and a snapshot is what one has
\* loaded; the lock is taken when it is free and given back by a holder.
LEMMA TaskLoads ==
  ASSUME TaskTypes, NEW t \in Tasks, Acts(t)
  PROVE  /\ \/ ~Loaded(t)'
            \/ task[t].step = "load" /\ task'[t].ver = db /\ UNCHANGED <<lock, snap>>
            \/ Loaded(t) /\ task'[t].ver = task[t].ver /\ UNCHANGED <<lock, snap>>
         /\ snap' = snap \/ (Loaded(t) /\ snap' = task[t].ver /\ ~Loaded(t)')
         /\ t \notin Readers =>
               /\ Holds(t)' => (Holds(t) /\ lock' = lock) \/ (~lock /\ lock')
               /\ lock => lock' \/ Holds(t)
  <1> DEFINE Free(s) == s \in {"idle", "list", "event", "touch", "put", "clean", "lock"}
             Goal == /\ \/ ~Loaded(t)'
                        \/ task[t].step = "load" /\ task'[t].ver = db /\ UNCHANGED <<lock, snap>>
                        \/ Loaded(t) /\ task'[t].ver = task[t].ver /\ UNCHANGED <<lock, snap>>
                     /\ snap' = snap \/ (Loaded(t) /\ snap' = task[t].ver /\ ~Loaded(t)')
                     /\ t \notin Readers =>
                           /\ Holds(t)' => (Holds(t) /\ lock' = lock) \/ (~lock /\ lock')
                           /\ lock => lock' \/ Holds(t)
  <1>0. task[t] \in TaskType(seq) /\ \A y : Move(t, y) => task'[t] = y
    BY DEF TaskTypes, Move
  <1>a. ASSUME Free(task'[t].step), UNCHANGED snap, lock => lock' \/ Holds(t) \/ t \in Readers
        PROVE  Goal
    BY <1>a DEF Loaded, Holds
  <1>1. CASE Poll(t)
    <2>1. task'[t].step = "list"
      BY <1>0, <1>1 DEF Poll, Idle
    <2> QED
      BY <1>1, <1>a, <2>1 DEF Poll, cache
  <1>2. CASE List(t)
    <2>0. Move(t, Idle) \/ \E B : Move(t, [Idle EXCEPT !.step = "event", !.batch = B])
      BY <1>2 DEF List
    <2>1. Free(task'[t].step)
      <3>1. ASSUME NEW B PROVE [Idle EXCEPT !.step = "event", !.batch = B].step = "event"
        BY DEF Idle
      <3> QED
        BY <1>0, <2>0, <3>1, NewStep
    <2> QED
      BY <1>2, <1>a, <2>1 DEF List, cache
  <1>3. CASE Event(t)
    <2>1. \E e, s, v : /\ Move(t, [task[t] EXCEPT !.at = e, !.step = s, !.ver = v])
                       /\ s \in {"touch", "put"}
      BY <1>3 DEF Event
    <2>2. Free(task'[t].step)
      BY <1>0, <2>1 DEF TaskType
    <2> QED
      BY <1>3, <1>a, <2>2 DEF Event, cache
  <1>4. CASE TouchEntry(t) \/ PutEntry(t)
    <2>1. Move(t, [task[t] EXCEPT !.step = "lock", !.ver = None, !.seen = TRUE])
             => task'[t].step = "lock"
      BY <1>0 DEF TaskType
    <2>2. Free(task'[t].step)
      BY <1>4, <2>1, NewStep DEF TouchEntry, PutEntry
    <2> QED
      BY <1>4, <1>a, <2>2 DEF TouchEntry, PutEntry
  <1>5. CASE Mark(t) \/ Clean(t)
    <2>1. Free(task'[t].step)
      BY <1>5, NewStep DEF Mark, Clean
    <2> QED
      BY <1>5, <1>a, <2>1 DEF Mark, Clean, cache
  <1>6. CASE StartRebuild(t)
    <2>1. Free(task'[t].step)
      BY <1>6, NewStep DEF StartRebuild
    <2> QED
      BY <1>6, <1>a, <2>1 DEF StartRebuild, cache
  <1>7. CASE t \in Readers /\ StartFallback(t)
    <2>1. task'[t].step = "load"
      BY <1>7, NewStep DEF StartFallback
    <2> QED
      BY <1>7, <2>1 DEF StartFallback, cache, Loaded
  <1>8. CASE TryLock(t)
    <2>1. CASE lock /\ GoOn(t)
      <3>1. Free(task'[t].step)
        BY <2>1, NewStep
      <3> QED
        BY <1>8, <1>a, <3>1 DEF TryLock, cache
    <2>2. CASE ~lock /\ Goto(t, "load")
      <3>1. task'[t].step = "load" /\ lock'
        BY <1>8, <2>2, NewStep DEF TryLock
      <3> QED
        BY <1>8, <2>2, <3>1 DEF TryLock, cache, Loaded
    <2> QED
      BY <1>8, <2>1, <2>2 DEF TryLock
  <1>9. CASE Load(t)
    <2>1. task'[t].step = "number" /\ task'[t].ver = db
      BY <1>9, NewStep DEF Load
    <2> QED
      BY <1>9, <2>1 DEF Load, cache, Loaded, Holds
  <1>10. CASE Number(t) \/ WriteEntries(t)
    <2>1. Loaded(t)' /\ task'[t].ver = task[t].ver
      BY <1>10, NewStep DEF Number, WriteEntries, Loaded
    <2>2. Loaded(t) /\ UNCHANGED <<lock, snap>>
      BY <1>10 DEF Number, WriteEntries, Loaded, cache
    <2> QED
      BY <2>1, <2>2 DEF Loaded, Holds
  <1>11. CASE Activate(t)
    <2>1. task'[t].step = "idle" \/ task'[t].step = "unlock"
      BY <1>11, NewStep DEF Activate
    <2>2. UNCHANGED lock /\ task[t].step = "activate" /\ (snap' = snap \/ snap' = task[t].ver)
      BY <1>11 DEF Activate
    <2> QED
      BY <2>1, <2>2 DEF Loaded, Holds
  <1>12. CASE Unlock(t)
    <2>1. Free(task'[t].step)
      BY <1>12, NewStep DEF Unlock
    <2>2. t \notin Readers => Holds(t)
      BY <1>12 DEF Unlock, Holds
    <2> QED
      BY <1>12, <1>a, <2>1, <2>2 DEF Unlock, cache
  <1>13. CASE Fail(t)
    <2>1. Free(task'[t].step)
      BY <1>13, NewStep DEF Fail
    <2>2. Holds(t) \/ lock' = lock
      BY <1>13 DEF Fail
    <2> QED
      BY <1>13, <1>a, <2>1, <2>2 DEF Fail, cache
  <1> QED
    BY <1>1, <1>2, <1>3, <1>4, <1>5, <1>6, <1>7, <1>8, <1>9, <1>10, <1>11, <1>12, <1>13
    DEF Acts, PollStep, SnapshotStep

\* A step of a task keeps the loads behind the database, and while the lock is
\* kept the snapshot behind the loads.
LEMMA TaskLock ==
  ASSUME VersionTypes, TaskTypes, Loads, LockKept, NEW t \in Tasks, Acts(t)
  PROVE  Loads' /\ LockKept' /\ (~broken => snap' >= snap)
  <1>0. /\ db \in Nat /\ snap \in Int /\ UNCHANGED db
        /\ \A u \in Tasks : u # t => task'[u] = task[u]
    <2>1. \E y : Move(t, y)
      BY Outcomes
    <2> QED
      BY <2>1, SchedulerAssumption, TaskFrame DEF VersionTypes, Versions, None, TaskTypes, Move
  <1>1. /\ \/ ~Loaded(t)'
           \/ task[t].step = "load" /\ task'[t].ver = db /\ UNCHANGED <<lock, snap>>
           \/ Loaded(t) /\ task'[t].ver = task[t].ver /\ UNCHANGED <<lock, snap>>
        /\ snap' = snap \/ (Loaded(t) /\ snap' = task[t].ver /\ ~Loaded(t)')
        /\ t \notin Readers =>
              /\ Holds(t)' => (Holds(t) /\ lock' = lock) \/ (~lock /\ lock')
              /\ lock => lock' \/ Holds(t)
    BY TaskLoads
  <1>2. \A u \in Tasks : u # t => (Loaded(u)' <=> Loaded(u)) /\ (Holds(u)' <=> Holds(u))
    BY <1>0 DEF Loaded, Holds
  <1>3. Loads'
    <2>1. snap' <= db'
      BY <1>0, <1>1 DEF Loads
    <2>2. ASSUME NEW u \in Tasks, Loaded(u)'
          PROVE  task'[u].ver \in 0..db'
      <3>1. CASE u = t
        BY <1>0, <1>1, <2>2, <3>1 DEF Loads
      <3>2. CASE u # t
        BY <1>0, <1>2, <2>2, <3>2 DEF Loads
      <3> QED
        BY <3>1, <3>2
    <2> QED
      BY <2>1, <2>2 DEF Loads
  <1>4. ~broken => snap' >= snap
    BY <1>0, <1>1 DEF LockKept, Locked, Loads
  <1>5. ASSUME ~broken'
        PROVE  Locked'
    <2>0. ~broken
      BY <1>5 DEF Acts, PollStep, Poll, List, Event, TouchEntry, PutEntry, Mark, Clean,
         StartRebuild, StartFallback, SnapshotStep, TryLock, Load, Number, WriteEntries,
         Activate, Unlock, Fail, ghosts
    <2>1. Locked
      BY <2>0 DEF LockKept
    <2>2. t \notin Readers
      <3> SUFFICES ASSUME t \in Readers PROVE FALSE
        OBVIOUS
      <3>1. task[t].step = "idle" /\ t \notin Pollers /\ t \notin Rebuilders
        BY <2>1, SchedulerAssumption DEF Locked
      <3>2. StartFallback(t)
        BY <3>1 DEF Acts, SnapshotStep, TryLock, Load, Number, WriteEntries, Activate, Unlock,
           Fail
      <3> QED
        BY <1>5, <3>2 DEF StartFallback
    <2>3. \A u \in Readers : task'[u].step = "idle"
      BY <1>0, <2>1, <2>2 DEF Locked, Tasks
    <2>4. \A u \in Tasks : Loaded(u) => Holds(u)
      BY <2>1 DEF Locked, Loaded, Holds
    <2>5. \A u \in Tasks : Holds(u)' => lock'
      BY <1>1, <1>2, <2>1, <2>2 DEF Locked
    <2>6. \A u, v \in Tasks : Holds(u)' /\ Holds(v)' => u = v
      BY <1>1, <1>2, <2>1, <2>2 DEF Locked
    <2>7. ASSUME NEW u \in Tasks, Loaded(u)'
          PROVE  snap' <= task'[u].ver
      <3>1. CASE u = t
        BY <1>0, <1>1, <2>1, <2>7, <3>1 DEF Locked, Loads
      <3>2. CASE u # t
        <4>1. Loaded(u) /\ snap' = snap
          BY <1>1, <1>2, <2>1, <2>4, <2>7, <3>2 DEF Locked
        <4> QED
          BY <1>0, <2>1, <3>2, <4>1 DEF Locked
      <3> QED
        BY <3>1, <3>2
    <2> QED
      BY <2>3, <2>5, <2>6, <2>7 DEF Locked
  <1> QED
    BY <1>3, <1>4, <1>5 DEF LockKept

-----------------------------------------------------------------------------
(* The theorems.                                                           *)

LEMMA SchedulerStep ==
  ASSUME SchedulerInv, [Next]_vars
  PROVE  SchedulerInv' /\ (snap' >= snap \/ broken)
  <1>0. /\ OutboxTypes /\ TaskTypes /\ VersionTypes /\ WriterTypes /\ OrderTypes /\ FlagTypes
        /\ Transactions /\ Loads /\ LockKept /\ Polls
    BY TypeParts DEF SchedulerInv
  <1>1. FlagTypes' /\ snap \in Int /\ db \in Nat
    BY <1>0, FlagsStay, SchedulerAssumption DEF VersionTypes, Versions, None
  <1>2. /\ OutboxTypes' /\ TaskTypes' /\ VersionTypes' /\ WriterTypes' /\ OrderTypes'
        /\ Transactions' /\ Loads' /\ LockKept' /\ Polls' /\ (snap' >= snap \/ broken)
    <2>1. ASSUME NEW w \in Writers, Writes(w)
          PROVE  /\ OutboxTypes' /\ TaskTypes' /\ VersionTypes' /\ WriterTypes' /\ OrderTypes'
                 /\ Transactions' /\ Loads' /\ LockKept' /\ Polls' /\ (snap' >= snap \/ broken)
      <3>1. UNCHANGED <<lock, snap, task, ahead, late, broken>>
        BY <2>1, WriterFrame
      <3>2. OutboxTypes' /\ VersionTypes' /\ WriterTypes' /\ Transactions' /\ db <= db'
        BY <1>0, <2>1, WriterOutbox, WriterVersions DEF Polls
      <3>3. TaskTypes' /\ Polls'
        BY <1>0, <2>1, WriterPolls
      <3>4. OrderTypes' /\ snap' >= snap
        BY <1>0, <1>1, <3>1 DEF OrderTypes
      <3>5. Loads'
        <4>1. db' \in Nat
          BY <3>2, SchedulerAssumption DEF VersionTypes, Versions
        <4> QED
          BY <1>0, <1>1, <3>1, <3>2, <4>1 DEF Loads, Loaded
      <3>6. LockKept'
        BY <1>0, <3>1 DEF LockKept, Locked, Loaded, Holds
      <3> QED
        BY <3>2, <3>3, <3>4, <3>5, <3>6
    <2>2. ASSUME NEW t \in Tasks, Acts(t)
          PROVE  /\ OutboxTypes' /\ TaskTypes' /\ VersionTypes' /\ WriterTypes' /\ OrderTypes'
                 /\ Transactions' /\ Loads' /\ LockKept' /\ Polls' /\ (snap' >= snap \/ broken)
      <3>1. OutboxTypes' /\ TaskTypes'
        BY <1>0, <2>2, TaskRows, TaskTypesStay DEF Polls
      <3>2. VersionTypes' /\ OrderTypes' /\ Polls'
        BY <1>0, <2>2, TaskVersions, TaskOrder, TaskPolls
      <3>3. Loads' /\ LockKept' /\ (snap' >= snap \/ broken)
        BY <1>0, <2>2, TaskLock
      <3>4. WriterTypes' /\ Transactions'
        BY <1>0, <2>2, TaskFrame DEF WriterTypes, Transactions
      <3> QED
        BY <3>1, <3>2, <3>3, <3>4
    <2>3. ASSUME UNCHANGED <<db, seq, row, wm, snap, data, task, ahead, late, wpc, how, note, by,
                             handled, slow>>
          PROVE  /\ OutboxTypes' /\ TaskTypes' /\ VersionTypes' /\ WriterTypes' /\ OrderTypes'
                 /\ Transactions' /\ Loads' /\ Polls' /\ (snap' >= snap \/ broken)
      <3>1. OutboxTypes' /\ TaskTypes' /\ VersionTypes' /\ WriterTypes' /\ OrderTypes'
        BY <1>0, <2>3 DEF OutboxTypes, TaskTypes, VersionTypes, WriterTypes, OrderTypes
      <3>2. Transactions' /\ Loads'
        BY <1>0, <2>3 DEF Transactions, Loads, Loaded
      <3>3. Polls'
        BY <1>0, <2>3 DEF Polls, Unused, Covered, Batch
      <3> QED
        BY <1>1, <2>3, <3>1, <3>2, <3>3
    <2>4. CASE LockExpires
      <3>1. ASSUME ~broken' PROVE Locked'
        <4>1. (\A t \in Tasks : ~Holds(t)) /\ ~broken /\ UNCHANGED <<snap, task>>
          <5>1. (\A t \in Tasks : ~Holds(t)) /\ UNCHANGED broken
            BY <2>4, <3>1, Zenon DEF LockExpires
          <5>2. UNCHANGED <<snap, task>>
            BY <2>4, ExpiryFrame
          <5> QED
            BY <3>1, <5>1, <5>2
        <4>2. Locked
          BY <1>0, <4>1 DEF LockKept
        <4>3. \A t \in Tasks : ~Holds(t)' /\ (Loaded(t)' => snap' <= task'[t].ver)
          BY <4>1, <4>2 DEF Locked, Loaded, Holds
        <4>4. \A t \in Readers : task'[t].step = "idle"
          BY <4>1, <4>2 DEF Locked
        <4> QED
          BY <4>3, <4>4 DEF Locked
      <3> QED
        BY <2>3, <2>4, <3>1, ExpiryFrame DEF LockKept
    <2>5. CASE UNCHANGED vars
      <3>1. LockKept'
        <4>1. UNCHANGED <<lock, snap, task, broken>>
          BY <2>5 DEF vars, cache, bg, ghosts
        <4> QED
          BY <1>0, <4>1 DEF LockKept, Locked, Loaded, Holds
      <3> QED
        BY <2>3, <2>5, <3>1 DEF vars, outbox, cache, bg, order, writer, ghosts
    <2> QED
      BY <2>1, <2>2, <2>4, <2>5, NextCases
  <1>3. TypeOK'
    BY <1>1, <1>2, TypeParts DEF TypeOK, OutboxTypes, TaskTypes, VersionTypes, WriterTypes,
       OrderTypes, FlagTypes, RowStates, RowType, TaskType
  <1> QED
    BY <1>2, <1>3 DEF SchedulerInv

LEMMA SchedulerInvariant == Spec => []SchedulerInv
  <1>1. SchedulerInv /\ [Next]_vars => SchedulerInv'
    BY SchedulerStep
  <1> QED
    BY <1>1, SchedulerInit, PTL DEF Spec

\* TypeOK, for every behaviour of the changes, the outbox and the rebuilds.
THEOREM SchedulerTypeCorrect == Spec => []TypeOK
  <1>1. SchedulerInv => TypeOK
    BY DEF SchedulerInv
  <1> QED
    BY <1>1, SchedulerInvariant, PTL

\* However many pollOutbox loops overlap, fail and set the watermark, and
\* whatever cleanupConsumedOutbox deletes, an event that was committed in time
\* is handled before the watermark passes it.
THEOREM NothingSkipped == Spec => []NoneSkipped
  <1>1. SchedulerInv => NoneSkipped
    BY DEF SchedulerInv, Polls, Covered, NoneSkipped
  <1> QED
    BY <1>1, SchedulerInvariant, PTL

\* As long as the bucket's lock is not lost and no request writes a snapshot,
\* activateSnapshotScript never goes back to an older list.
THEOREM NeverOlder == Spec => NoRollback
  <1>1. SchedulerInv /\ [Next]_vars => [snap' >= snap \/ broken]_vars
    BY SchedulerStep
  <1> QED
    BY <1>1, SchedulerInvariant, PTL DEF Spec, NoRollback
=============================================================================
