----------------------------- MODULE WSConnPool -----------------------------
(***************************************************************************)
(* openai_ws_pool.go: the pool of upstream WebSocket connections of one    *)
(* account.  A request is one call of acquire and the lease it returns.    *)
(* What is done under ap.mu is one step; taking and returning the token of *)
(* a connection (leaseCh), closing it (closedCh) and dialing are not under *)
(* ap.mu and are steps of their own.                                       *)
(*                                                                         *)
(* Time is left out: which connections are too old, which was used least   *)
(* recently, when a health check is due and how many connections prewarm   *)
(* wants are free choices.                                                 *)
(***************************************************************************)
EXTENDS Integers, FiniteSets

CONSTANTS
    Requests,
    MaxConns,       \* effectiveMaxConnsByAccount
    MaxIdle,        \* maxIdlePerAccount
    QueueLimit,     \* queueLimitPerConn
    MaxDials,       \* bound on the connections ever made
    MaxPins         \* bound on the pins of a connection

ASSUME PoolAssumption ==
    /\ MaxConns \in Nat \ {0} /\ MaxIdle \in 0..MaxConns
    /\ QueueLimit \in Nat /\ MaxDials \in Nat /\ MaxPins \in Nat
    /\ IsFiniteSet(Requests)

Ids == 1..MaxDials
NoConn == 0

VARIABLES
    dialed,     \* the connections made so far
    closed,     \* those whose closedCh is closed
    token,      \* those whose leaseCh holds its token
    listed,     \* ap.conns
    pins,       \* ap.pinnedConns
    creating,   \* ap.creating
    prewarm,    \* the dials prewarmConns has left; prewarmActive while > 0
    doomed,     \* unlisted connections that their evictor is about to close
    pinging,    \* candidates of the background ping in progress
    down,       \* Close was called
    pc, held, waits, retry, want, pref

conn == <<closed, token>>
pool == <<listed, pins, creating, prewarm>>
req == <<held, waits, retry, want, pref>>
background == <<doomed, pinging, down>>
vars == <<dialed, conn, pool, background, pc, req>>

Init ==
    /\ dialed = 0 /\ closed = {} /\ token = {}
    /\ listed = {} /\ pins = [i \in Ids |-> 0]
    /\ creating = 0 /\ prewarm = 0
    /\ doomed = {} /\ pinging = {} /\ down = FALSE
    /\ pc = [r \in Requests |-> "idle"]
    /\ held = [r \in Requests |-> NoConn]
    /\ waits = [r \in Requests |-> {}]
    /\ retry = [r \in Requests |-> 0]
    /\ want = [r \in Requests |-> "any"]
    /\ pref = [r \in Requests |-> NoConn]

-----------------------------------------------------------------------------

\* A retry begins before the deferred decrement of the first try is run, so a
\* request may count as a waiter of two connections.
Waiters(i) == Cardinality({r \in Requests : i \in waits[r]})
Leased(i) == i \notin token
Idle(i) == ~Leased(i) /\ Waiters(i) = 0 /\ pins[i] = 0
Full == Cardinality(listed) + creating >= MaxConns

Goto(r, step) == pc' = [pc EXCEPT ![r] = step]

\* The request's parameters are not read any more.
Settle(r) ==
    /\ retry' = [retry EXCEPT ![r] = 0]
    /\ want' = [want EXCEPT ![r] = "any"]
    /\ pref' = [pref EXCEPT ![r] = NoConn]

\* acquire returns an error, or the lease was released.
Return(r) ==
    /\ Goto(r, "idle")
    /\ held' = [held EXCEPT ![r] = NoConn]
    /\ waits' = [waits EXCEPT ![r] = {}]
    /\ Settle(r)

\* Mutant: acquire starts over as often as the connection is closed.
RetryForEver(r) ==
    /\ Goto(r, "pick")
    /\ held' = [held EXCEPT ![r] = NoConn]
    /\ waits' = [waits EXCEPT ![r] = {}]
    /\ UNCHANGED <<retry, want, pref>>

RetryOrReturn(r) ==
    IF retry[r] < 1
    THEN /\ Goto(r, "pick")
         /\ retry' = [retry EXCEPT ![r] = 1]
         /\ held' = [held EXCEPT ![r] = NoConn]
         /\ UNCHANGED <<waits, want, pref>>
    ELSE Return(r)

\* delete(ap.conns, id) and delete(ap.pinnedConns, id)
Unlist(S) ==
    /\ listed' = listed \ S
    /\ pins' = [i \in Ids |-> IF i \in S THEN 0 ELSE pins[i]]

\* The next connection, open and with its token.
Connect == dialed' = dialed + 1 /\ token' = token \cup {dialed + 1}

-----------------------------------------------------------------------------
(* acquire, under ap.mu: reuse, create, or wait.  The cleanup that acquire *)
(* runs first at intervals is the step Cleanup taken just before.          *)

\* A connection is asked for: any one, a new one, or only the given one.
Acquire(r, kind, i) ==
    /\ pc[r] = "idle"
    /\ (kind = "forced") <=> (i # NoConn)
    /\ Goto(r, "pick")
    /\ want' = [want EXCEPT ![r] = kind]
    /\ pref' = [pref EXCEPT ![r] = i]
    /\ UNCHANGED <<dialed, conn, pool, background, held, waits, retry>>

\* The connections that a request may reuse and those that are free.
Candidates(r) == IF want[r] = "any" THEN listed
                 ELSE IF want[r] = "forced" THEN listed \cap {pref[r]} ELSE {}
Free(r) == (Candidates(r) \cap token) \ closed

\* tryAcquire of a connection takes its token; closedCh is checked again after.
Reuse(r, i) ==
    /\ pc[r] = "pick" /\ i \in Free(r)
    /\ token' = token \ {i}
    /\ held' = [held EXCEPT ![r] = i]
    /\ Goto(r, "taken")
    /\ UNCHANGED <<dialed, closed, pool, background, waits, retry, want, pref>>

\* Mutant: the dials in progress are not counted.
RoomForListed == Cardinality(listed) < MaxConns

Room == ~Full

\* A new connection is due while there is room for it; ForceNewConn makes room
\* by evicting an idle connection.
Create(r) ==
    /\ pc[r] = "pick" /\ want[r] # "forced" /\ Free(r) = {}
    /\ \/ Room /\ UNCHANGED <<listed, doomed>>
       \/ /\ want[r] = "new" /\ Full
          /\ \E i \in {j \in listed : Idle(j)} :
                listed' = listed \ {i} /\ doomed' = doomed \cup {i}
    /\ creating' = creating + 1
    /\ Goto(r, "dial")
    /\ Settle(r)
    /\ UNCHANGED <<dialed, conn, pins, prewarm, pinging, down, held, waits>>

MayWait(i) == Waiters(i) < QueueLimit

\* The request joins the waiters of a connection.  It waits for its preferred
\* connection or for the least busy one: any, since time is left out.
Queue(r, i) ==
    /\ pc[r] = "pick" /\ i \in Candidates(r) /\ Free(r) = {}
    /\ want[r] = "any" => Full
    /\ MayWait(i)
    /\ waits' = [waits EXCEPT ![r] = @ \cup {i}]
    /\ held' = [held EXCEPT ![r] = i]
    /\ Goto(r, "wait")
    /\ UNCHANGED <<dialed, conn, pool, background, retry, want, pref>>

\* There is nothing to reuse, no room, and nothing to wait for.
Refuse(r) ==
    /\ pc[r] = "pick" /\ Free(r) = {}
    /\ want[r] \in {"any", "new"} => Full
    /\ want[r] = "new" => ~\E j \in listed : Idle(j)
    /\ Candidates(r) = {} \/ \E i \in Candidates(r) : ~MayWait(i)
    /\ Return(r)
    /\ UNCHANGED <<dialed, conn, pool, background>>

-----------------------------------------------------------------------------
(* acquire, without ap.mu.                                                 *)

\* The dial ends, and the connection is listed for everyone to take.
Dial(r) ==
    /\ pc[r] = "dial"
    /\ creating' = creating - 1
    /\ \/ /\ Return(r)
          /\ UNCHANGED <<dialed, token, listed>>
       \/ /\ dialed < MaxDials /\ Connect
          /\ listed' = listed \cup {dialed + 1}
          /\ held' = [held EXCEPT ![r] = dialed + 1]
          /\ Goto(r, "own")
          /\ UNCHANGED <<waits, retry, want, pref>>
    /\ UNCHANGED <<closed, pins, prewarm, background>>

\* tryAcquire, then conn.acquire, of the connection just made or waited for:
\* the select may take the token that close puts into leaseCh.
Take(r) ==
    /\ pc[r] \in {"own", "wait"} /\ held[r] \in token
    /\ token' = token \ {held[r]}
    /\ Goto(r, IF pc[r] = "own" THEN "ownTaken" ELSE "waitTaken")
    /\ UNCHANGED <<dialed, closed, pool, background, req>>

\* conn.acquire finds the connection closed.
Fail(r) ==
    /\ held[r] \in closed
    /\ \/ pc[r] = "own" /\ Goto(r, "close") /\ UNCHANGED req
       \/ pc[r] = "wait" /\ RetryOrReturn(r)
    /\ UNCHANGED <<dialed, conn, pool, background>>

\* The context is done while conn.acquire waits.  The creator then closes its
\* connection, whoever leases it by now.
Cancel(r) ==
    /\ \/ pc[r] = "own" /\ Goto(r, "close") /\ UNCHANGED req
       \/ pc[r] = "wait" /\ Return(r)
    /\ UNCHANGED <<dialed, conn, pool, background>>

TakenSteps == {"taken", "waitTaken", "ownTaken"}

\* Mutant: closedCh is not checked again after the token was taken.
StillOpenAssumed(r) == TRUE

StillOpen(r) == held[r] \notin closed

\* The connection was closed meanwhile: the token is put back.
PutBack(r) ==
    /\ pc[r] \in TakenSteps /\ ~StillOpen(r)
    /\ token' = token \cup {held[r]}
    /\ \/ /\ pc[r] = "taken" /\ Goto(r, "pick")
          /\ held' = [held EXCEPT ![r] = NoConn]
          /\ UNCHANGED <<waits, retry, want, pref>>
       \/ pc[r] = "waitTaken" /\ RetryOrReturn(r)
       \/ pc[r] = "ownTaken" /\ Goto(r, "close") /\ UNCHANGED req
    /\ UNCHANGED <<dialed, closed, pool, background>>

\* acquire returns a lease; ensureTargetIdleAsync may start prewarmConns.
Lease(r) ==
    /\ pc[r] \in TakenSteps /\ StillOpen(r)
    /\ Goto(r, "leased")
    /\ waits' = [waits EXCEPT ![r] = {}]
    /\ Settle(r)
    /\ \/ UNCHANGED <<creating, prewarm>>
       \/ /\ prewarm = 0
          /\ \E n \in 1..(MaxConns - (Cardinality(listed) + creating)) :
                creating' = creating + n /\ prewarm' = n
    /\ UNCHANGED <<dialed, conn, listed, pins, background, held>>

\* The health check of a reused connection fails.  A request that waited for
\* it releases it before it closes it.
Unhealthy(r) ==
    /\ pc[r] \in {"taken", "waitTaken"} /\ StillOpen(r)
    /\ token' = IF pc[r] = "waitTaken" THEN token \cup {held[r]} ELSE token
    /\ Goto(r, IF retry[r] < 1 THEN "closeRetry" ELSE "close")
    /\ UNCHANGED <<dialed, closed, pool, background, req>>

\* conn.close and evictConn by the request.
Discard(r) ==
    /\ pc[r] \in {"close", "closeRetry"}
    /\ closed' = closed \cup {held[r]} /\ token' = token \cup {held[r]}
    /\ Unlist({held[r]})
    /\ IF pc[r] = "closeRetry" THEN RetryOrReturn(r) ELSE Return(r)
    /\ UNCHANGED <<dialed, creating, prewarm, background>>

-----------------------------------------------------------------------------
(* The lease, pins and the background.                                     *)

\* evictConn unlists the connection and closes it once ap.mu is free.
Evict(i) ==
    /\ Unlist({i})
    /\ doomed' = IF i \in listed THEN doomed \cup {i} ELSE doomed

MarkBroken(r) ==
    /\ pc[r] = "leased" /\ held[r] \in listed
    /\ Evict(held[r])
    /\ UNCHANGED <<dialed, conn, creating, prewarm, pinging, down, pc, req>>

\* Mutant: an evicted connection is not released.
ReleaseListedOnly(r) ==
    /\ pc[r] = "leased"
    /\ token' = IF held[r] \in listed THEN token \cup {held[r]} ELSE token
    /\ Return(r)
    /\ UNCHANGED <<dialed, closed, pool, background>>

Release(r) ==
    /\ pc[r] = "leased"
    /\ token' = token \cup {held[r]}
    /\ Return(r)
    /\ UNCHANGED <<dialed, closed, pool, background>>

\* Mutant: the connection is dropped and left open.
ForgetDoomed(i) ==
    /\ i \in doomed
    /\ doomed' = doomed \ {i}
    /\ UNCHANGED <<dialed, conn, pool, pinging, down, pc, req>>

\* conn.close by the evictor.
CloseDoomed(i) ==
    /\ i \in doomed
    /\ closed' = closed \cup {i} /\ token' = token \cup {i}
    /\ doomed' = doomed \ {i}
    /\ UNCHANGED <<dialed, pool, pinging, down, pc, req>>

PinConn(i) ==
    /\ i \in listed /\ pins[i] < MaxPins
    /\ pins' = [pins EXCEPT ![i] = @ + 1]
    /\ UNCHANGED <<dialed, conn, listed, creating, prewarm, background, pc, req>>

UnpinConn(i) ==
    /\ pins[i] > 0
    /\ pins' = [pins EXCEPT ![i] = @ - 1]
    /\ UNCHANGED <<dialed, conn, listed, creating, prewarm, background, pc, req>>

\* What cleanupAccountLocked does once it has chosen.
Remove(old, redundant) ==
    /\ Unlist(old \cup redundant \cup closed)
    /\ doomed' = doomed \cup old \cup redundant
    /\ UNCHANGED <<dialed, conn, creating, prewarm, pinging, down, pc, req>>

\* cleanupAccountLocked: closed connections go, unpinned ones that are too old
\* and not leased, and idle ones beyond MaxIdle.
Cleanup ==
    \E old \in SUBSET {i \in listed \ closed : ~Leased(i) /\ pins[i] = 0} :
        LET left == listed \ (closed \cup old)
            idle == {i \in left : Idle(i)}
            excess == Cardinality(left) - MaxIdle
            count == IF excess > Cardinality(idle) THEN Cardinality(idle) ELSE excess
        IN  \E redundant \in SUBSET idle :
              /\ Cardinality(redundant) = IF count > 0 THEN count ELSE 0
              /\ Remove(old, redundant)

\* runBackgroundPingSweep pings what was idle; the answer may come late.
PingSweep ==
    /\ ~down /\ pinging = {}
    /\ pinging' = {i \in listed : ~Leased(i) /\ Waiters(i) = 0}
    /\ UNCHANGED <<dialed, conn, pool, doomed, down, pc, req>>

PingEnds(i) ==
    /\ i \in pinging
    /\ pinging' = pinging \ {i}
    /\ \/ UNCHANGED <<listed, pins, doomed>>
       \/ Evict(i)
    /\ UNCHANGED <<dialed, conn, creating, prewarm, down, pc, req>>

\* One dial of prewarmConns.
Prewarm ==
    /\ prewarm > 0
    /\ prewarm' = prewarm - 1
    /\ creating' = IF creating > 0 THEN creating - 1 ELSE 0
    /\ \/ UNCHANGED <<dialed, token, listed>>
       \/ /\ Cardinality(listed) < MaxConns
          /\ dialed < MaxDials /\ Connect
          /\ listed' = listed \cup {dialed + 1}
    /\ UNCHANGED <<closed, pins, background, pc, req>>

\* Close stops the background and closes what is not leased.
Shutdown ==
    /\ ~down /\ pinging = {}
    /\ down' = TRUE
    /\ closed' = closed \cup (listed \cap token)
    /\ UNCHANGED <<dialed, token, pool, doomed, pinging, pc, req>>

RequestStep(r) ==
    \/ \E i \in Ids : Reuse(r, i) \/ Queue(r, i)
    \/ Create(r) \/ Refuse(r) \/ Dial(r) \/ Take(r) \/ Fail(r)
    \/ PutBack(r) \/ Lease(r) \/ Unhealthy(r) \/ Discard(r) \/ Release(r)

Next ==
    \/ \E r \in Requests :
          \/ \E kind \in {"any", "new", "forced"}, i \in 0..dialed : Acquire(r, kind, i)
          \/ RequestStep(r) \/ Cancel(r) \/ MarkBroken(r)
    \/ \E i \in Ids : CloseDoomed(i) \/ PinConn(i) \/ UnpinConn(i) \/ PingEnds(i)
    \/ Cleanup \/ PingSweep \/ Prewarm \/ Shutdown

Spec == Init /\ [][Next]_vars

\* Goroutines go on, dials and leases end by their timeouts, and a channel
\* serves its receivers in order, so that no waiter is passed over for ever.
FairSpec ==
    /\ Spec
    /\ \A r \in Requests : WF_vars(RequestStep(r)) /\ SF_vars(Take(r))
    /\ \A i \in Ids : WF_vars(CloseDoomed(i))
    /\ WF_vars(Prewarm)

-----------------------------------------------------------------------------
(* Properties.                                                             *)

Holding(r) == pc[r] \in TakenSteps \cup {"leased"}

\* Every variable has its type.
TypeOK ==
    /\ dialed \in 0..MaxDials
    /\ closed \subseteq 1..dialed /\ token \subseteq 1..dialed
    /\ listed \subseteq 1..dialed /\ pins \in [Ids -> 0..MaxPins]
    /\ creating \in Nat /\ prewarm \in Nat
    /\ doomed \subseteq 1..dialed /\ pinging \subseteq 1..dialed /\ down \in BOOLEAN
    /\ pc \in [Requests -> {"idle", "pick", "dial", "own", "wait", "leased", "close",
                            "closeRetry"} \cup TakenSteps]
    /\ held \in [Requests -> 0..dialed] /\ waits \in [Requests -> SUBSET (1..dialed)]
    /\ retry \in [Requests -> 0..1]
    /\ want \in [Requests -> {"any", "new", "forced"}] /\ pref \in [Requests -> 0..dialed]

\* Two requests never hold the lease of one connection, not even of one that is
\* closed under its lessee while others wait for its token.
OneLessee ==
    \A q, r \in Requests :
        q # r /\ pc[q] = "leased" /\ pc[r] = "leased" => held[q] # held[r]

\* The token of an open connection is never lost: it is in leaseCh or with the
\* one request that took it.
TokenIsKept ==
    \A i \in (1..dialed) \ closed :
        IF i \in token THEN \A r \in Requests : ~(Holding(r) /\ held[r] = i)
        ELSE \E r \in Requests : held[r] = i /\ (Holding(r) \/ pc[r] \in {"close", "closeRetry"})

\* Connections and dials never exceed the limit, and `creating` is exactly the
\* dials in progress, so that no failed dial uses up the pool.
CapacityKept ==
    /\ Cardinality(listed) + creating <= MaxConns
    /\ creating = prewarm + Cardinality({r \in Requests : pc[r] = "dial"})

\* An open connection is in the pool or about to be closed: none leaks.
NoneLeaks == \A i \in (1..dialed) \ closed : i \in listed \/ i \in doomed

\* A request that acquires a connection gets a lease or an error without its
\* context being cancelled.
AcquireEnds == \A r \in Requests : pc[r] = "pick" ~> pc[r] \in {"leased", "idle"}
=============================================================================
