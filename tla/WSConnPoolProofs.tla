--------------------------- MODULE WSConnPoolProofs ---------------------------
(***************************************************************************)
(* That a connection has one lessee, that its token is not lost, that none *)
(* leaks and that the pool keeps its limit, for any number of requests and *)
(* connections.                                                            *)
(***************************************************************************)
EXTENDS WSConnPool, FiniteSetTheorems, TLAPS

Steps == {"idle", "pick", "dial", "own", "wait", "leased", "close", "closeRetry"}
            \cup TakenSteps

\* The types of what a request keeps, and of the sets of connections.
RequestTypes ==
    /\ pc \in [Requests -> Steps]
    /\ held \in [Requests -> 0..dialed] /\ waits \in [Requests -> SUBSET (1..dialed)]
    /\ retry \in [Requests -> 0..1]
    /\ want \in [Requests -> {"any", "new", "forced"}] /\ pref \in [Requests -> 0..dialed]

ConnTypes ==
    /\ dialed \in 0..MaxDials
    /\ closed \subseteq 1..dialed /\ token \subseteq 1..dialed
    /\ listed \subseteq 1..dialed
    /\ doomed \subseteq 1..dialed /\ pinging \subseteq 1..dialed

OtherTypes ==
    /\ pins \in [Ids -> 0..MaxPins] /\ creating \in Nat /\ prewarm \in Nat
    /\ down \in BOOLEAN

LEMMA TypeParts == TypeOK <=> RequestTypes /\ ConnTypes /\ OtherTypes
  BY DEF TypeOK, RequestTypes, ConnTypes, OtherTypes, Steps

\* A request that holds or is after a connection.
After(r) == pc[r] \in {"own", "wait", "leased", "close", "closeRetry"} \cup TakenSteps

Places == \A r \in Requests : After(r) => held[r] # NoConn

\* The holders of an open connection's token.
Tokens ==
    /\ TokenIsKept
    /\ \A q, r \in Requests :
          Holding(q) /\ Holding(r) /\ held[q] = held[r] /\ held[q] \notin closed => q = r

PoolInv == TypeOK /\ Places /\ OneLessee /\ Tokens /\ CapacityKept /\ NoneLeaks

-----------------------------------------------------------------------------
(* Types.                                                                  *)

LEMMA ReturnTypes ==
  ASSUME RequestTypes, dialed \in Nat, NEW r \in Requests,
         Return(r) \/ RetryOrReturn(r), UNCHANGED dialed
  PROVE  RequestTypes'
  <1>1. CASE Return(r)
    BY <1>1 DEF Return, Goto, Settle, RequestTypes, Steps, NoConn
  <1>2. CASE retry[r] < 1 /\ RetryOrReturn(r)
    BY <1>2 DEF RetryOrReturn, Goto, RequestTypes, Steps, NoConn
  <1> QED
    BY <1>1, <1>2 DEF RetryOrReturn

\* Everything that is typed by the connections made so far stays so.
LEMMA MoreConns ==
  ASSUME RequestTypes, ConnTypes, dialed' = dialed + 1, dialed < MaxDials,
         UNCHANGED <<pc, req>>
  PROVE  RequestTypes'
  BY PoolAssumption DEF RequestTypes, ConnTypes, req

LEMMA RequestTypesStay ==
  ASSUME RequestTypes, ConnTypes, [Next]_vars
  PROVE  RequestTypes'
  <1> USE PoolAssumption
  <1>0. dialed \in Nat
    BY DEF ConnTypes
  <1>1. ASSUME NEW r \in Requests, NEW kind \in {"any", "new", "forced"}, NEW i \in 0..dialed,
               Acquire(r, kind, i)
        PROVE  RequestTypes'
    BY <1>1 DEF Acquire, Goto, RequestTypes, Steps
  <1>2. ASSUME NEW r \in Requests, NEW i \in Ids, Reuse(r, i)
        PROVE  RequestTypes'
    <2>1. i \in 1..dialed
      BY <1>2 DEF Reuse, Free, ConnTypes
    <2> QED
      BY <1>0, <1>2, <2>1 DEF Reuse, Goto, RequestTypes, Steps, TakenSteps
  <1>3. ASSUME NEW r \in Requests, NEW i \in Ids, Queue(r, i)
        PROVE  RequestTypes'
    <2>1. i \in 1..dialed
      BY <1>3 DEF Queue, Candidates, ConnTypes
    <2> QED
      BY <1>0, <1>3, <2>1 DEF Queue, Goto, RequestTypes, Steps
  <1>4. ASSUME NEW r \in Requests, Create(r)
        PROVE  RequestTypes'
    BY <1>0, <1>4 DEF Create, Goto, Settle, RequestTypes, Steps, NoConn
  <1>5. ASSUME NEW r \in Requests, Refuse(r) \/ Release(r)
        PROVE  RequestTypes'
    BY <1>0, <1>5, ReturnTypes DEF Refuse, Release
  <1>6. ASSUME NEW r \in Requests, Dial(r)
        PROVE  RequestTypes'
    <2>1. CASE Return(r) /\ UNCHANGED dialed
      BY <1>0, <2>1, ReturnTypes
    <2>2. CASE /\ dialed < MaxDials /\ dialed' = dialed + 1
               /\ held' = [held EXCEPT ![r] = dialed + 1]
               /\ Goto(r, "own") /\ UNCHANGED <<waits, retry, want, pref>>
      BY <1>0, <2>2 DEF Goto, RequestTypes, Steps
    <2> QED
      BY <1>6, <2>1, <2>2 DEF Dial, Connect
  <1>7. ASSUME NEW r \in Requests, Take(r) \/ Unhealthy(r)
        PROVE  RequestTypes'
    BY <1>7 DEF Take, Unhealthy, Goto, RequestTypes, Steps, TakenSteps, req
  <1>8. ASSUME NEW r \in Requests, Fail(r) \/ Cancel(r)
        PROVE  RequestTypes'
    <2>1. CASE Goto(r, "close") /\ UNCHANGED <<req, dialed>>
      BY <2>1 DEF Goto, RequestTypes, Steps, req
    <2> QED
      BY <1>0, <1>8, <2>1, ReturnTypes DEF Fail, Cancel
  <1>9. ASSUME NEW r \in Requests, PutBack(r)
        PROVE  RequestTypes'
    <2>1. CASE Goto(r, "close") /\ UNCHANGED <<req, dialed>>
      BY <2>1 DEF Goto, RequestTypes, Steps, req
    <2>2. CASE /\ Goto(r, "pick") /\ held' = [held EXCEPT ![r] = NoConn]
               /\ UNCHANGED <<waits, retry, want, pref, dialed>>
      BY <1>0, <2>2 DEF Goto, RequestTypes, Steps, NoConn
    <2> QED
      BY <1>0, <1>9, <2>1, <2>2, ReturnTypes DEF PutBack
  <1>10. ASSUME NEW r \in Requests, Lease(r)
         PROVE  RequestTypes'
    BY <1>0, <1>10 DEF Lease, Goto, Settle, RequestTypes, Steps, NoConn
  <1>11. ASSUME NEW r \in Requests, Discard(r)
         PROVE  RequestTypes'
    BY <1>0, <1>11, ReturnTypes DEF Discard
  <1>12. CASE Prewarm
    <2>1. CASE UNCHANGED <<dialed, pc, req>>
      BY <2>1 DEF RequestTypes, req
    <2> QED
      BY <1>12, <2>1, MoreConns DEF Prewarm, Connect
  <1>13. CASE UNCHANGED <<dialed, pc, req>>
    BY <1>13 DEF RequestTypes, req
  <1> QED
    BY <1>1, <1>2, <1>3, <1>4, <1>5, <1>6, <1>7, <1>8, <1>9, <1>10, <1>11, <1>12, <1>13
    DEF Next, RequestStep, MarkBroken, CloseDoomed, PinConn, UnpinConn, PingEnds, Cleanup,
        Remove, PingSweep, Shutdown, vars

LEMMA NewConn ==
  ASSUME ConnTypes, NoneLeaks, dialed < MaxDials, Connect,
         listed' = listed \cup {dialed + 1}, UNCHANGED <<closed, background>>
  PROVE  ConnTypes' /\ NoneLeaks'
  <1>1. dialed \in Nat /\ dialed' = dialed + 1 /\ dialed' \in 0..MaxDials
    BY PoolAssumption DEF ConnTypes, Connect
  <1>2. 1..dialed' = (1..dialed) \cup {dialed + 1}
    BY <1>1
  <1> QED
    BY <1>1, <1>2 DEF ConnTypes, NoneLeaks, Connect, background

\* The connections, and that none leaks: what leaves the list is closed or is
\* left to be closed.
LEMMA ConnsStay ==
  ASSUME RequestTypes, ConnTypes, Places, NoneLeaks, [Next]_vars
  PROVE  ConnTypes' /\ NoneLeaks'
  <1> USE PoolAssumption DEF ConnTypes, NoneLeaks
  <1>0. dialed \in Nat
    OBVIOUS
  <1>1. CASE UNCHANGED <<dialed, closed, token, listed, doomed, pinging>>
    BY <1>1
  <1>2. ASSUME NEW r \in Requests, NEW i \in Ids, Reuse(r, i)
        PROVE  ConnTypes' /\ NoneLeaks'
    BY <1>2 DEF Reuse, pool, background
  <1>3. ASSUME NEW r \in Requests, Create(r)
        PROVE  ConnTypes' /\ NoneLeaks'
    BY <1>3 DEF Create, conn
  <1>4. ASSUME NEW r \in Requests, Dial(r)
        PROVE  ConnTypes' /\ NoneLeaks'
    BY <1>1, <1>4, NewConn DEF Dial, background
  <1>5. ASSUME NEW r \in Requests, Take(r) \/ PutBack(r) \/ Unhealthy(r) \/ Release(r)
        PROVE  ConnTypes' /\ NoneLeaks'
    <2>1. held[r] \in 1..dialed
      BY <1>5 DEF Take, PutBack, Unhealthy, Release, Places, After, TakenSteps, RequestTypes, NoConn
    <2>2. UNCHANGED <<dialed, closed, listed, doomed, pinging>>
      BY <1>5 DEF Take, PutBack, Unhealthy, Release, pool, background
    <2>3. token' \in {token, token \ {held[r]}, token \cup {held[r]}}
      BY <1>5 DEF Take, PutBack, Unhealthy, Release
    <2> QED
      BY <2>1, <2>2, <2>3
  <1>6. ASSUME NEW r \in Requests, Discard(r)
        PROVE  ConnTypes' /\ NoneLeaks'
    <2>1. held[r] \in 1..dialed
      BY <1>6 DEF Discard, Places, After, RequestTypes, NoConn
    <2> QED
      BY <1>6, <2>1 DEF Discard, Unlist, background
  <1>7. ASSUME NEW r \in Requests, MarkBroken(r)
        PROVE  ConnTypes' /\ NoneLeaks'
    BY <1>7 DEF MarkBroken, Evict, Unlist, conn
  <1>8. ASSUME NEW i \in Ids, CloseDoomed(i)
        PROVE  ConnTypes' /\ NoneLeaks'
    BY <1>8 DEF CloseDoomed, pool
  <1>9. ASSUME NEW i \in Ids, PingEnds(i)
        PROVE  ConnTypes' /\ NoneLeaks'
    BY <1>9 DEF PingEnds, Evict, Unlist, conn
  <1>10. CASE Cleanup
    <2>1. PICK old \in SUBSET listed, redundant \in SUBSET listed : Remove(old, redundant)
      BY <1>10 DEF Cleanup
    <2> QED
      BY <2>1 DEF Remove, Unlist, conn
  <1>11. CASE PingSweep
    BY <1>11 DEF PingSweep, conn, pool
  <1>12. CASE Prewarm
    BY <1>1, <1>12, NewConn DEF Prewarm, background
  <1>13. CASE Shutdown
    BY <1>13 DEF Shutdown, pool
  <1> QED
    BY <1>1, <1>2, <1>3, <1>4, <1>5, <1>6, <1>7, <1>8, <1>9, <1>10, <1>11, <1>12, <1>13
    DEF Next, RequestStep, Acquire, Queue, Refuse, Fail, Cancel, Lease, PinConn, UnpinConn,
        vars, conn, pool, background

LEMMA PinsStay ==
  ASSUME ConnTypes, OtherTypes, [Next]_vars
  PROVE  pins' \in [Ids -> 0..MaxPins] /\ down' \in BOOLEAN
  <1> USE PoolAssumption
  <1>1. ASSUME NEW S, Unlist(S)
        PROVE  pins' \in [Ids -> 0..MaxPins]
    BY <1>1 DEF Unlist, OtherTypes
  <1>2. ASSUME NEW i \in Ids, PinConn(i) \/ UnpinConn(i)
        PROVE  pins' \in [Ids -> 0..MaxPins]
    BY <1>2 DEF PinConn, UnpinConn, OtherTypes
  <1>3. ASSUME UNCHANGED pins
        PROVE  pins' \in [Ids -> 0..MaxPins]
    BY <1>3 DEF OtherTypes
  <1>4. pins' \in [Ids -> 0..MaxPins]
    BY <1>1, <1>2, <1>3
    DEF Next, RequestStep, Acquire, Reuse, Queue, Create, Refuse, Dial, Take, Fail, Cancel,
        PutBack, Lease, Unhealthy, Discard, Release, MarkBroken, CloseDoomed, PingEnds, Evict,
        Cleanup, Remove, PingSweep, Prewarm, Shutdown, vars, pool
  <1>5. down' = down \/ down' = TRUE
    BY DEF Next, RequestStep, Acquire, Reuse, Queue, Create, Refuse, Dial, Take, Fail, Cancel,
        PutBack, Lease, Unhealthy, Discard, Release, MarkBroken, CloseDoomed, PingEnds,
        PinConn, UnpinConn, Cleanup, Remove, PingSweep, Prewarm, Shutdown, vars, background
  <1> QED
    BY <1>4, <1>5 DEF OtherTypes

-----------------------------------------------------------------------------
(* Who moves.                                                              *)

\* The steps of a request.
Moves(r) ==
    \/ \E kind \in {"any", "new", "forced"}, i \in 0..dialed : Acquire(r, kind, i)
    \/ RequestStep(r) \/ Cancel(r)

LEMMA OthersStay ==
  ASSUME RequestTypes, NEW r \in Requests, Moves(r), NEW q \in Requests, q # r
  PROVE  pc'[q] = pc[q] /\ held'[q] = held[q]
  BY DEF RequestTypes, Moves, RequestStep, Acquire, Reuse, Queue, Create, Refuse, Dial, Take,
     Fail, Cancel, PutBack, Lease, Unhealthy, Discard, Release, Return, RetryOrReturn, Goto, req

LEMMA NextCases ==
  ASSUME [Next]_vars
  PROVE  \/ \E r \in Requests : Moves(r)
         \/ UNCHANGED <<pc, req>>
  BY DEF Next, Moves, MarkBroken, CloseDoomed, PinConn, UnpinConn, PingEnds, Cleanup, Remove,
     PingSweep, Prewarm, Shutdown, vars

\* What a request's step does to the token of its connection.
Closing(r) == pc[r] \in {"close", "closeRetry"}
Bound(r) == Holding(r) \/ Closing(r)

Effect(r) ==
    \* it takes it
    \/ /\ ~Bound(r) /\ pc'[r] \in TakenSteps /\ held'[r] \in token
       /\ token' = token \ {held'[r]} /\ UNCHANGED <<dialed, closed>>
    \* it gives it back
    \/ /\ Holding(r) /\ token' = token \cup {held[r]} /\ ~Holding(r)'
       /\ UNCHANGED <<dialed, closed>>
    \* it keeps it
    \/ /\ Holding(r) /\ held'[r] = held[r] /\ UNCHANGED <<dialed, closed, token>>
       /\ \/ pc'[r] = "leased" /\ held[r] \notin closed
          \/ Closing(r)'
    \* it closes the connection
    \/ /\ Closing(r) /\ ~Holding(r)' /\ UNCHANGED dialed
       /\ closed' = closed \cup {held[r]} /\ token' = token \cup {held[r]}
    \* it does not have it
    \/ /\ ~Bound(r) /\ ~Holding(r)'
       /\ \/ UNCHANGED <<dialed, closed, token>>
          \/ dialed < MaxDials /\ Connect /\ UNCHANGED closed

LEMMA Effects ==
  ASSUME RequestTypes, ConnTypes, NEW r \in Requests, Moves(r)
  PROVE  Effect(r)
  <1>0. pc \in [Requests -> Steps] /\ held \in [Requests -> 0..dialed]
    BY DEF RequestTypes
  <1> USE <1>0 DEF Goto, Holding, Closing, Bound, TakenSteps
  <1>a. ASSUME Return(r) \/ RetryOrReturn(r)
        PROVE  pc'[r] \in {"idle", "pick"}
    BY <1>a DEF Return, RetryOrReturn
  <1>1. ASSUME NEW kind, NEW i, Acquire(r, kind, i)
        PROVE  Effect(r)
    BY <1>1 DEF Acquire, Effect, conn
  <1>2. ASSUME NEW i \in Ids, Reuse(r, i)
        PROVE  Effect(r)
    BY <1>2 DEF Reuse, Free, Effect
  <1>3. ASSUME NEW i \in Ids, Queue(r, i)
        PROVE  Effect(r)
    BY <1>3 DEF Queue, Effect, conn
  <1>4. CASE Create(r)
    BY <1>4 DEF Create, Effect, conn
  <1>5. CASE Refuse(r)
    BY <1>5, <1>a DEF Refuse, Effect, conn
  <1>6. CASE Dial(r)
    <2>1. pc[r] = "dial" /\ pc'[r] \in {"idle", "pick", "own"}
      BY <1>6, <1>a DEF Dial
    <2> QED
      BY <1>6, <2>1 DEF Dial, Effect
  <1>7. CASE Take(r)
    BY <1>7 DEF Take, Effect, req
  <1>8. CASE Fail(r) \/ Cancel(r)
    <2>1. pc[r] \in {"own", "wait"} /\ pc'[r] \in {"idle", "pick", "close"}
      BY <1>8, <1>a DEF Fail, Cancel
    <2> QED
      BY <1>8, <2>1 DEF Fail, Cancel, Effect, conn
  <1>9. CASE PutBack(r)
    <2>1. pc'[r] \in {"idle", "pick", "close"}
      BY <1>9, <1>a DEF PutBack
    <2> QED
      BY <1>9, <2>1 DEF PutBack, Effect
  <1>10. CASE Lease(r)
    BY <1>10 DEF Lease, Effect, StillOpen, conn
  <1>11. CASE Unhealthy(r)
    BY <1>11 DEF Unhealthy, Effect, req
  <1>12. CASE Discard(r)
    BY <1>12, <1>a DEF Discard, Effect
  <1>13. CASE Release(r)
    BY <1>13, <1>a DEF Release, Effect
  <1> QED
    BY <1>1, <1>2, <1>3, <1>4, <1>5, <1>6, <1>7, <1>8, <1>9, <1>10, <1>11, <1>12, <1>13
    DEF Moves, RequestStep

\* Whoever goes after a connection has one.
LEMMA PlacesStay ==
  ASSUME RequestTypes, ConnTypes, Places, [Next]_vars
  PROVE  Places'
  <1>0. pc \in [Requests -> Steps] /\ held \in [Requests -> 0..dialed] /\ dialed \in Nat
    BY DEF RequestTypes, ConnTypes
  <1>1. ASSUME NEW r \in Requests, Moves(r)
        PROVE  After(r)' => held'[r] # NoConn
    <2> USE <1>0 DEF After, Goto, TakenSteps
    <2>1. CASE Return(r) \/ RetryOrReturn(r)
      BY <2>1 DEF Return, RetryOrReturn
    <2>2. CASE After(r) /\ held'[r] = held[r]
      BY <2>2 DEF Places
    <2>3. ASSUME NEW i \in Ids, Reuse(r, i) \/ Queue(r, i)
          PROVE  held'[r] # NoConn
      BY <2>3 DEF Reuse, Queue, Ids, NoConn
    <2>4. CASE Dial(r)
      BY <2>1, <2>4 DEF Dial, NoConn
    <2>5. CASE pc'[r] \in {"pick", "dial"}
      BY <2>5
    <2> QED
      BY <1>1, <2>1, <2>2, <2>3, <2>4, <2>5
      DEF Moves, RequestStep, Acquire, Create, Refuse, Take, Fail, Cancel, PutBack, Lease,
          Unhealthy, Discard, Release, req
  <1>2. ASSUME NEW r \in Requests, Moves(r), NEW q \in Requests
        PROVE  After(q)' => held'[q] # NoConn
    BY <1>1, <1>2, OthersStay DEF Places, After
  <1>3. CASE UNCHANGED <<pc, req>>
    BY <1>3 DEF Places, After, req
  <1> QED
    BY <1>2, <1>3, NextCases DEF Places

-----------------------------------------------------------------------------
(* The tokens.                                                             *)

\* A token is in leaseCh or with one request.
LEMMA TokensMove ==
  ASSUME RequestTypes, ConnTypes, Places, Tokens, NEW r \in Requests, Moves(r)
  PROVE  Tokens'
  <1>0. dialed \in Nat /\ Effect(r)
    BY Effects DEF ConnTypes
  <1>1. \A q \in Requests : q # r => /\ Holding(q)' = Holding(q) /\ Closing(q)' = Closing(q)
                                     /\ held'[q] = held[q]
    BY OthersStay DEF Holding, Closing
  <1>2. /\ \A i \in (1..dialed) \ closed :
              IF i \in token THEN \A q \in Requests : ~(Holding(q) /\ held[q] = i)
              ELSE \E q \in Requests : held[q] = i /\ (Holding(q) \/ Closing(q))
        /\ \A p, q \in Requests :
              Holding(p) /\ Holding(q) /\ held[p] = held[q] /\ held[p] \notin closed => p = q
    BY DEF Tokens, TokenIsKept, Closing
  <1>3. SUFFICES
          /\ \A i \in (1..dialed') \ closed' :
              IF i \in token' THEN \A q \in Requests : ~(Holding(q)' /\ held'[q] = i)
              ELSE \E q \in Requests : held'[q] = i /\ (Holding(q)' \/ Closing(q)')
          /\ \A p, q \in Requests :
              Holding(p)' /\ Holding(q)' /\ held'[p] = held'[q] /\ held'[p] \notin closed' => p = q
    BY DEF Tokens, TokenIsKept, Closing
  <1>a. pc'[r] \in TakenSteps => Holding(r)' /\ ~Closing(r)'
    BY DEF Holding, Closing, TakenSteps
  <1>b. ~(Holding(r) /\ Closing(r)) /\ ~(Holding(r)' /\ Closing(r)')
    BY DEF Holding, Closing, TakenSteps
  <1>4. CASE /\ ~Bound(r) /\ pc'[r] \in TakenSteps /\ held'[r] \in token
             /\ token' = token \ {held'[r]} /\ UNCHANGED <<dialed, closed>>
    <2> DEFINE j == held'[r]
    <2>1. /\ j \in 1..dialed /\ j \in token /\ token' = token \ {j} /\ UNCHANGED <<dialed, closed>>
          /\ Holding(r)' /\ ~Holding(r) /\ ~Closing(r)
      BY <1>4, <1>a DEF ConnTypes, Bound
    <2>2. j \notin closed => \A q \in Requests : ~(Holding(q) /\ held[q] = j)
      BY <1>2, <2>1
    <2>3. ASSUME NEW i \in (1..dialed') \ closed'
          PROVE  IF i \in token' THEN \A q \in Requests : ~(Holding(q)' /\ held'[q] = i)
                 ELSE \E q \in Requests : held'[q] = i /\ (Holding(q)' \/ Closing(q)')
      BY <1>1, <1>2, <2>1
    <2>4. ASSUME NEW p \in Requests, NEW q \in Requests, Holding(p)', Holding(q)',
                 held'[p] = held'[q], held'[p] \notin closed'
          PROVE  p = q
      BY <1>1, <1>2, <2>1, <2>2, <2>4
    <2> QED
      BY <2>3, <2>4
  <1>5. CASE /\ Holding(r) /\ token' = token \cup {held[r]} /\ ~Holding(r)'
             /\ UNCHANGED <<dialed, closed>>
    BY <1>0, <1>1, <1>2, <1>5
  <1>6. CASE /\ Holding(r) /\ held'[r] = held[r] /\ UNCHANGED <<dialed, closed, token>>
             /\ \/ pc'[r] = "leased" /\ held[r] \notin closed
                \/ Closing(r)'
    <2>1. Holding(r)' \/ Closing(r)'
      BY <1>6 DEF Holding
    <2> QED
      BY <1>0, <1>1, <1>2, <1>6, <1>b, <2>1
  <1>7. CASE /\ Closing(r) /\ ~Holding(r)' /\ UNCHANGED dialed
             /\ closed' = closed \cup {held[r]} /\ token' = token \cup {held[r]}
    BY <1>0, <1>1, <1>2, <1>7
  <1>8. CASE ~Bound(r) /\ ~Holding(r)' /\ UNCHANGED <<dialed, closed, token>>
    BY <1>0, <1>1, <1>2, <1>8 DEF Bound
  <1>9. CASE ~Bound(r) /\ ~Holding(r)' /\ dialed < MaxDials /\ Connect /\ UNCHANGED closed
    <2>1. 1..dialed' = (1..dialed) \cup {dialed + 1} /\ token' = token \cup {dialed + 1}
      BY <1>0, <1>9 DEF Connect
    <2>2. \A q \in Requests : Holding(q) => held[q] # dialed + 1
      BY <1>0 DEF RequestTypes
    <2> QED
      BY <1>0, <1>1, <1>2, <1>9, <2>1, <2>2 DEF Bound
  <1> QED
    BY <1>0, <1>4, <1>5, <1>6, <1>7, <1>8, <1>9 DEF Effect

\* The background closes connections and makes new ones.
LEMMA TokensStay ==
  ASSUME RequestTypes, ConnTypes, Places, Tokens, [Next]_vars
  PROVE  Tokens'
  <1>0. dialed \in Nat
    BY DEF ConnTypes
  <1>1. CASE UNCHANGED <<pc, req>>
    <2>0. /\ \A q \in Requests : /\ Holding(q)' = Holding(q) /\ held'[q] = held[q]
                                 /\ pc'[q] = pc[q]
      BY <1>1 DEF Holding, req
    <2>1. CASE UNCHANGED <<dialed, closed, token>>
      BY <2>0, <2>1 DEF Tokens, TokenIsKept
    <2>2. ASSUME NEW i \in Ids, CloseDoomed(i)
          PROVE  Tokens'
      <3>1. UNCHANGED dialed /\ closed' = closed \cup {i} /\ token' = token \cup {i}
        BY <2>2 DEF CloseDoomed
      <3> QED
        BY <2>0, <3>1 DEF Tokens, TokenIsKept
    <2>3. CASE Shutdown
      <3>1. UNCHANGED <<dialed, token>> /\ closed \subseteq closed'
        BY <2>3 DEF Shutdown
      <3> QED
        BY <2>0, <3>1 DEF Tokens, TokenIsKept
    <2>4. CASE dialed < MaxDials /\ Connect /\ UNCHANGED closed
      <3>1. 1..dialed' = (1..dialed) \cup {dialed + 1} /\ token' = token \cup {dialed + 1}
        BY <1>0, <2>4 DEF Connect
      <3>2. \A q \in Requests : Holding(q) => held[q] # dialed + 1
        BY <1>0 DEF RequestTypes
      <3> QED
        BY <2>0, <2>4, <3>1, <3>2 DEF Tokens, TokenIsKept
    <2>5. \/ UNCHANGED <<dialed, closed, token>> \/ Shutdown
          \/ \E i \in Ids : CloseDoomed(i)
          \/ dialed < MaxDials /\ Connect /\ UNCHANGED closed
          \/ \E r \in Requests : Moves(r)
      BY DEF Next, Moves, MarkBroken, PinConn, UnpinConn, PingEnds, Cleanup, Remove,
         PingSweep, Prewarm, vars, conn
    <2> QED
      BY <2>1, <2>2, <2>3, <2>4, <2>5, TokensMove
  <1> QED
    BY <1>1, NextCases, TokensMove

\* A lease begins while its connection is open, so there is no other one.
LEMMA LesseesStay ==
  ASSUME RequestTypes, ConnTypes, Tokens, OneLessee, [Next]_vars
  PROVE  OneLessee'
  <1>1. ASSUME NEW r \in Requests, Moves(r)
        PROVE  OneLessee'
    <2>1. pc'[r] = "leased" => Holding(r) /\ held'[r] = held[r] /\ held[r] \notin closed
      BY <1>1, Effects DEF Effect, Holding, Closing, TakenSteps
    <2>2. ASSUME NEW p \in Requests, NEW q \in Requests, p # q,
                 pc'[p] = "leased", pc'[q] = "leased"
          PROVE  held'[p] # held'[q]
      <3>1. CASE p # r /\ q # r
        BY <1>1, <2>2, <3>1, OthersStay DEF OneLessee
      <3>2. CASE p = r
        BY <1>1, <2>1, <2>2, <3>2, OthersStay DEF Tokens, Holding
      <3>3. CASE q = r
        BY <1>1, <2>1, <2>2, <3>3, OthersStay DEF Tokens, Holding
      <3> QED
        BY <3>1, <3>2, <3>3
    <2> QED
      BY <2>2 DEF OneLessee
  <1>2. CASE UNCHANGED <<pc, req>>
    BY <1>2 DEF OneLessee, req
  <1> QED
    BY <1>1, <1>2, NextCases

-----------------------------------------------------------------------------
(* The limit.                                                              *)

Dialing == {r \in Requests : pc[r] = "dial"}

LEMMA DialingFinite ==
  ASSUME NEW S \in SUBSET Requests
  PROVE  IsFiniteSet(S) /\ Cardinality(S) \in Nat
  BY PoolAssumption, FS_Subset, FS_CardinalityType

LEMMA ListedFinite ==
  ASSUME ConnTypes
  PROVE  IsFiniteSet(listed) /\ Cardinality(listed) \in Nat
  <1>1. IsFiniteSet(1..dialed)
    BY FS_Interval DEF ConnTypes
  <1> QED
    BY <1>1, FS_Subset, FS_CardinalityType DEF ConnTypes

\* How the dials in progress change.
LEMMA DialingMoves ==
  ASSUME RequestTypes, NEW r \in Requests, Moves(r)
  PROVE  Dialing' = IF pc'[r] = "dial" THEN Dialing \cup {r} ELSE Dialing \ {r}
  BY OthersStay DEF Dialing

\* All the other steps leave the counts alone and list nothing.
LEMMA OtherStep ==
  ASSUME RequestTypes, [Next]_vars,
         \A r \in Requests : ~Create(r) /\ ~Dial(r) /\ ~Lease(r),
         ~Prewarm
  PROVE  /\ UNCHANGED <<creating, prewarm>> /\ listed' \subseteq listed
         /\ Dialing' = Dialing
  <1>1. UNCHANGED <<creating, prewarm>> /\ listed' \subseteq listed
    BY DEF Next, RequestStep, Acquire, Reuse, Queue, Refuse, Take, Fail, Cancel, PutBack,
       Unhealthy, Discard, Release, MarkBroken, CloseDoomed, PinConn, UnpinConn, PingEnds,
       Evict, Unlist, Cleanup, Remove, PingSweep, Shutdown, vars, pool
  <1>2. ASSUME NEW r \in Requests, Moves(r)
        PROVE  Dialing' = Dialing
    <2>1. pc[r] # "dial" /\ pc'[r] # "dial"
      BY <1>2 DEF RequestTypes, Moves, RequestStep, Acquire, Reuse, Queue, Refuse, Take, Fail,
         Cancel, PutBack, Unhealthy, Discard, Release, Return, RetryOrReturn, Goto, TakenSteps
    <2> QED
      BY <1>2, <2>1, DialingMoves DEF Dialing
  <1>3. CASE UNCHANGED <<pc, req>>
    BY <1>1, <1>3 DEF Dialing
  <1> QED
    BY <1>1, <1>2, <1>3, NextCases

\* A dial is counted while it is in progress, and becomes a connection at most.
LEMMA CapacityStays ==
  ASSUME TypeOK, CapacityKept, [Next]_vars
  PROVE  CapacityKept' /\ creating' \in Nat /\ prewarm' \in Nat
  <1>0. /\ RequestTypes /\ ConnTypes /\ creating \in Nat /\ prewarm \in Nat
        /\ MaxConns \in Nat /\ dialed \in Nat
    BY TypeParts, PoolAssumption DEF OtherTypes, ConnTypes
  <1>1. /\ IsFiniteSet(listed) /\ Cardinality(listed) \in Nat
        /\ IsFiniteSet(Dialing) /\ Cardinality(Dialing) \in Nat
    BY <1>0, ListedFinite, DialingFinite DEF Dialing
  <1>2. /\ Cardinality(listed) + creating <= MaxConns
        /\ creating = prewarm + Cardinality(Dialing)
    BY DEF CapacityKept, Dialing
  <1>3. SUFFICES /\ Cardinality(listed') + creating' <= MaxConns
                 /\ creating' = prewarm' + Cardinality(Dialing')
                 /\ creating' \in Nat /\ prewarm' \in Nat
    BY DEF CapacityKept, Dialing
  <1>4. ASSUME NEW r \in Requests, Create(r)
        PROVE  /\ Cardinality(listed') + creating' <= MaxConns
               /\ creating' = prewarm' + Cardinality(Dialing')
               /\ creating' \in Nat /\ prewarm' \in Nat
    <2>1. Dialing' = Dialing \cup {r} /\ r \notin Dialing
      <3>1. pc[r] = "pick" /\ pc'[r] = "dial"
        BY <1>0, <1>4 DEF Create, Goto, RequestTypes
      <3> QED
        BY <1>0, <1>4, <3>1, DialingMoves DEF Moves, RequestStep, Dialing
    <2>2. Cardinality(Dialing') = Cardinality(Dialing) + 1
      BY <1>1, <2>1, FS_AddElement
    <2>3. creating' = creating + 1 /\ prewarm' = prewarm
      BY <1>4 DEF Create
    <2>4. CASE Room /\ listed' = listed
      BY <1>0, <1>1, <1>2, <2>2, <2>3, <2>4 DEF Room, Full
    <2>5. ASSUME NEW i \in listed, listed' = listed \ {i}
          PROVE  Cardinality(listed') = Cardinality(listed) - 1
      BY <1>1, <2>5, FS_RemoveElement
    <2>6. CASE \E i \in listed : listed' = listed \ {i}
      BY <1>0, <1>1, <1>2, <2>2, <2>3, <2>5, <2>6
    <2> QED
      BY <1>4, <2>4, <2>6 DEF Create
  <1>5. ASSUME dialed < MaxDials, Connect, listed' = listed \cup {dialed + 1}
        PROVE  Cardinality(listed') = Cardinality(listed) + 1
    <2>1. dialed + 1 \notin listed
      BY <1>0 DEF ConnTypes
    <2> QED
      BY <1>1, <1>5, <2>1, FS_AddElement
  <1>6. ASSUME NEW r \in Requests, Dial(r)
        PROVE  /\ Cardinality(listed') + creating' <= MaxConns
               /\ creating' = prewarm' + Cardinality(Dialing')
               /\ creating' \in Nat /\ prewarm' \in Nat
    <2>1. Dialing' = Dialing \ {r} /\ r \in Dialing
      <3>1. pc[r] = "dial" /\ pc'[r] # "dial"
        BY <1>0, <1>6 DEF Dial, Return, Goto, RequestTypes
      <3> QED
        BY <1>0, <1>6, <3>1, DialingMoves DEF Moves, RequestStep, Dialing
    <2>2. Cardinality(Dialing') = Cardinality(Dialing) - 1 /\ Cardinality(Dialing') \in Nat
      BY <1>1, <2>1, FS_RemoveElement, FS_CardinalityType
    <2>3. creating' = creating - 1 /\ prewarm' = prewarm
      BY <1>6 DEF Dial
    <2>4. Cardinality(listed') = Cardinality(listed) \/ Cardinality(listed') = Cardinality(listed) + 1
      BY <1>5, <1>6 DEF Dial
    <2> QED
      BY <1>0, <1>1, <1>2, <2>2, <2>3, <2>4
  <1>7. ASSUME NEW r \in Requests, Lease(r)
        PROVE  /\ Cardinality(listed') + creating' <= MaxConns
               /\ creating' = prewarm' + Cardinality(Dialing')
               /\ creating' \in Nat /\ prewarm' \in Nat
    <2>1. Dialing' = Dialing /\ listed' = listed
      <3>1. pc[r] # "dial" /\ pc'[r] # "dial"
        BY <1>0, <1>7 DEF Lease, Goto, RequestTypes, TakenSteps
      <3> QED
        BY <1>0, <1>7, <3>1, DialingMoves DEF Moves, RequestStep, Dialing, Lease
    <2>2. CASE UNCHANGED <<creating, prewarm>>
      BY <1>0, <1>2, <2>1, <2>2
    <2>3. ASSUME prewarm = 0, NEW n \in 1..(MaxConns - (Cardinality(listed) + creating)),
                 creating' = creating + n, prewarm' = n
          PROVE  /\ Cardinality(listed') + creating' <= MaxConns
                 /\ creating' = prewarm' + Cardinality(Dialing')
                 /\ creating' \in Nat /\ prewarm' \in Nat
      BY <1>0, <1>1, <1>2, <2>1, <2>3
    <2> QED
      BY <1>7, <2>2, <2>3 DEF Lease
  <1>8. CASE Prewarm
    <2>1. Dialing' = Dialing /\ prewarm > 0 /\ prewarm' = prewarm - 1
      BY <1>8 DEF Prewarm, Dialing
    <2>2. creating' = creating - 1
      BY <1>0, <1>1, <1>2, <1>8, <2>1 DEF Prewarm
    <2>3. Cardinality(listed') = Cardinality(listed) \/ Cardinality(listed') = Cardinality(listed) + 1
      BY <1>5, <1>8 DEF Prewarm
    <2> QED
      BY <1>0, <1>1, <1>2, <2>1, <2>2, <2>3
  <1>9. CASE ~Prewarm /\ \A r \in Requests : ~Create(r) /\ ~Dial(r) /\ ~Lease(r)
    <2>1. UNCHANGED <<creating, prewarm>> /\ listed' \subseteq listed /\ Dialing' = Dialing
      BY <1>0, <1>9, OtherStep
    <2>2. Cardinality(listed') <= Cardinality(listed) /\ Cardinality(listed') \in Nat
      BY <1>1, <2>1, FS_Subset, FS_CardinalityType
    <2> QED
      BY <1>0, <1>1, <1>2, <2>1, <2>2
  <1> QED
    BY <1>4, <1>6, <1>7, <1>8, <1>9

-----------------------------------------------------------------------------
(* The theorems.                                                           *)

LEMMA PoolInit == Init => PoolInv
  <1> SUFFICES ASSUME Init PROVE PoolInv
    OBVIOUS
  <1>1. RequestTypes /\ ConnTypes
    BY PoolAssumption DEF Init, RequestTypes, ConnTypes, Steps, NoConn
  <1>2. OtherTypes
    <2>1. pins \in [Ids -> 0..MaxPins] /\ creating \in Nat /\ prewarm \in Nat
      BY PoolAssumption DEF Init
    <2>2. down \in BOOLEAN
      BY DEF Init
    <2> QED
      BY <2>1, <2>2 DEF OtherTypes
  <1>3. Places /\ OneLessee /\ Tokens /\ NoneLeaks
    BY DEF Init, Places, After, OneLessee, Tokens, TokenIsKept, Holding, NoneLeaks, TakenSteps
  <1>4. CapacityKept
    <2>1. {r \in Requests : pc[r] = "dial"} = {} /\ listed = {}
      BY DEF Init
    <2> QED
      BY <2>1, FS_EmptySet, PoolAssumption DEF Init, CapacityKept
  <1> QED
    BY <1>1, <1>2, <1>3, <1>4, TypeParts DEF PoolInv

LEMMA PoolStep == PoolInv /\ [Next]_vars => PoolInv'
  <1> SUFFICES ASSUME PoolInv, [Next]_vars PROVE PoolInv'
    OBVIOUS
  <1>1. /\ TypeOK /\ Places /\ OneLessee /\ Tokens /\ CapacityKept /\ NoneLeaks
        /\ RequestTypes /\ ConnTypes /\ OtherTypes
    BY TypeParts DEF PoolInv
  <1>2. RequestTypes' /\ ConnTypes' /\ NoneLeaks'
    BY <1>1, RequestTypesStay, ConnsStay
  <1>3. CapacityKept' /\ OtherTypes'
    <2>1. CapacityKept' /\ creating' \in Nat /\ prewarm' \in Nat
      BY <1>1, CapacityStays
    <2>2. pins' \in [Ids -> 0..MaxPins] /\ down' \in BOOLEAN
      BY <1>1, PinsStay
    <2> QED
      BY <2>1, <2>2 DEF OtherTypes
  <1>4. Places' /\ Tokens' /\ OneLessee'
    BY <1>1, PlacesStay, TokensStay, LesseesStay
  <1>5. TypeOK'
    BY <1>2, <1>3 DEF TypeOK, RequestTypes, ConnTypes, OtherTypes, Steps
  <1> QED
    BY <1>2, <1>3, <1>4, <1>5 DEF PoolInv

LEMMA PoolInvariance == Spec => []PoolInv
  BY PoolInit, PoolStep, PTL DEF Spec

\* The variables keep their types: a dial never makes ap.creating negative.
THEOREM PoolTypeCorrect == Spec => []TypeOK
  <1>1. PoolInv => TypeOK
    BY DEF PoolInv
  <1> QED
    BY <1>1, PoolInvariance, PTL

\* tryAcquire, acquire and close: two requests never hold the lease of one
\* connection, not even of one that is closed under its lessee.
THEOREM LeaseIsExclusive == Spec => []OneLessee
  <1>1. PoolInv => OneLessee
    BY DEF PoolInv
  <1> QED
    BY <1>1, PoolInvariance, PTL

\* leaseCh: the token of an open connection is in the channel or with the
\* request that took it, on every path of acquire.
THEOREM TokenNeverLost == Spec => []TokenIsKept
  <1>1. PoolInv => TokenIsKept
    BY DEF PoolInv, Tokens
  <1> QED
    BY <1>1, PoolInvariance, PTL

\* ap.creating: connections and dials never exceed the account's limit, and
\* every dial gives its place back.
THEOREM PoolIsBounded == Spec => []CapacityKept
  <1>1. PoolInv => CapacityKept
    BY DEF PoolInv
  <1> QED
    BY <1>1, PoolInvariance, PTL

\* evictConn and cleanupAccountLocked: an open connection is in the pool or
\* about to be closed.
THEOREM ConnsDoNotLeak == Spec => []NoneLeaks
  <1>1. PoolInv => NoneLeaks
    BY DEF PoolInv
  <1> QED
    BY <1>1, PoolInvariance, PTL
=============================================================================
