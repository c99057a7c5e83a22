----------------------------- MODULE RedeemProofs -----------------------------
(***************************************************************************)
(* That a code is redeemed once and never for nothing, that no term is     *)
(* longer than what was granted and that the balance follows the codes,    *)
(* for any number of requests, codes, edits and failures.                  *)
(***************************************************************************)
EXTENDS RedeemService, TLAPS

Locs == [code : Codes \cup {NoCode}, base : Int, row : Rows \cup {NoRow},
         exp : 0..MaxExpires, wake : BOOLEAN]

\* Where a request is tells what kind of code it redeems and whether it has
\* found a subscription.
Path(w) ==
    LET step == pc[w]  l == loc[w]
    IN  /\ step # "idle" => l.code \in Codes
        /\ step \in {"idle", "read", "begin", "use", "find"} => l.row = NoRow
        /\ step = "fund" => Kind(w) \in Funds
        /\ step \in {"find", "extend", "reread"} => Kind(w) = "subscription" /\ Value(w) >= 0
        /\ step \in {"reduce", "cut"} => Shortens(w)
        /\ step \in {"extend", "reread", "cut"} => l.row \in Rows
        /\ step = "commit" /\ Shortens(w) => l.row \in Rows

\* The administrator's operation knows what it works on.
AdminPath ==
    /\ adm.op \in {"enable", "disable", "expire"} => adm.code \in Codes
    /\ adm.op \in {"adjust", "wake"} => adm.row \in Rows

Paths == (\A w \in Workers : Path(w)) /\ AdminPath

\* A marked code is unused for everybody else, and marked by one request.
Marks ==
    /\ \A w \in Workers : pc[w] \in Marked => code[loc[w].code] = "unused"
    /\ \A v, w \in Workers :
          pc[v] \in Marked /\ pc[w] \in Marked /\ loc[v].code = loc[w].code => v = w

\* The counts of redemptions.
Counts ==
    \A c \in Codes :
        /\ redeemed[c] <= 1 + revived[c]
        /\ code[c] \in {"unused", "disabled", "expired"} => redeemed[c] <= revived[c]

\* A request that has extended a subscription.
Extended(w) ==
    \/ pc[w] = "reread"
    \/ /\ pc[w] = "commit" /\ Kind(w) = "subscription"
       /\ ~Shortens(w) /\ ~Creates(w)

\* What was granted, the extensions that are not yet redeemed included.
Grants ==
    /\ GrantedAsRedeemed
    /\ \A w \in Workers : Extended(w) => redeemed[loc[w].code] < grants[loc[w].code]

\* A request that is about to write an expiry, and what it will have granted.
Writes(w) ==
    \/ pc[w] \in {"extend", "cut"}
    \/ pc[w] = "commit" /\ (Shortens(w) \/ Creates(w))

Due(w) == IF Shortens(w) THEN 0 ELSE Normalized(Value(w))

\* No expiry, written or about to be, is later than what is granted by then.
AdminTerms ==
    /\ adm.op = "assign" => adm.exp <= now + paid + DefaultDays
    /\ adm.op = "adjust" =>
          adm.exp <= now + paid + (IF adm.days > 0 THEN adm.days ELSE 0)

Terms ==
    /\ \A r \in Rows : sub[r].exp <= now + paid
    /\ \A w \in Workers : Writes(w) => loc[w].exp <= now + paid + Due(w)
    /\ AdminTerms

RedeemInv == TypeOK /\ Paths /\ Marks /\ Counts /\ Grants /\ Terms

LEMMA RedeemInit == Init => RedeemInv
  <1> SUFFICES ASSUME Init PROVE RedeemInv
    OBVIOUS
  <1> USE RedeemAssumption DEF Init
  <1>1. TypeOK
    BY DEF TypeOK, NoLoc, NoAdm, NoRow, Unborn, Row, Steps, Funds, AtMost
  <1>2. Paths
    BY DEF Paths, Path, AdminPath, NoAdm, NoLoc
  <1>3. Marks
    BY DEF Marks, Marked
  <1>4. Counts /\ Grants
    BY DEF Counts, Grants, GrantedAsRedeemed, Extended
  <1>5. Terms
    BY DEF Terms, AdminTerms, Writes, Unborn, NoAdm
  <1> QED
    BY <1>1, <1>2, <1>3, <1>4, <1>5 DEF RedeemInv

-----------------------------------------------------------------------------
(* Who changes what.                                                       *)

\* The steps of a request that touch neither the tables nor the ghosts.
Quiet(w) ==
    \/ \E c \in Codes : Start(w, c)
    \/ Read(w) \/ BeginTx(w) \/ Use(w) \/ Fund(w) \/ Find(w) \/ Reread(w)
    \/ Reduce(w) \/ Cut(w) \/ Release(w) \/ Abort(w) \/ GiveUp(w) \/ Crash(w)

LEMMA QuietFrame ==
  ASSUME NEW w \in Workers, Quiet(w)
  PROVE  UNCHANGED <<store, world, ghosts>>
  BY DEF Quiet, Start, Read, BeginTx, Use, Fund, Find, Reread, Reduce, Cut,
     Release, Abort, GiveUp, Crash

\* A request moves alone.
LEMMA OthersStay ==
  ASSUME TypeOK, NEW w \in Workers, Quiet(w) \/ Extend(w) \/ Commit(w),
         NEW v \in Workers, v # w
  PROVE  pc'[v] = pc[v] /\ loc'[v] = loc[v]
  BY DEF TypeOK, Quiet, Start, Read, BeginTx, Use, Fund, Find, Reread, Reduce, Cut,
     Release, Abort, GiveUp, Crash, Extend, Commit, Goto

\* The administrators and the clock do not move the requests.
Outside ==
    \/ \E c \in Codes : LockExpire(c)
    \/ AdminStep \/ ExpirySweep \/ Tick

LEMMA OutsideFrame ==
  ASSUME Outside
  PROVE  UNCHANGED <<pc, loc, redeemed, grants, funds, worth>>
  BY DEF Outside, LockExpire, AdminStep, ExpirySweep, Tick, WriteCode, Assign,
     Adjust, Wake, CheckAssign, DeleteCode, CheckCode, Edit, Revoke, CheckAdjust,
     rest, admRest, store, ghosts

\* Usage moves the balance and its account alone.
others == <<code, sub, lock, pc, loc, world, faults, redeemed, grants, revived, paid>>

Still ==
    /\ UNCHANGED others
    /\ (\E amount \in Charges : Spend(amount)) \/ UNCHANGED vars

LEMMA NextCases ==
  ASSUME [Next]_vars
  PROVE  \/ \E w \in Workers : Quiet(w) \/ Extend(w) \/ Commit(w)
         \/ Outside
         \/ Still
  <1>1. ASSUME NEW amount \in Charges, Spend(amount)
        PROVE  Still
    BY <1>1 DEF Spend, Still, others
  <1>2. CASE UNCHANGED vars
    BY <1>2 DEF vars, Still, others, world
  <1> QED
    BY <1>1, <1>2 DEF Next, WorkerStep, Quiet, Outside

-----------------------------------------------------------------------------
(* Types and paths.                                                        *)

LEMMA Arithmetic ==
  ASSUME NEW d \in Int
  PROVE  /\ Normalized(d) \in Nat \ {0}
         /\ TypeOK => \A e \in 0..MaxExpires :
               /\ Prolonged(e, d) \in Int /\ Prolonged(e, d) <= MaxExpires
               /\ d >= 0 => Prolonged(e, d) >= 0
               /\ \A p \in Nat : e <= now + p => Prolonged(e, d) <= now + p + d
  BY RedeemAssumption DEF Normalized, AtMost, Prolonged, TypeOK

\* A code that a request works on.
LEMMA CodeTypes ==
  ASSUME TypeOK, NEW w \in Workers, loc[w].code \in Codes
  PROVE  /\ Kind(w) \in Kinds /\ Value(w) \in Int
         /\ Shortens(w) \in BOOLEAN /\ Creates(w) \in BOOLEAN
  BY RedeemAssumption DEF Kind, Value, Shortens, Creates

LEMMA WriteLoc ==
  ASSUME NEW f \in [Workers -> Locs], NEW w \in Workers, NEW r \in Rows \cup {NoRow},
         NEW e \in 0..MaxExpires, NEW b \in BOOLEAN
  PROVE  /\ [f EXCEPT ![w].row = r, ![w].exp = e, ![w].wake = b] \in [Workers -> Locs]
         /\ [f EXCEPT ![w].row = r, ![w].wake = b, ![w].exp = e] \in [Workers -> Locs]
         /\ [f EXCEPT ![w].exp = e] \in [Workers -> Locs]
         /\ [f EXCEPT ![w] = NoLoc] \in [Workers -> Locs]
  <1>1. f[w] \in Locs
    OBVIOUS
  <1>2. ASSUME NEW l \in Locs
        PROVE  [f EXCEPT ![w] = l] \in [Workers -> Locs]
    OBVIOUS
  <1>3. /\ [f[w] EXCEPT !.row = r] \in Locs
        /\ [f[w] EXCEPT !.exp = e] \in Locs
    BY <1>1 DEF Locs
  <1>4. NoLoc \in Locs
    BY RedeemAssumption DEF Locs, NoLoc
  <1>5. [f EXCEPT ![w].row = r, ![w].exp = e, ![w].wake = b] \in [Workers -> Locs]
    BY <1>1 DEF Locs
  <1>6. [f EXCEPT ![w].row = r, ![w].wake = b, ![w].exp = e] \in [Workers -> Locs]
    BY <1>1 DEF Locs
  <1>7. [f EXCEPT ![w].exp = e] \in [Workers -> Locs]
    BY <1>1 DEF Locs
  <1> QED
    BY <1>2, <1>4, <1>5, <1>6, <1>7

LEMMA QuietTypes ==
  ASSUME TypeOK, Paths, NEW w \in Workers, Quiet(w)
  PROVE  TypeOK'
  <1> SUFFICES /\ lock' \subseteq Codes /\ pc' \in [Workers -> Steps]
               /\ loc' \in [Workers -> Locs] /\ faults' \in 0..MaxFaults
    BY QuietFrame DEF TypeOK, Locs, store, world, ghosts
  <1> USE RedeemAssumption DEF Locs
  <1>0. /\ pc \in [Workers -> Steps] /\ loc \in [Workers -> Locs]
        /\ lock \subseteq Codes /\ faults \in 0..MaxFaults /\ Path(w)
    BY DEF TypeOK, Paths
  <1>1. faults' \in 0..MaxFaults
    <2>1. Fault \/ NoFault
      BY DEF Quiet, Start, Read, BeginTx, Use, Fund, Find, Reread, Reduce, Cut,
         Release, Abort, GiveUp, Crash
    <2> QED
      BY <1>0, <2>1 DEF Fault, NoFault
  <1>2. lock' \subseteq Codes /\ pc' \in [Workers -> Steps]
    <2>1. lock' \subseteq Codes
      BY <1>0 DEF Quiet, Start, Read, BeginTx, Use, Fund, Find, Reread, Reduce, Cut,
         Release, Abort, GiveUp, Crash
    <2>2. \E s \in Steps : Goto(w, s)
      <3>1. AfterUse(w) \in Steps
        BY DEF AfterUse, Steps
      <3> QED
        BY <3>1 DEF Quiet, Start, Read, BeginTx, Use, Fund, Find, Reread, Reduce, Cut,
           Release, Abort, GiveUp, Crash, Steps
    <2> QED
      BY <1>0, <2>1, <2>2 DEF Goto
  <1>3. CASE \E c \in Codes : Start(w, c)
    BY <1>0, <1>1, <1>2, <1>3 DEF Start
  <1>4. CASE Read(w)
    <2>1. KindOf[loc[w].code] \in Funds => funds[KindOf[loc[w].code]] \in Int
      BY DEF TypeOK
    <2> QED
      BY <1>0, <1>1, <1>2, <1>4, <2>1 DEF Read
  <1>5. CASE Find(w)
    <2>1. loc[w].code \in Codes /\ Value(w) \in Int /\ Normalized(Value(w)) \in Nat
      BY <1>0, <1>5, CodeTypes, Arithmetic DEF Find, Path
    <2>2. now \in Nat /\ AtMost(now + Normalized(Value(w)), MaxExpires) \in 0..MaxExpires
      BY <2>1 DEF AtMost, TypeOK
    <2>3. CASE UNCHANGED loc
      BY <1>0, <1>1, <1>2, <2>3
    <2>4. ASSUME NEW r \in Live,
                 loc' = [loc EXCEPT ![w].row = r,
                                    ![w].exp = Prolonged(sub[r].exp, Normalized(Value(w))),
                                    ![w].wake = sub[r].exp <= now \/ sub[r].status # "active"]
          PROVE  loc' \in [Workers -> Locs]
      <3>1. r \in Rows /\ sub[r].exp \in 0..MaxExpires
        BY DEF Live, TypeOK, Row
      <3>2. Prolonged(sub[r].exp, Normalized(Value(w))) \in 0..MaxExpires
        <4> DEFINE n == Normalized(Value(w))
        <4>1. n \in Int /\ n >= 0
          BY <2>1
        <4> HIDE DEF n
        <4>2. Prolonged(sub[r].exp, n) \in 0..MaxExpires
          BY <3>1, <4>1 DEF Prolonged, AtMost, TypeOK
        <4> QED
          BY <4>2 DEF n
      <3> HIDE DEF Locs
      <3>3. (sub[r].exp <= now \/ sub[r].status # "active") \in BOOLEAN
        OBVIOUS
      <3> QED
        BY <1>0, <2>4, <3>1, <3>2, <3>3, WriteLoc
    <2>5. CASE loc' = [loc EXCEPT ![w].exp = AtMost(now + Normalized(Value(w)), MaxExpires)]
      <3> HIDE DEF Locs
      <3> DEFINE e == AtMost(now + Normalized(Value(w)), MaxExpires)
      <3>1. e \in 0..MaxExpires /\ loc \in [Workers -> Locs] /\ loc' = [loc EXCEPT ![w].exp = e]
        BY <1>0, <2>2, <2>5
      <3> HIDE DEF e
      <3> QED
        BY <1>1, <1>2, <3>1 DEF Locs
    <2> QED
      BY <1>1, <1>2, <1>5, <2>3, <2>4, <2>5 DEF Find
  <1>6. CASE Reduce(w)
    <2>1. loc[w].code \in Codes /\ Value(w) \in Int /\ Value(w) < 0
      BY <1>0, <1>6, CodeTypes DEF Reduce, Path, Shortens
    <2>2. CASE Live = {}
      BY <1>0, <1>1, <1>2, <1>6, <2>2 DEF Reduce
    <2>3. ASSUME NEW r \in Live,
                 loc' = [loc EXCEPT ![w].row = r,
                    ![w].wake = (IF sub[r].exp > now THEN sub[r].exp - now ELSE 0) <= 0 - Value(w),
                    ![w].exp = IF (IF sub[r].exp > now THEN sub[r].exp - now ELSE 0) <= 0 - Value(w)
                               THEN now ELSE Shortened(sub[r].exp, 0 - Value(w))]
          PROVE  loc' \in [Workers -> Locs]
      <3>1. r \in Rows /\ sub[r].exp \in 0..MaxExpires /\ now \in 0..MaxExpires
        BY DEF Live, TypeOK, Row
      <3>2. DEFINE left == IF sub[r].exp > now THEN sub[r].exp - now ELSE 0
      <3>3. /\ (left <= 0 - Value(w)) \in BOOLEAN
            /\ (IF left <= 0 - Value(w) THEN now ELSE Shortened(sub[r].exp, 0 - Value(w)))
                  \in 0..MaxExpires
        BY <2>1, <3>1 DEF Shortened
      <3> HIDE DEF Locs
      <3> QED
        BY <1>0, <2>3, <3>1, <3>3, WriteLoc
    <2> QED
      BY <1>1, <1>2, <1>6, <2>2, <2>3 DEF Reduce
  <1>7. CASE Release(w) \/ Crash(w)
    <2> HIDE DEF Locs
    <2>1. loc' = [loc EXCEPT ![w] = NoLoc]
      BY <1>7 DEF Release, Crash
    <2>2. 0 \in 0..MaxExpires /\ TRUE \in BOOLEAN /\ NoRow \in Rows \cup {NoRow}
      OBVIOUS
    <2> QED
      BY <1>0, <1>1, <1>2, <2>1, <2>2, WriteLoc
  <1>8. CASE UNCHANGED loc
    BY <1>0, <1>1, <1>2, <1>8
  <1> QED
    BY <1>3, <1>4, <1>5, <1>6, <1>7, <1>8
    DEF Quiet, BeginTx, Use, Fund, Reread, Cut, Abort, GiveUp

\* What is written to a subscription's row.
LEMMA WriteRow ==
  ASSUME NEW f \in [Rows -> Row], NEW r \in Rows, NEW e \in 0..MaxExpires, NEW b
  PROVE  /\ [f EXCEPT ![r].exp = e, ![r].status = IF b THEN "active" ELSE @] \in [Rows -> Row]
         /\ [f EXCEPT ![r].exp = e, ![r].status = IF b THEN "expired" ELSE @] \in [Rows -> Row]
         /\ [f EXCEPT ![r].live = FALSE] \in [Rows -> Row]
         /\ [f EXCEPT ![r] = [live |-> TRUE, exp |-> e, status |-> "active"]] \in [Rows -> Row]
  <1>1. f[r] \in Row
    OBVIOUS
  <1>2. [f EXCEPT ![r].exp = e, ![r].status = IF b THEN "active" ELSE @] \in [Rows -> Row]
    BY <1>1 DEF Row
  <1>3. [f EXCEPT ![r].exp = e, ![r].status = IF b THEN "expired" ELSE @] \in [Rows -> Row]
    BY <1>1 DEF Row
  <1>4. [f EXCEPT ![r].live = FALSE] \in [Rows -> Row]
    BY <1>1 DEF Row
  <1>5. [f EXCEPT ![r] = [live |-> TRUE, exp |-> e, status |-> "active"]] \in [Rows -> Row]
    BY <1>1 DEF Row
  <1> QED
    BY <1>2, <1>3, <1>4, <1>5

\* An expiry is written to one row only.
LEMMA WrittenRow ==
  ASSUME NEW f \in [Rows -> Row], NEW r \in Rows, NEW e \in 0..MaxExpires, NEW b,
         NEW g, NEW q \in Rows,
         \/ g = [f EXCEPT ![r].exp = e, ![r].status = IF b THEN "active" ELSE @]
         \/ g = [f EXCEPT ![r].exp = e, ![r].status = IF b THEN "expired" ELSE @]
  PROVE  g[q].exp \in {e, f[q].exp}
  <1>1. f[r] \in Row
    OBVIOUS
  <1> QED
    BY <1>1 DEF Row

\* A new subscription.
LEMMA CreatedRow ==
  ASSUME TypeOK, NEW e \in 0..MaxExpires, CreateTerm(e)
  PROVE  /\ sub' \in [Rows -> Row]
         /\ \A q \in Rows : sub'[q].exp \in {e, sub[q].exp}
  <1>1. PICK r : sub' = [sub EXCEPT ![r] = [live |-> TRUE, exp |-> e, status |-> "active"]]
    BY DEF CreateTerm
  <1>2. sub \in [Rows -> Row]
    BY DEF TypeOK
  <1>3. CASE r \in Rows
    <2>1. sub' \in [Rows -> Row]
      BY <1>1, <1>2, <1>3, WriteRow
    <2> QED
      BY <1>1, <1>2, <1>3, <2>1
  <1>4. CASE r \notin Rows
    <2>1. sub' = sub
      BY <1>1, <1>2, <1>4
    <2> QED
      BY <1>2, <2>1
  <1> QED
    BY <1>3, <1>4

LEMMA ExtendTypes ==
  ASSUME TypeOK, Paths, NEW w \in Workers, Extend(w)
  PROVE  TypeOK'
  <1>1. loc[w].code \in Codes /\ loc[w].row \in Rows /\ loc[w].exp \in 0..MaxExpires
    BY DEF TypeOK, Paths, Path, Extend
  <1>2. Normalized(Value(w)) \in Nat
    BY <1>1, CodeTypes, Arithmetic
  <1>3. sub' \in [Rows -> Row]
    BY <1>1, WriteRow DEF Extend, WriteTerm, TypeOK
  <1>4. grants' \in [Codes -> Nat] /\ paid' \in Nat
    BY <1>1, <1>2 DEF Extend, TypeOK
  <1>5. pc' \in [Workers -> Steps]
    BY DEF Extend, Goto, TypeOK, Steps
  <1> QED
    BY <1>3, <1>4, <1>5 DEF Extend, NoFault, TypeOK, world

Accounts == [least : Int, most : Int, floor : Int, raced : BOOLEAN, credited : BOOLEAN]

LEMMA AccountedType ==
  ASSUME TypeOK, NEW w \in Workers, Kind(w) \in Funds, Value(w) \in Int
  PROVE  Accounted(w) \in Accounts
  <1>1. worth[Kind(w)] \in Accounts
    BY DEF TypeOK, Accounts
  <1> QED
    BY <1>1 DEF Accounted, Accounts

\* Usage.
LEMMA SpendTypes ==
  ASSUME TypeOK, NEW amount \in Charges, Spend(amount)
  PROVE  TypeOK'
  <1> DEFINE left == funds["balance"] - amount
             a == worth["balance"]
             b == [a EXCEPT !.least = @ - amount, !.most = @ - amount,
                            !.floor = AtMost(0, left)]
  <1>1. /\ amount \in Int /\ funds \in [Funds -> Int] /\ worth \in [Funds -> Accounts]
        /\ "balance" \in Funds
    BY RedeemAssumption DEF TypeOK, Accounts, Funds
  <1>2. left \in Int /\ a \in Accounts /\ AtMost(0, left) \in Int
    BY <1>1 DEF AtMost
  <1>3. funds' = [funds EXCEPT !["balance"] = left]
    BY DEF Spend
  <1>4. worth' = [worth EXCEPT !["balance"] = b]
    BY <1>1 DEF Spend, Accounts
  <1> DEFINE n == AtMost(0, left)
  <1>5. b \in Accounts
    <2>1. b = [a EXCEPT !.least = @ - amount, !.most = @ - amount, !.floor = n]
      OBVIOUS
    <2>2. a.least - amount \in Int /\ a.most - amount \in Int /\ n \in Int
      BY <1>1, <1>2 DEF Accounts
    <2> HIDE DEF a, b, n
    <2> QED
      BY <1>2, <2>1, <2>2 DEF Accounts
  <1> HIDE DEF b
  <1>6. funds' \in [Funds -> Int] /\ worth' \in [Funds -> Accounts]
    BY <1>1, <1>2, <1>3, <1>4, <1>5
  <1> QED
    BY <1>6 DEF Spend, TypeOK, world, Accounts

\* The four kinds of commit.
LEMMA CommitTypes ==
  ASSUME TypeOK, Paths, NEW w \in Workers, Commit(w)
  PROVE  TypeOK'
  <1>1. loc[w].code \in Codes /\ loc[w].exp \in 0..MaxExpires /\ Kind(w) \in Kinds
        /\ Value(w) \in Int
    BY CodeTypes DEF TypeOK, Paths, Path, Commit
  <1>2. Normalized(Value(w)) \in Nat
    BY <1>1, Arithmetic
  <1>3. [grants EXCEPT ![loc[w].code] = @ + 1] \in [Codes -> Nat]
    BY <1>1 DEF TypeOK
  <1>4. /\ funds' \in [Funds -> Int] /\ sub' \in [Rows -> Row]
        /\ grants' \in [Codes -> Nat] /\ paid' \in Nat
    <2>1. CASE Kind(w) \in Funds
      <3>1. Clamped(w) \in Int
        BY <1>1 DEF Clamped, TypeOK
      <3> QED
        BY <1>3, <2>1, <3>1 DEF Commit, CommitBenefit, TypeOK
    <2>2. CASE Kind(w) \notin Funds /\ Shortens(w)
      <3>1. loc[w].row \in Rows
        BY <2>2 DEF Commit, Paths, Path
      <3>2. /\ sub \in [Rows -> Row]
            /\ sub' = [sub EXCEPT ![loc[w].row].exp = loc[w].exp,
                                 ![loc[w].row].status = IF loc[w].wake THEN "expired" ELSE @]
        BY <2>2 DEF Commit, CommitBenefit, TypeOK
      <3>3. sub' \in [Rows -> Row]
        BY <1>1, <3>1, <3>2, WriteRow
      <3> QED
        BY <1>3, <2>2, <3>3 DEF Commit, CommitBenefit, TypeOK
    <2>3. CASE Kind(w) \notin Funds /\ ~Shortens(w) /\ Creates(w)
      <3>1. sub' \in [Rows -> Row]
        BY <1>1, <2>3, CreatedRow DEF Commit, CommitBenefit
      <3> QED
        BY <1>2, <1>3, <2>3, <3>1 DEF Commit, CommitBenefit, TypeOK
    <2>4. CASE Kind(w) \notin Funds /\ ~Shortens(w) /\ ~Creates(w)
      BY <2>4 DEF Commit, CommitBenefit, TypeOK
    <2> QED
      BY <2>1, <2>2, <2>3, <2>4
  <1>5. /\ pc' \in [Workers -> Steps] /\ redeemed' \in [Codes -> Nat]
        /\ code' \in [Codes -> {"unused", "used", "disabled", "expired", "deleted"}]
    BY <1>1 DEF Commit, Goto, TypeOK, Steps
  <1>6. worth' \in [Funds -> Accounts]
    <2>1. worth \in [Funds -> Accounts]
      BY DEF TypeOK, Accounts
    <2>2. CASE Kind(w) \in Funds
      <3>1. worth' = [worth EXCEPT ![Kind(w)] = Accounted(w)]
        BY <2>2 DEF Commit, CommitBenefit
      <3>2. Accounted(w) \in Accounts
        BY <1>1, <2>2, AccountedType
      <3> QED
        BY <2>1, <2>2, <3>1, <3>2
    <2>3. CASE Kind(w) \notin Funds
      BY <2>1, <2>3 DEF Commit, CommitBenefit
    <2> QED
      BY <2>2, <2>3
  <1> QED
    BY <1>4, <1>5, <1>6 DEF Commit, NoFault, TypeOK, world, Accounts

Ops == {"idle", "enable", "disable", "expire", "assign", "adjust", "wake"}
Adms == [op : Ops, code : Codes \cup {NoCode}, row : Rows \cup {NoRow},
         exp : 0..MaxExpires, days : Int, wake : BOOLEAN]

LEMMA NoAdmType == NoAdm \in Adms /\ NoAdm.op = "idle"
  BY RedeemAssumption DEF NoAdm, Adms, Ops, NoRow

\* The administrators' operations begin ...
LEMMA EditTypes ==
  ASSUME TypeOK, AdminPath, NEW op \in Ops \ {"idle"}, NEW record \in Adms, Edit(op, record),
         op \in {"enable", "disable", "expire"} => record.code \in Codes,
         op \in {"adjust", "wake"} => record.row \in Rows
  PROVE  /\ TypeOK' /\ AdminPath'
         /\ adm' = [record EXCEPT !.op = op]
         /\ UNCHANGED <<store, lock, pc, loc, now, faults, ghosts>>
  <1>1. adm' \in Adms /\ AdminPath'
    BY DEF Edit, Adms, AdminPath
  <1>2. edits' \in 0..MaxEdits
    BY RedeemAssumption DEF Edit, TypeOK
  <1> QED
    BY <1>1, <1>2 DEF TypeOK, Edit, rest, store, ghosts, Adms, Ops

CheckStep ==
    \/ CheckAssign
    \/ \E c \in Codes : CheckCode(c)
    \/ \E r \in Rows, d \in Adjustments : CheckAdjust(r, d)

LEMMA CheckTypes ==
  ASSUME TypeOK, AdminPath, CheckStep
  PROVE  /\ TypeOK' /\ AdminPath'
         /\ UNCHANGED <<store, lock, pc, loc, now, faults, ghosts>>
  <1> USE NoAdmType, RedeemAssumption
  <1>1. CASE CheckAssign
    <2> DEFINE e == AtMost(now + DefaultDays, MaxExpires)
    <2>1. e \in 0..MaxExpires
      BY DEF TypeOK, AtMost
    <2>2. Edit("assign", [NoAdm EXCEPT !.exp = e])
      BY <1>1 DEF CheckAssign
    <2> HIDE DEF e
    <2>3. [NoAdm EXCEPT !.exp = e] \in Adms /\ "assign" \in Ops \ {"idle"}
      BY <2>1 DEF Adms, Ops
    <2> QED
      BY <2>2, <2>3, EditTypes
  <1>2. ASSUME NEW c \in Codes, CheckCode(c)
        PROVE  /\ TypeOK' /\ AdminPath'
               /\ UNCHANGED <<store, lock, pc, loc, now, faults, ghosts>>
    <2>1. PICK op \in {"enable", "disable", "expire"} : Edit(op, [NoAdm EXCEPT !.code = c])
      BY <1>2 DEF CheckCode
    <2>2. /\ [NoAdm EXCEPT !.code = c] \in Adms /\ op \in Ops \ {"idle"}
          /\ [NoAdm EXCEPT !.code = c].code = c /\ op \notin {"adjust", "wake"}
      BY DEF Adms, Ops
    <2> QED
      BY <2>1, <2>2, EditTypes
  <1>3. ASSUME NEW r \in Rows, NEW d \in Adjustments, CheckAdjust(r, d)
        PROVE  /\ TypeOK' /\ AdminPath'
               /\ UNCHANGED <<store, lock, pc, loc, now, faults, ghosts>>
    <2> DEFINE e == Prolonged(sub[r].exp, d)
               b == sub[r].status = "expired"
               x == [NoAdm EXCEPT !.row = r, !.exp = e, !.days = d, !.wake = b]
    <2>1. e \in 0..MaxExpires /\ d \in Int /\ b \in BOOLEAN
      <3>1. sub[r].exp \in 0..MaxExpires /\ now \in 0..MaxNow /\ d \in Int
        BY DEF TypeOK, Row
      <3> QED
        BY <1>3, <3>1 DEF CheckAdjust, Prolonged, AtMost
    <2>2. Edit("adjust", x)
      BY <1>3 DEF CheckAdjust
    <2> HIDE DEF e, b
    <2>3. /\ x \in Adms /\ "adjust" \in Ops \ {"idle"}
          /\ x.row = r /\ "adjust" \notin {"enable", "disable", "expire"}
      BY <2>1 DEF Adms, Ops
    <2> HIDE DEF x
    <2> QED
      BY <2>2, <2>3, EditTypes
  <1> QED
    BY <1>1, <1>2, <1>3 DEF CheckStep

\* ... and end.
LEMMA OutsideTypes ==
  ASSUME TypeOK, AdminPath, Outside
  PROVE  TypeOK' /\ AdminPath'
  <1> USE NoAdmType, RedeemAssumption
  <1>0. /\ sub \in [Rows -> Row] /\ adm \in Adms
        /\ pc \in [Workers -> Steps] /\ now \in 0..MaxNow /\ edits \in 0..MaxEdits
        /\ paid \in Nat /\ faults \in 0..MaxFaults
    BY DEF TypeOK, Adms, Ops
  <1>1. CASE CheckStep
    BY <1>1, CheckTypes
  <1>2. CASE WriteCode
    <2>1. adm.code \in Codes /\ adm' = NoAdm
      BY <1>2 DEF WriteCode, AdminPath
    <2>2. /\ code' \in [Codes -> {"unused", "used", "disabled", "expired", "deleted"}]
          /\ revived' \in [Codes -> Nat]
      BY <1>2, <2>1 DEF WriteCode, TypeOK
    <2> QED
      BY <1>2, <2>1, <2>2 DEF WriteCode, TypeOK, AdminPath, rest, Adms, Ops
  <1>10. ASSUME NEW c \in Codes, DeleteCode(c)
         PROVE  TypeOK' /\ AdminPath'
    <2>1. /\ code' \in [Codes -> {"unused", "used", "disabled", "expired", "deleted"}]
          /\ edits' \in 0..MaxEdits
      BY <1>0, <1>10 DEF DeleteCode, TypeOK
    <2> QED
      BY <1>10, <2>1 DEF DeleteCode, TypeOK, AdminPath, rest
  <1>3. CASE Assign
    <2>1. sub' \in [Rows -> Row] /\ paid' \in Nat
      BY <1>0, <1>3, CreatedRow DEF Assign, Adms
    <2> QED
      BY <1>3, <2>1 DEF Assign, TypeOK, AdminPath, rest, admRest, Adms, Ops
  <1>4. CASE Adjust
    <2>1. adm.row \in Rows /\ adm.exp \in 0..MaxExpires
      BY <1>0, <1>4 DEF Adjust, AdminPath, Adms
    <2>2. sub' \in [Rows -> Row]
      BY <1>0, <1>4, <2>1, WriteRow DEF Adjust, WriteTerm
    <2>3. paid' \in Nat
      BY <1>0, <1>4 DEF Adjust, Adms
    <2>4. adm' \in Adms /\ AdminPath'
      BY <1>0, <1>4, <2>1 DEF Adjust, Adms, Ops, AdminPath
    <2> QED
      BY <1>4, <2>2, <2>3, <2>4 DEF Adjust, TypeOK, rest, admRest, Adms, Ops
  <1>5. CASE Wake
    <2>1. adm.row \in Rows
      BY <1>5 DEF Wake, AdminPath
    <2>2. sub[adm.row].exp \in 0..MaxExpires
      BY <1>0, <2>1 DEF Row
    <2>3. sub' \in [Rows -> Row]
      <3>1. CASE WriteTerm(adm.row, sub[adm.row].exp, TRUE)
        BY <1>0, <2>1, <2>2, <3>1, WriteRow DEF WriteTerm
      <3>2. CASE UNCHANGED sub
        BY <1>0, <3>2
      <3> QED
        BY <1>5, <3>1, <3>2 DEF Wake
    <2>4. faults' \in 0..MaxFaults
      <3>1. Fault \/ NoFault
        BY <1>5 DEF Wake
      <3> QED
        BY <1>0, <3>1 DEF Fault, NoFault
    <2> QED
      BY <1>5, <2>3, <2>4 DEF Wake, TypeOK, AdminPath, ghosts, Adms, Ops
  <1>6. ASSUME NEW r \in Rows, Revoke(r)
        PROVE  TypeOK' /\ AdminPath'
    <2>1. sub' \in [Rows -> Row]
      BY <1>0, <1>6 DEF Revoke, Row
    <2>2. edits' \in 0..MaxEdits
      BY <1>0, <1>6 DEF Revoke
    <2> QED
      BY <1>6, <2>1, <2>2 DEF Revoke, TypeOK, AdminPath, rest, admRest
  <1>7. CASE ExpirySweep
    <2>1. ASSUME NEW r \in Rows
          PROVE  (IF sub[r].live /\ sub[r].exp <= now
                  THEN [sub[r] EXCEPT !.status = "expired"] ELSE sub[r]) \in Row
      <3>1. sub[r] \in Row
        BY <1>0
      <3> QED
        BY <3>1 DEF Row
    <2>2. sub' \in [Rows -> Row]
      BY <1>7, <2>1 DEF ExpirySweep
    <2> QED
      BY <1>7, <2>2 DEF ExpirySweep, TypeOK, AdminPath, rest, admRest
  <1>8. CASE Tick
    <2>1. now' \in 0..MaxNow
      BY <1>0, <1>8 DEF Tick
    <2> QED
      BY <1>8, <2>1 DEF Tick, TypeOK, AdminPath, rest, admRest
  <1>9. CASE \E c \in Codes : LockExpire(c)
    BY <1>9 DEF LockExpire, TypeOK, AdminPath, store, world, ghosts
  <1> QED
    BY <1>1, <1>2, <1>3, <1>4, <1>5, <1>6, <1>7, <1>8, <1>9, <1>10
    DEF Outside, AdminStep, CheckStep

\* How a request moves, and what becomes of its `loc`.
Moved(w, from, to) == pc[w] = from /\ pc'[w] = to /\ loc'[w].code = loc[w].code
Onward(w, from, to) == Moved(w, from, to) /\ loc'[w] = loc[w]

Ended(w) ==
    /\ pc'[w] \in {"release", "idle"} /\ pc[w] # "idle"
    /\ pc'[w] = "release" => loc'[w] = loc[w]
    /\ pc'[w] = "idle" => loc'[w] = NoLoc

QuietMove(w) ==
    \/ /\ pc[w] = "idle" /\ pc'[w] = "read"
       /\ loc'[w].code \in Codes /\ loc'[w].row = loc[w].row
    \/ Moved(w, "read", "begin") /\ loc'[w].row = loc[w].row
    \/ Onward(w, "begin", "use")
    \/ /\ Onward(w, "use", AfterUse(w))
       /\ code[loc[w].code] = "unused" /\ ~CodeLocked(loc[w].code)
    \/ Onward(w, "fund", "commit")
    \/ /\ Moved(w, "find", "extend")
       /\ \E r \in Rows : /\ loc'[w].row = r
                          /\ loc'[w].exp = Prolonged(sub[r].exp, Normalized(Value(w)))
    \/ /\ Moved(w, "find", "commit") /\ loc'[w].row = loc[w].row
       /\ loc'[w].exp = AtMost(now + Normalized(Value(w)), MaxExpires)
    \/ Onward(w, "reread", "commit")
    \/ /\ Moved(w, "reduce", "cut")
       /\ \E r \in Rows : /\ loc'[w].row = r
                          /\ loc'[w].exp \in {now, Shortened(sub[r].exp, 0 - Value(w))}
    \/ Onward(w, "cut", "commit")
    \/ Ended(w)

LEMMA QuietMoves ==
  ASSUME TypeOK, NEW w \in Workers, Quiet(w)
  PROVE  QuietMove(w)
  <1>0. pc \in [Workers -> Steps] /\ loc \in [Workers -> Locs] /\ loc[w] \in Locs
    BY DEF TypeOK, Locs
  <1> USE <1>0 DEF Goto, QuietMove, Moved, Onward, Locs
  <1>1. CASE \E c \in Codes : Start(w, c)
    BY <1>1 DEF Start
  <1>2. CASE Read(w)
    BY <1>2 DEF Read, Ended
  <1>3. CASE BeginTx(w)
    BY <1>3 DEF BeginTx
  <1>4. CASE Use(w)
    BY <1>4 DEF Use, Ended
  <1>5. CASE Fund(w)
    BY <1>5 DEF Fund
  <1>6. CASE Find(w)
    <2>1. CASE Goto(w, "release")
      BY <1>6, <2>1 DEF Find, Ended
    <2>2. CASE Goto(w, "commit") /\ Live = {}
      BY <1>6, <2>2 DEF Find
    <2>3. ASSUME NEW r \in Live, Goto(w, "extend"),
                 loc' = [loc EXCEPT ![w].row = r,
                                    ![w].exp = Prolonged(sub[r].exp, Normalized(Value(w))),
                                    ![w].wake = sub[r].exp <= now \/ sub[r].status # "active"]
          PROVE  QuietMove(w)
      <3>1. pc[w] = "find" /\ r \in Rows
        BY <1>6 DEF Find, Live
      <3> DEFINE e == Prolonged(sub[r].exp, Normalized(Value(w)))
                 b == sub[r].exp <= now \/ sub[r].status # "active"
      <3>2. loc' = [loc EXCEPT ![w].row = r, ![w].exp = e, ![w].wake = b]
        BY <2>3
      <3> HIDE DEF e, b
      <3>3. loc'[w].row = r /\ loc'[w].exp = e /\ loc'[w].code = loc[w].code
        BY <3>2
      <3> QED
        BY <2>3, <3>1, <3>3 DEF e
    <2> QED
      BY <1>6, <2>1, <2>2, <2>3 DEF Find
  <1>7. CASE Reread(w)
    BY <1>7 DEF Reread, Ended
  <1>8. CASE Reduce(w)
    <2>1. CASE Goto(w, "release")
      BY <1>8, <2>1 DEF Reduce, Ended
    <2>2. ASSUME NEW r \in Live, NEW b, NEW e \in {now, Shortened(sub[r].exp, 0 - Value(w))},
                 Goto(w, "cut"),
                 loc' = [loc EXCEPT ![w].row = r, ![w].wake = b, ![w].exp = e]
          PROVE  QuietMove(w)
      <3>1. pc[w] = "reduce" /\ r \in Rows
        BY <1>8, <2>2 DEF Reduce, Live
      <3>2. loc'[w].row = r /\ loc'[w].exp = e /\ loc'[w].code = loc[w].code
        BY <2>2
      <3> QED
        BY <2>2, <3>1, <3>2
    <2> HIDE DEF QuietMove, Goto, Locs
    <2>3. ASSUME NEW r \in Live, Goto(w, "cut"),
                 loc' = [loc EXCEPT ![w].row = r,
                    ![w].wake = (IF sub[r].exp > now THEN sub[r].exp - now ELSE 0) <= 0 - Value(w),
                    ![w].exp = IF (IF sub[r].exp > now THEN sub[r].exp - now ELSE 0) <= 0 - Value(w)
                               THEN now ELSE Shortened(sub[r].exp, 0 - Value(w))]
          PROVE  QuietMove(w)
      <3> DEFINE b == (IF sub[r].exp > now THEN sub[r].exp - now ELSE 0) <= 0 - Value(w)
                 e == IF b THEN now ELSE Shortened(sub[r].exp, 0 - Value(w))
      <3>1. loc' = [loc EXCEPT ![w].row = r, ![w].wake = b, ![w].exp = e]
        BY <2>3
      <3>2. e \in {now, Shortened(sub[r].exp, 0 - Value(w))}
        OBVIOUS
      <3> HIDE DEF b, e
      <3> QED
        BY <2>2, <2>3, <3>1, <3>2
    <2> QED
      BY <1>8, <2>1, <2>3 DEF Reduce
  <1>9. CASE Cut(w)
    BY <1>9 DEF Cut
  <1>10. CASE Release(w) \/ Crash(w)
    BY <1>10 DEF Release, Crash, Ended
  <1>11. CASE Abort(w) \/ GiveUp(w)
    BY <1>11 DEF Abort, GiveUp, Ended
  <1> QED
    BY <1>1, <1>2, <1>3, <1>4, <1>5, <1>6, <1>7, <1>8, <1>9, <1>10, <1>11 DEF Quiet

\* A request follows its path.
LEMMA PathStays ==
  ASSUME TypeOK, Paths, [Next]_vars
  PROVE  TypeOK' /\ Paths'
  <1>1. ASSUME NEW w \in Workers, Quiet(w) \/ Extend(w) \/ Commit(w)
        PROVE  TypeOK' /\ Paths'
    <2>0. /\ pc \in [Workers -> Steps] /\ loc \in [Workers -> Locs]
          /\ Path(w) /\ loc[w] \in Locs
      BY DEF TypeOK, Paths, Locs
    <2>1. TypeOK' /\ UNCHANGED adm
      BY <1>1, QuietTypes, ExtendTypes, CommitTypes, QuietFrame DEF Extend, Commit, world
    <2>2. Path(w)'
      <3> USE <2>0 DEF Path, Kind, Value, Shortens
      <3>1. CASE Extend(w) \/ Commit(w)
        BY <3>1 DEF Extend, Commit, Goto
      <3>2. CASE QuietMove(w)
        <4>1. CASE pc[w] = "use" /\ ~Ended(w)
          <5>1. loc[w].code \in Codes /\ Kind(w) \in Kinds /\ Value(w) \in Int
            BY <4>1, CodeTypes
          <5> QED
            BY <3>2, <4>1, <5>1 DEF QuietMove, Moved, Onward, AfterUse, Kinds, Funds
        <4>2. CASE Ended(w)
          <5>1. pc'[w] = "idle" => loc'[w].row = NoRow
            BY <4>2 DEF Ended, NoLoc
          <5>2. pc'[w] \in {"idle", "release"} /\ (pc'[w] = "release" => loc'[w].code \in Codes)
            BY <4>2 DEF Ended
          <5> QED
            BY <5>1, <5>2
        <4>3. CASE pc[w] # "use" /\ ~Ended(w)
          <5>1. pc[w] # "idle" => Value(w) \in Int
            BY CodeTypes
          <5> QED
            BY <3>2, <4>3, <5>1 DEF QuietMove, Moved, Onward, Funds
        <4> QED
          BY <4>1, <4>2, <4>3
      <3> QED
        BY <1>1, <3>1, <3>2, QuietMoves
    <2>3. ASSUME NEW v \in Workers, v # w
          PROVE  Path(v)'
      BY <1>1, <2>3, OthersStay DEF Paths, Path, Kind, Value, Shortens
    <2> QED
      BY <2>1, <2>2, <2>3 DEF Paths, AdminPath
  <1>2. CASE Outside
    BY <1>2, OutsideTypes, OutsideFrame DEF Paths, Path, Kind, Value, Shortens
  <1>3. CASE Still
    <2>1. TypeOK'
      <3>1. CASE UNCHANGED vars
        BY <3>1 DEF vars, TypeOK
      <3> QED
        BY <1>3, <3>1, SpendTypes DEF Still
    <2> QED
      BY <1>3, <2>1
      DEF Still, others, world, Paths, AdminPath, Path, Kind, Value, Shortens
  <1> QED
    BY <1>1, <1>2, <1>3, NextCases

-----------------------------------------------------------------------------
(* The codes.                                                              *)

\* Writing a status that a request's mark excludes.
LEMMA MarksStay ==
  ASSUME TypeOK, Paths, Marks, [Next]_vars
  PROVE  Marks'
  <1>0. pc \in [Workers -> Steps] /\ loc \in [Workers -> Locs]
    BY DEF TypeOK, Locs
  <1>1. ASSUME NEW w \in Workers, QuietMove(w), Quiet(w)
        PROVE  Marks'
    <2>1. UNCHANGED code
      BY <1>1, QuietFrame DEF store
    <2>2. CASE pc'[w] \in Marked
      <3>1. loc'[w].code = loc[w].code
        BY <1>1, <2>2 DEF QuietMove, Moved, Onward, Ended, Marked
      <3>2. \/ pc[w] \in Marked
            \/ code[loc[w].code] = "unused" /\ ~CodeLocked(loc[w].code)
        BY <1>1, <2>2 DEF QuietMove, Moved, Onward, Ended, Marked
      <3> QED
        BY <1>1, <2>1, <3>1, <3>2, OthersStay DEF Marks, CodeLocked
    <2>3. CASE pc'[w] \notin Marked
      BY <1>1, <2>1, <2>3, OthersStay DEF Marks
    <2> QED
      BY <2>2, <2>3
  <1>2. ASSUME NEW w \in Workers, Extend(w)
        PROVE  Marks'
    <2>1. UNCHANGED <<code, loc>> /\ pc[w] \in Marked /\ pc'[w] \in Marked
      BY <1>0, <1>2 DEF Extend, Goto, Marked
    <2> QED
      BY <1>2, <2>1, OthersStay DEF Marks
  <1>3. ASSUME NEW w \in Workers, Commit(w)
        PROVE  Marks'
    <2>1. /\ UNCHANGED loc /\ pc[w] \in Marked /\ pc'[w] \notin Marked
          /\ code' = [code EXCEPT ![loc[w].code] = "used"]
      BY <1>0, <1>3 DEF Commit, Goto, Marked
    <2>2. ASSUME NEW v \in Workers, v # w, pc[v] \in Marked
          PROVE  code'[loc[v].code] = "unused"
      <3>1. loc[v].code # loc[w].code /\ code[loc[v].code] = "unused"
        BY <2>1, <2>2 DEF Marks
      <3>2. loc[v].code \in Codes
        BY <2>2 DEF Paths, Path, Marked
      <3> QED
        BY <2>1, <3>1, <3>2 DEF TypeOK
    <2> QED
      BY <1>3, <2>1, <2>2, OthersStay DEF Marks
  <1>4. CASE Outside
    <2>1. UNCHANGED <<pc, loc>>
      BY <1>4, OutsideFrame
    <2>2. CASE UNCHANGED code
      BY <2>1, <2>2 DEF Marks
    <2>3. CASE WriteCode
      <3>1. ASSUME NEW w \in Workers, pc[w] \in Marked
            PROVE  code'[loc[w].code] = code[loc[w].code]
        <4>1. loc[w].code # adm.code /\ loc[w].code \in Codes
          BY <2>3, <3>1 DEF WriteCode, CodeLocked, Paths, Path, Marked
        <4> QED
          BY <2>3, <4>1 DEF WriteCode, TypeOK
      <3> QED
        BY <2>1, <3>1 DEF Marks
    <2>5. ASSUME NEW c \in Codes, DeleteCode(c)
          PROVE  Marks'
      <3>1. ASSUME NEW w \in Workers, pc[w] \in Marked
            PROVE  code'[loc[w].code] = code[loc[w].code]
        <4>1. loc[w].code # c /\ loc[w].code \in Codes
          BY <2>5, <3>1 DEF DeleteCode, CodeLocked, Paths, Path, Marked
        <4> QED
          BY <2>5, <4>1 DEF DeleteCode, TypeOK
      <3> QED
        BY <2>1, <3>1 DEF Marks
    <2>4. UNCHANGED code \/ WriteCode \/ \E c \in Codes : DeleteCode(c)
      BY <1>4 DEF Outside, LockExpire, AdminStep, ExpirySweep, Tick, Assign, Adjust, Wake,
         CheckAssign, CheckCode, Edit, Revoke, CheckAdjust, admRest, store
    <2> QED
      BY <2>2, <2>3, <2>4, <2>5
  <1>5. CASE Still
    BY <1>5 DEF Still, others, Marks
  <1> QED
    BY <1>1, <1>2, <1>3, <1>4, <1>5, NextCases, QuietMoves

\* An unused code becomes used when it is counted, and usable again when the
\* edit is counted.
LEMMA CountsStay ==
  ASSUME TypeOK, Paths, Marks, Counts, [Next]_vars
  PROVE  Counts'
  <1>1. ASSUME NEW w \in Workers, Quiet(w) \/ Extend(w)
        PROVE  Counts'
    <2>1. UNCHANGED <<code, redeemed, revived>>
      BY <1>1, QuietFrame DEF store, ghosts, Extend
    <2> QED
      BY <2>1 DEF Counts
  <1>2. ASSUME NEW w \in Workers, Commit(w)
        PROVE  Counts'
    <2>1. /\ loc[w].code \in Codes /\ code[loc[w].code] = "unused"
          /\ code' = [code EXCEPT ![loc[w].code] = "used"]
          /\ redeemed' = [redeemed EXCEPT ![loc[w].code] = @ + 1]
          /\ UNCHANGED revived
      BY <1>2 DEF Commit, Paths, Path, Marks, Marked
    <2> QED
      BY <2>1 DEF Counts, TypeOK
  <1>3. CASE Outside
    <2>1. UNCHANGED redeemed
      BY <1>3, OutsideFrame
    <2>2. CASE UNCHANGED <<code, revived>>
      BY <2>1, <2>2 DEF Counts
    <2>3. CASE WriteCode
      <3>1. adm.code \in Codes
        BY <2>3 DEF WriteCode, AdminPath, Paths
      <3> QED
        BY <2>1, <2>3, <3>1 DEF WriteCode, Counts, TypeOK
    <2>5. ASSUME NEW c \in Codes, DeleteCode(c)
          PROVE  Counts'
      BY <2>1, <2>5 DEF DeleteCode, Counts, TypeOK
    <2>4. UNCHANGED <<code, revived>> \/ WriteCode \/ \E c \in Codes : DeleteCode(c)
      BY <1>3 DEF Outside, LockExpire, AdminStep, ExpirySweep, Tick, Assign, Adjust, Wake,
         CheckAssign, CheckCode, Edit, Revoke, CheckAdjust, admRest, store, ghosts
    <2> QED
      BY <2>2, <2>3, <2>4, <2>5
  <1>4. CASE Still
    BY <1>4 DEF Still, others, Counts
  <1> QED
    BY <1>1, <1>2, <1>3, <1>4, NextCases

-----------------------------------------------------------------------------
(* The benefits.                                                           *)

LEMMA GrantsStay ==
  ASSUME TypeOK, Paths, Marks, Grants, [Next]_vars
  PROVE  Grants'
  <1>0. pc \in [Workers -> Steps] /\ loc \in [Workers -> Locs]
    BY DEF TypeOK, Locs
  <1> USE DEF Kind, Value, Shortens, Creates
  <1>1. ASSUME NEW w \in Workers, QuietMove(w), Quiet(w)
        PROVE  Grants'
    <2>1. UNCHANGED <<redeemed, grants>>
      BY <1>1, QuietFrame DEF ghosts
    <2>2. Extended(w)' => Extended(w) /\ loc'[w].code = loc[w].code
      <3>1. pc'[w] = "commit" =>
               /\ loc'[w].code = loc[w].code /\ loc'[w].row = loc[w].row
               /\ pc[w] \in {"fund", "find", "reread", "cut"}
        BY <1>1 DEF QuietMove, Moved, Onward, Ended, AfterUse
      <3>2. pc'[w] # "reread"
        BY <1>1 DEF QuietMove, Moved, Onward, Ended, AfterUse
      <3> QED
        BY <3>1, <3>2 DEF Extended, Paths, Path, Funds
    <2>3. ASSUME NEW v \in Workers, Extended(v)'
          PROVE  (redeemed[loc[v].code] < grants[loc[v].code])'
      <3>1. Extended(v) /\ loc'[v].code = loc[v].code
        BY <1>1, <2>2, <2>3, OthersStay DEF Extended
      <3> QED
        BY <2>1, <3>1 DEF Grants
    <2> QED
      BY <2>1, <2>3 DEF Grants, GrantedAsRedeemed
  <1>2. ASSUME NEW w \in Workers, Extend(w)
        PROVE  Grants'
    <2>1. /\ loc[w].code \in Codes /\ KindOf[loc[w].code] \notin Funds
          /\ grants' = [grants EXCEPT ![loc[w].code] = @ + 1]
          /\ UNCHANGED <<redeemed, loc>>
      BY <1>2 DEF Extend, Paths, Path, Funds
    <2>2. GrantedAsRedeemed'
      BY <2>1 DEF Grants, GrantedAsRedeemed, TypeOK
    <2>3. ASSUME NEW v \in Workers, Extended(v)'
          PROVE  (redeemed[loc[v].code] < grants[loc[v].code])'
      <3>1. v = w \/ Extended(v)
        BY <1>2, <2>3, OthersStay DEF Extended
      <3>2. CASE v = w
        BY <2>1, <3>2 DEF Grants, GrantedAsRedeemed, TypeOK
      <3>3. CASE Extended(v)
        <4>1. loc[v].code \in Codes /\ redeemed[loc[v].code] < grants[loc[v].code]
          BY <3>3 DEF Extended, Paths, Path, Grants
        <4> QED
          BY <2>1, <4>1 DEF TypeOK
      <3> QED
        BY <3>1, <3>2, <3>3
    <2> QED
      BY <2>2, <2>3 DEF Grants

  <1>3. ASSUME NEW w \in Workers, Commit(w)
        PROVE  Grants'
    <2> DEFINE c == loc[w].code
    <2>1. /\ c \in Codes /\ UNCHANGED loc /\ pc[w] = "commit" /\ pc'[w] = "release"
          /\ redeemed' = [redeemed EXCEPT ![c] = @ + 1]
      BY <1>0, <1>3 DEF Commit, Goto, Paths, Path
    <2>2. Kind(w) \in Kinds /\ Shortens(w) \in BOOLEAN /\ Creates(w) \in BOOLEAN
      BY <2>1, CodeTypes
    <2>3. \/ grants' = [grants EXCEPT ![c] = @ + 1]
          \/ Extended(w) /\ UNCHANGED grants
      BY <1>3, <2>1, <2>2 DEF Commit, CommitBenefit, Extended, Kinds
    <2>4. Extended(w) => redeemed[c] < grants[c] /\ KindOf[c] \notin Funds
      BY <2>1 DEF Grants, Extended, Funds
    <2> HIDE DEF c
    <2>5. GrantedAsRedeemed'
      BY <2>1, <2>3, <2>4 DEF Grants, GrantedAsRedeemed, TypeOK
    <2>6. ASSUME NEW v \in Workers, Extended(v)'
          PROVE  (redeemed[loc[v].code] < grants[loc[v].code])'
      <3>1. v # w /\ Extended(v)
        BY <1>3, <2>1, <2>6, OthersStay DEF Extended
      <3>2. loc[v].code # c /\ loc[v].code \in Codes /\ redeemed[loc[v].code] < grants[loc[v].code]
        BY <2>1, <3>1 DEF c, Extended, Marks, Marked, Paths, Path, Grants
      <3> QED
        BY <2>1, <2>3, <3>2 DEF TypeOK
    <2> QED
      BY <2>5, <2>6 DEF Grants
  <1>4. CASE Outside
    BY <1>4, OutsideFrame DEF Grants, GrantedAsRedeemed, Extended
  <1>5. CASE Still
    BY <1>5 DEF Still, others, Grants, GrantedAsRedeemed, Extended
  <1> QED
    BY <1>1, <1>2, <1>3, <1>4, <1>5, NextCases, QuietMoves

-----------------------------------------------------------------------------
(* The terms.                                                              *)

\* What is granted and the time only grow.
LEMMA LimitGrows ==
  ASSUME TypeOK, Paths, [Next]_vars
  PROVE  now + paid <= now' + paid'
  <1>0. now \in Nat /\ paid \in Nat /\ now' \in Nat /\ paid' \in Nat
    BY PathStays DEF TypeOK
  <1>1. ASSUME NEW w \in Workers, Quiet(w)
        PROVE  now + paid <= now' + paid'
    <2>1. UNCHANGED <<now, paid>>
      BY <1>1, QuietFrame DEF world, ghosts
    <2> QED
      BY <1>0, <2>1
  <1>2. ASSUME NEW w \in Workers, Extend(w) \/ Commit(w)
        PROVE  now + paid <= now' + paid'
    <2>1. Normalized(Value(w)) \in Nat
      BY <1>2, CodeTypes, Arithmetic DEF Paths, Path, Extend, Commit
    <2> HIDE DEF Normalized
    <2> QED
      BY <1>0, <1>2, <2>1 DEF Extend, Commit, CommitBenefit, world
  <1>3. CASE Outside
    <2>1. CASE Tick
      BY <1>0, <2>1 DEF Tick
    <2>2. CASE Assign
      <3>1. UNCHANGED now /\ (paid' = paid \/ paid' = paid + DefaultDays)
        BY <2>2 DEF Assign
      <3>2. DefaultDays \in Nat
        BY RedeemAssumption
      <3>3. CASE paid' = paid
        BY <1>0, <3>1, <3>3
      <3>4. CASE paid' = paid + DefaultDays
        BY <1>0, <3>1, <3>2, <3>4
      <3> QED
        BY <3>1, <3>3, <3>4
    <2>3. CASE Adjust
      BY <1>0, <2>3 DEF Adjust, TypeOK
    <2>4. CASE UNCHANGED <<now, paid>>
      BY <1>0, <2>4
    <2> QED
      BY <1>3, <2>1, <2>2, <2>3, <2>4 DEF Outside, LockExpire, AdminStep, ExpirySweep,
         WriteCode, Wake, CheckAssign, DeleteCode, CheckCode, Edit, Revoke, CheckAdjust,
         world, ghosts
  <1>4. CASE Still
    BY <1>0, <1>4 DEF Still, others, world
  <1> QED
    BY <1>0, <1>1, <1>2, <1>3, <1>4, NextCases

LEMMA DueTypes ==
  ASSUME TypeOK, Paths, NEW w \in Workers, pc[w] # "idle"
  PROVE  /\ loc[w].code \in Codes /\ Value(w) \in Int /\ Due(w) \in Nat
         /\ Normalized(Value(w)) \in Nat
         /\ loc[w].exp \in 0..MaxExpires
  <1>1. loc[w].code \in Codes /\ loc[w].exp \in 0..MaxExpires
    BY DEF TypeOK, Paths, Path
  <1>2. Value(w) \in Int
    BY <1>1, CodeTypes
  <1> QED
    BY <1>1, <1>2, Arithmetic DEF Due

LEMMA LaterBound ==
  ASSUME NEW e \in Nat, NEW d \in Nat, NEW n \in Nat, NEW p \in Nat,
         NEW nn \in Nat, NEW pp \in Nat, e <= n + p + d, n + p <= nn + pp
  PROVE  e <= nn + pp + d
  OBVIOUS

LEMMA LaterTerm ==
  ASSUME NEW e \in Nat, NEW n \in Nat, NEW p \in Nat, NEW nn \in Nat, NEW pp \in Nat,
         e <= n + p, n + p <= nn + pp
  PROVE  e <= nn + pp
  OBVIOUS

\* Whoever does not move keeps his bound.
LEMMA WaitingTerm ==
  ASSUME TypeOK, Paths, Terms, [Next]_vars, NEW v \in Workers,
         pc'[v] = pc[v], loc'[v] = loc[v], Writes(v)'
  PROVE  loc'[v].exp <= now' + paid' + Due(v)'
  <1>0. Due(v)' = Due(v)
    BY DEF Due, Shortens, Kind, Value
  <1>1. Writes(v)
    BY DEF Writes, Shortens, Creates, Kind, Value
  <1>2. Due(v) \in Nat /\ loc[v].exp \in Nat
    BY <1>1, DueTypes DEF Writes
  <1>3. loc[v].exp <= now + paid + Due(v)
    BY <1>1 DEF Terms
  <1>4. now \in Nat /\ paid \in Nat /\ now' \in Nat /\ paid' \in Nat
    BY PathStays DEF TypeOK
  <1>5. now + paid <= now' + paid'
    BY LimitGrows
  <1>6. loc'[v].exp = loc[v].exp
    OBVIOUS
  <1>7. loc[v].exp <= now' + paid' + Due(v)
    BY <1>2, <1>3, <1>4, <1>5, LaterBound
  <1> QED
    BY <1>0, <1>6, <1>7

LEMMA AdminTermStays ==
  ASSUME TypeOK, Paths, Terms, [Next]_vars, UNCHANGED adm
  PROVE  AdminTerms'
  <1>1. now \in Nat /\ paid \in Nat /\ now' \in Nat /\ paid' \in Nat
    BY PathStays DEF TypeOK
  <1>2. adm.exp \in Nat /\ adm.days \in Int
    BY DEF TypeOK
  <1>3. now + paid <= now' + paid' /\ DefaultDays \in Nat
    BY LimitGrows, RedeemAssumption
  <1>4. adm.op = "assign" => adm.exp <= now' + paid' + DefaultDays
    BY <1>1, <1>2, <1>3, LaterBound DEF Terms, AdminTerms
  <1> DEFINE d == IF adm.days > 0 THEN adm.days ELSE 0
  <1>5. d \in Nat /\ (adm.op = "adjust" => adm.exp <= now + paid + d)
    BY <1>2 DEF Terms, AdminTerms
  <1> HIDE DEF d
  <1>6. adm.op = "adjust" => adm.exp <= now' + paid' + d
    BY <1>1, <1>2, <1>3, <1>5, LaterBound
  <1> QED
    BY <1>4, <1>6 DEF AdminTerms, d

\* A request computes a new expiry from the one it reads.
LEMMA QuietTerms ==
  ASSUME TypeOK, Paths, Terms, [Next]_vars, NEW w \in Workers, Quiet(w)
  PROVE  Terms'
  <1>0. /\ pc \in [Workers -> Steps] /\ loc \in [Workers -> Locs]
        /\ now \in Nat /\ paid \in Nat /\ Path(w)
        /\ \A r \in Rows : sub[r].exp \in 0..MaxExpires /\ sub[r].exp <= now + paid
    BY DEF TypeOK, Locs, Row, Paths, Terms
  <1>1. UNCHANGED <<sub, now, paid, adm>> /\ QuietMove(w)
    BY QuietFrame, QuietMoves DEF store, world, ghosts
  <1>2. ASSUME Writes(w)'
        PROVE  loc'[w].exp <= now + paid + Due(w)'
    <2>1. pc[w] # "idle" /\ loc'[w].code = loc[w].code
      BY <1>1, <1>2 DEF Writes, QuietMove, Moved, Onward, Ended
    <2>2. Due(w)' = Due(w) /\ Shortens(w)' = Shortens(w) /\ Kind(w)' = Kind(w) /\ Value(w)' = Value(w)
      BY <2>1 DEF Due, Shortens, Kind, Value
    <2>3. /\ loc[w].code \in Codes /\ Value(w) \in Int /\ Due(w) \in Nat
          /\ Normalized(Value(w)) \in Nat
      BY <2>1, DueTypes
    <2>4. CASE Moved(w, "find", "extend") /\
               \E r \in Rows : loc'[w].exp = Prolonged(sub[r].exp, Normalized(Value(w)))
      <3> DEFINE n == Normalized(Value(w))
      <3>1. PICK r \in Rows : loc'[w].exp = Prolonged(sub[r].exp, n)
        BY <2>4
      <3>2. Due(w) = n /\ n \in Int
        BY <1>0, <2>3, <2>4 DEF Moved, Path, Due, Shortens
      <3> HIDE DEF n
      <3>3. Prolonged(sub[r].exp, n) <= now + paid + n
        BY <1>0, <3>2, Arithmetic
      <3> QED
        BY <2>2, <3>1, <3>2, <3>3
    <2>5. CASE Moved(w, "find", "commit") /\
               loc'[w].exp = AtMost(now + Normalized(Value(w)), MaxExpires)
      <3>1. Due(w) = Normalized(Value(w))
        BY <1>0, <2>3, <2>5 DEF Moved, Path, Due, Shortens
      <3> QED
        BY <1>0, <2>2, <2>3, <2>5, <3>1, RedeemAssumption DEF AtMost
    <2>6. CASE Moved(w, "reduce", "cut") /\
               \E r \in Rows : loc'[w].exp \in {now, Shortened(sub[r].exp, 0 - Value(w))}
      <3>1. Due(w) = 0 /\ Value(w) < 0
        BY <1>0, <2>6 DEF Moved, Path, Due, Shortens
      <3> QED
        BY <1>0, <2>2, <2>3, <2>6, <3>1 DEF Shortened
    <2>7. CASE Onward(w, "cut", "commit")
      BY <2>2, <2>7 DEF Onward, Moved, Writes, Terms
    <2>8. CASE Onward(w, "fund", "commit") \/ Onward(w, "reread", "commit")
      BY <1>0, <1>2, <2>2, <2>3, <2>8, RedeemAssumption
      DEF Onward, Moved, Writes, Path, Creates, Shortens, Funds, NoRow, Rows
    <2> QED
      BY <1>1, <1>2, <2>4, <2>5, <2>6, <2>7, <2>8
      DEF Writes, QuietMove, Moved, Onward, Ended, AfterUse
  <1>3. ASSUME NEW v \in Workers, Writes(v)'
        PROVE  loc'[v].exp <= now' + paid' + Due(v)'
    BY <1>1, <1>2, <1>3, OthersStay, WaitingTerm
  <1> QED
    BY <1>0, <1>1, <1>3, AdminTermStays DEF Terms

\* An expiry is written when what it stands for is granted.
LEMMA GrantTerms ==
  ASSUME TypeOK, Paths, Terms, [Next]_vars, NEW w \in Workers, Extend(w) \/ Commit(w)
  PROVE  Terms'
  <1>0. /\ pc \in [Workers -> Steps] /\ sub \in [Rows -> Row]
        /\ now \in Nat /\ paid \in Nat /\ now' \in Nat /\ paid' \in Nat /\ Path(w)
        /\ \A r \in Rows : sub[r].exp \in Nat /\ sub[r].exp <= now + paid
    BY PathStays DEF TypeOK, Row, Paths, Terms
  <1>1. /\ UNCHANGED <<adm, now>> /\ pc'[w] \in {"reread", "release"} /\ pc[w] # "idle"
        /\ pc[w] \in {"extend", "commit"}
    BY <1>0 DEF Extend, Commit, Goto, world
  <1>2. /\ loc[w].code \in Codes /\ Value(w) \in Int /\ Due(w) \in Nat
        /\ Normalized(Value(w)) \in Nat /\ loc[w].exp \in 0..MaxExpires
    BY <1>1, DueTypes
  <1>3. ASSUME NEW q \in Rows
        PROVE  sub'[q].exp <= now' + paid'
    <2>0. sub[q].exp \in Nat /\ sub[q].exp <= now + paid
      BY <1>0
    <2>1. CASE UNCHANGED <<sub, paid>>
      BY <1>0, <1>1, <2>0, <2>1
    <2>2. CASE Extend(w)
      <3>1. loc[w].exp <= now + paid + Normalized(Value(w))
        BY <1>0, <1>2, <2>2 DEF Extend, Terms, Writes, Path, Due, Shortens
      <3>2. loc[w].row \in Rows
        BY <1>0, <2>2 DEF Extend, Path
      <3>3. sub'[q].exp \in {loc[w].exp, sub[q].exp}
        BY <1>0, <1>2, <2>2, <3>2, WrittenRow DEF Extend, WriteTerm
      <3>4. paid' = paid + Normalized(Value(w))
        BY <2>2 DEF Extend
      <3> QED
        BY <1>0, <1>1, <1>2, <2>0, <3>1, <3>3, <3>4
    <2>3. CASE Commit(w) /\ Kind(w) \notin Funds /\ Shortens(w)
      <3>1. loc[w].exp <= now + paid
        BY <1>0, <1>2, <2>3 DEF Commit, Terms, Writes, Due
      <3>2. loc[w].row \in Rows
        BY <1>0, <2>3 DEF Commit, Path
      <3>3. sub' = [sub EXCEPT ![loc[w].row].exp = loc[w].exp,
                        ![loc[w].row].status = IF loc[w].wake THEN "expired" ELSE @]
        BY <2>3 DEF Commit, CommitBenefit
      <3>4. sub'[q].exp \in {loc[w].exp, sub[q].exp}
        BY <1>0, <1>2, <3>2, <3>3, WrittenRow
      <3>5. paid' = paid
        BY <2>3 DEF Commit, CommitBenefit
      <3> QED
        BY <1>0, <1>1, <1>2, <2>0, <3>1, <3>4, <3>5
    <2>4. CASE Commit(w) /\ Kind(w) \notin Funds /\ ~Shortens(w) /\ Creates(w)
      <3>1. loc[w].exp <= now + paid + Normalized(Value(w))
        BY <1>0, <1>2, <2>4 DEF Commit, Terms, Writes, Due
      <3>2. CreateTerm(loc[w].exp) /\ paid' = paid + Normalized(Value(w))
        BY <2>4 DEF Commit, CommitBenefit
      <3>3. sub'[q].exp \in {loc[w].exp, sub[q].exp}
        BY <1>2, <3>2, CreatedRow
      <3> QED
        BY <1>0, <1>1, <1>2, <2>0, <3>1, <3>2, <3>3
    <2> QED
      BY <2>1, <2>2, <2>3, <2>4 DEF Commit, CommitBenefit
  <1>4. ASSUME NEW v \in Workers, Writes(v)'
        PROVE  loc'[v].exp <= now' + paid' + Due(v)'
    <2>1. v # w
      BY <1>1, <1>4 DEF Writes
    <2> QED
      BY <1>4, <2>1, OthersStay, WaitingTerm
  <1> QED
    BY <1>1, <1>3, <1>4, AdminTermStays DEF Terms

\* The administrators write what they computed, and an edit computes it from
\* the row it reads.
LEMMA OutsideTerms ==
  ASSUME TypeOK, Paths, Terms, [Next]_vars, Outside
  PROVE  Terms'
  <1>0. /\ sub \in [Rows -> Row] /\ adm \in Adms
        /\ now \in Nat /\ paid \in Nat /\ now' \in Nat /\ paid' \in Nat
        /\ now + paid <= now' + paid'
        /\ \A r \in Rows : sub[r].exp \in 0..MaxExpires /\ sub[r].exp <= now + paid
    BY PathStays, LimitGrows DEF TypeOK, Row, Terms, Adms, Ops
  <1>1. ASSUME NEW v \in Workers, Writes(v)'
        PROVE  loc'[v].exp <= now' + paid' + Due(v)'
    BY <1>1, OutsideFrame, WaitingTerm
  <1>9. ASSUME \A r \in Rows : sub'[r].exp = sub[r].exp, NEW r \in Rows
        PROVE  sub'[r].exp <= now' + paid'
    <2>1. sub[r].exp \in Nat /\ sub[r].exp <= now + paid
      BY <1>0
    <2>2. sub[r].exp <= now' + paid'
      BY <1>0, <2>1, LaterTerm
    <2> QED
      BY <1>9, <2>2
  <1>2. CASE UNCHANGED <<sub, adm>>
    <2>1. \A r \in Rows : sub'[r].exp <= now' + paid'
      BY <1>2, <1>9
    <2> QED
      BY <1>1, <1>2, <2>1, AdminTermStays DEF Terms
  <1>3. CASE ExpirySweep \/ \E r \in Rows : Revoke(r)
    <2>1. \A r \in Rows : sub'[r].exp = sub[r].exp
      <3>1. \A r \in Rows : sub[r] \in Row
        BY <1>0
      <3> QED
        BY <1>0, <1>3, <3>1 DEF Revoke, ExpirySweep, Row
    <2>2. UNCHANGED adm
      BY <1>3 DEF Revoke, ExpirySweep
    <2>3. \A r \in Rows : sub'[r].exp <= now' + paid'
      BY <1>9, <2>1
    <2> QED
      BY <1>1, <2>2, <2>3, AdminTermStays DEF Terms
  <1>4. CASE Assign
    <2>1. adm.exp \in 0..MaxExpires /\ adm.exp <= now + paid + DefaultDays /\ DefaultDays \in Nat
      BY <1>0, <1>4, RedeemAssumption DEF Assign, Terms, AdminTerms, Adms
    <2>2. UNCHANGED now /\ adm' = NoAdm
      BY <1>4 DEF Assign
    <2>3. CASE UNCHANGED <<sub, paid>>
      BY <1>0, <1>1, <2>2, <2>3, NoAdmType DEF Terms, AdminTerms
    <2>4. CASE CreateTerm(adm.exp) /\ paid' = paid + DefaultDays
      <3>1. \A r \in Rows : sub'[r].exp \in {adm.exp, sub[r].exp}
        BY <2>1, <2>4, CreatedRow
      <3>2. \A r \in Rows : sub'[r].exp <= now' + paid'
        BY <1>0, <2>1, <2>2, <2>4, <3>1
      <3> QED
        BY <1>1, <2>2, <3>2, NoAdmType DEF Terms, AdminTerms
    <2> QED
      BY <1>4, <2>3, <2>4 DEF Assign
  <1>5. CASE Adjust
    <2> DEFINE d == IF adm.days > 0 THEN adm.days ELSE 0
    <2>1. /\ adm.exp \in 0..MaxExpires /\ adm.row \in Rows /\ d \in Nat
          /\ adm.exp <= now + paid + d
      BY <1>0, <1>5 DEF Adjust, Terms, AdminTerms, Adms, Paths, AdminPath
    <2>2. UNCHANGED now /\ paid' = paid + d
      BY <1>0, <1>5 DEF Adjust, Adms
    <2> HIDE DEF d
    <2>3. \A r \in Rows : sub'[r].exp \in {adm.exp, sub[r].exp}
      BY <1>0, <1>5, <2>1, WrittenRow DEF Adjust, WriteTerm
    <2>4. \A r \in Rows : sub'[r].exp <= now' + paid'
      BY <1>0, <2>1, <2>2, <2>3
    <2>5. adm'.op \notin {"assign", "adjust"}
      BY <1>0, <1>5, NoAdmType DEF Adjust, Adms
    <2> QED
      BY <1>1, <2>4, <2>5 DEF Terms, AdminTerms
  <1>6. CASE Wake
    <2>1. adm.row \in Rows /\ sub[adm.row].exp \in 0..MaxExpires
      BY <1>0, <1>6 DEF Wake, Paths, AdminPath
    <2>2. ASSUME NEW r \in Rows
          PROVE  sub'[r].exp = sub[r].exp
      <3>1. CASE UNCHANGED sub
        BY <3>1
      <3>2. CASE WriteTerm(adm.row, sub[adm.row].exp, TRUE)
        <4>1. sub[adm.row] \in Row
          BY <1>0, <2>1
        <4> QED
          BY <1>0, <2>1, <3>2, <4>1 DEF WriteTerm, Row
      <3> QED
        BY <1>6, <3>1, <3>2 DEF Wake
    <2>3. adm' = NoAdm
      BY <1>6 DEF Wake
    <2>4. \A r \in Rows : sub'[r].exp <= now' + paid'
      BY <1>9, <2>2
    <2> QED
      BY <1>1, <2>3, <2>4, NoAdmType DEF Terms, AdminTerms
  <1>7. CASE WriteCode
    <2>1. UNCHANGED sub /\ adm' = NoAdm
      BY <1>7 DEF WriteCode
    <2>2. \A r \in Rows : sub'[r].exp <= now' + paid'
      BY <1>9, <2>1
    <2> QED
      BY <1>1, <2>1, <2>2, NoAdmType DEF Terms, AdminTerms
  <1>8. CASE CheckStep
    <2>1. UNCHANGED <<sub, now, paid>>
      BY <1>8, CheckTypes DEF Paths, store, ghosts
    <2>2. AdminTerms'
      <3>1. CASE CheckAssign
        <4> DEFINE e == AtMost(now + DefaultDays, MaxExpires)
        <4>1. e <= now + paid + DefaultDays
          BY <1>0, RedeemAssumption DEF AtMost
        <4>2. adm' = [[NoAdm EXCEPT !.exp = e] EXCEPT !.op = "assign"]
          BY <3>1 DEF CheckAssign, Edit
        <4> HIDE DEF e
        <4>3. adm'.op = "assign" /\ adm'.exp = e
          BY <4>2, NoAdmType DEF Adms
        <4> QED
          BY <2>1, <4>1, <4>3 DEF AdminTerms
      <3>2. ASSUME NEW c \in Codes, CheckCode(c)
            PROVE  AdminTerms'
        <4>1. PICK op \in {"enable", "disable", "expire"} :
                 adm' = [[NoAdm EXCEPT !.code = c] EXCEPT !.op = op]
          BY <3>2 DEF CheckCode, Edit
        <4>2. adm'.op = op
          BY <4>1, NoAdmType DEF Adms
        <4> QED
          BY <4>2 DEF AdminTerms
      <3>3. ASSUME NEW r \in Rows, NEW d \in Adjustments, CheckAdjust(r, d)
            PROVE  AdminTerms'
        <4> DEFINE e == Prolonged(sub[r].exp, d)
                   b == sub[r].status = "expired"
        <4>1. d \in Int /\ e <= now + paid + d /\ (d <= 0 => e <= now + paid)
          BY <1>0, RedeemAssumption DEF Prolonged, AtMost
        <4>2. adm' = [[NoAdm EXCEPT !.row = r, !.exp = e, !.days = d, !.wake = b]
                         EXCEPT !.op = "adjust"]
          BY <3>3 DEF CheckAdjust, Edit
        <4> HIDE DEF e, b
        <4>3. adm'.op = "adjust" /\ adm'.exp = e /\ adm'.days = d
          BY <4>2, NoAdmType DEF Adms
        <4> QED
          BY <1>0, <2>1, <4>1, <4>3 DEF AdminTerms
      <3> QED
        BY <1>8, <3>1, <3>2, <3>3 DEF CheckStep
    <2> QED
      BY <1>0, <1>1, <2>1, <2>2 DEF Terms
  <1> QED
    <2>1. \/ WriteCode \/ Assign \/ Adjust \/ Wake \/ CheckStep \/ UNCHANGED <<sub, adm>>
          \/ ExpirySweep \/ \E r \in Rows : Revoke(r)
      BY DEF Outside, AdminStep, CheckStep, DeleteCode, Tick, LockExpire, store, world
    <2> QED
      BY <1>2, <1>3, <1>4, <1>5, <1>6, <1>7, <1>8, <2>1

-----------------------------------------------------------------------------
(* The theorems.                                                           *)

LEMMA RedeemStep == RedeemInv /\ [Next]_vars => RedeemInv'
  <1> SUFFICES ASSUME RedeemInv, [Next]_vars PROVE RedeemInv'
    OBVIOUS
  <1>1. TypeOK /\ Paths /\ Marks /\ Counts /\ Grants /\ Terms
    BY DEF RedeemInv
  <1>2. Terms'
    <2>1. CASE Still
      BY <1>1, <2>1 DEF Still, others, world, Terms, AdminTerms, Writes, Due, Shortens, Creates, Kind, Value
    <2> QED
      BY <1>1, <2>1, NextCases, QuietTerms, GrantTerms, OutsideTerms
  <1> QED
    BY <1>1, <1>2, PathStays, MarksStay, CountsStay, GrantsStay DEF RedeemInv

LEMMA RedeemInvariance == Spec => []RedeemInv
  BY RedeemInit, RedeemStep, PTL DEF Spec

\* The variables keep their types, for any number of requests, codes, edits and
\* failures; in particular no expiry leaves 0..MaxExpires.
THEOREM RedeemTypeCorrect == Spec => []TypeOK
  <1>1. RedeemInv => TypeOK
    BY DEF RedeemInv
  <1> QED
    BY <1>1, RedeemInvariance, PTL

\* redeemRepo.Use: a code is redeemed once, whoever holds the Redis lock and
\* whatever fails, unless an edit has overwritten a used code in between.
THEOREM CodeRedeemedOnce == Spec => []RedeemedOnce
  <1>1. RedeemInv => RedeemedOnce
    BY DEF RedeemInv, Counts, RedeemedOnce
  <1> QED
    BY <1>1, RedeemInvariance, PTL

\* Redeem's transaction: no code is used up for nothing, and a balance or
\* concurrency code grants exactly as often as it is redeemed.
THEOREM NeverForNothing == Spec => []GrantedAsRedeemed
  <1>1. RedeemInv => GrantedAsRedeemed
    BY DEF RedeemInv, Grants
  <1> QED
    BY <1>1, RedeemInvariance, PTL

\* However extensions, reductions and edits overwrite each other's expiry, no
\* subscription runs for more days than were granted.
THEOREM TermsArePaid == Spec => []TermIsPaid
  <1>1. RedeemInv => TermIsPaid
    BY DEF RedeemInv, Terms, TermIsPaid, Live
  <1> QED
    BY <1>1, RedeemInvariance, PTL

-----------------------------------------------------------------------------
(* Balance and concurrency codes.                                          *)

\* A code is clamped between its value and nothing, unless the balance was read
\* below zero; and it takes no more than the balance that was read.
LEMMA ClampedAmount ==
  ASSUME TypeOK, NEW w \in Workers, loc[w].code \in Codes
  PROVE  /\ loc[w].base \in Int /\ Value(w) \in Int /\ Clamped(w) \in Int
         /\ Value(w) <= Clamped(w)
         /\ Value(w) >= 0 => Clamped(w) = Value(w)
         /\ 0 <= loc[w].base /\ Value(w) < 0 =>
               Clamped(w) <= 0 /\ 0 <= loc[w].base + Clamped(w)
         /\ loc[w].base < 0 /\ Value(w) < 0 => Clamped(w) >= 0
  <1>1. loc[w].base \in Int /\ Value(w) \in Int
    BY CodeTypes DEF TypeOK
  <1> QED
    BY <1>1 DEF Clamped

\* The three bounds on one balance or concurrency.
Bounded(a, f) ==
    /\ a.least <= f
    /\ ~a.raced => a.floor <= f
    /\ ~a.credited => f <= a.most

\* The floor is never above zero: what a code may take the balance down to.
FundsInv ==
    \A k \in Funds : Bounded(worth[k], funds[k]) /\ worth[k].floor <= 0

LEMMA FundsInit == Init => FundsInv
  BY RedeemAssumption DEF Init, FundsInv, Bounded, AtMost

\* A commit.
LEMMA CommitFunds ==
  ASSUME TypeOK, Paths, FundsInv, NEW w \in Workers, Commit(w), Kind(w) \in Funds
  PROVE  FundsInv'
  <1> DEFINE k == Kind(w)
             a == worth[k]
             f == funds[k]
             b == loc[w].base
             v == Value(w)
             x == Clamped(w)
  <1>1. /\ funds' = [funds EXCEPT ![k] = @ + x] /\ loc[w].code \in Codes
        /\ worth' = [worth EXCEPT ![k] = Accounted(w)]
    BY DEF Commit, CommitBenefit, Paths, Path
  <1>2. /\ funds \in [Funds -> Int] /\ worth \in [Funds -> Accounts] /\ a \in Accounts /\ f \in Int
    BY DEF TypeOK, Accounts
  <1>3. /\ b \in Int /\ v \in Int /\ x \in Int /\ v <= x
        /\ v >= 0 => x = v
        /\ 0 <= b /\ v < 0 => x <= 0 /\ 0 <= b + x
        /\ b < 0 /\ v < 0 => x >= 0
    BY <1>1, ClampedAmount
  <1>4. /\ a.least \in Int /\ a.most \in Int /\ a.floor \in Int /\ a.floor <= 0
        /\ a.least <= f
        /\ ~a.raced => a.floor <= f
        /\ ~a.credited => f <= a.most
    BY <1>2 DEF FundsInv, Bounded, Accounts
  <1>5. /\ funds'[k] = f + x
        /\ worth'[k].least = a.least + v
        /\ worth'[k].most = a.most + (IF v > 0 THEN v ELSE 0)
        /\ worth'[k].floor = a.floor
        /\ worth'[k].raced = (a.raced \/ (v < 0 /\ f < b))
        /\ worth'[k].credited = (a.credited \/ (v < 0 /\ b < 0))
    BY <1>1, <1>2 DEF Accounted
  <1>6. \A j \in Funds : j # k => funds'[j] = funds[j] /\ worth'[j] = worth[j]
    BY <1>1, <1>2
  <1>7. a.least + v <= f + x
    <2> HIDE DEF a, f, v, x
    <2> QED
      BY <1>2, <1>3, <1>4
  <1>8. ASSUME ~a.raced, ~(v < 0 /\ f < b)
        PROVE  a.floor <= f + x
    <2> HIDE DEF a, f, v, x, b
    <2>1. CASE v >= 0
      BY <1>2, <1>3, <1>4, <1>8, <2>1
    <2>2. CASE v < 0 /\ b < 0
      BY <1>2, <1>3, <1>4, <1>8, <2>2
    <2>3. CASE v < 0 /\ 0 <= b
      BY <1>2, <1>3, <1>4, <1>8, <2>3
    <2> QED
      BY <1>3, <2>1, <2>2, <2>3
  <1>9. ASSUME ~a.credited, ~(v < 0 /\ b < 0)
        PROVE  f + x <= a.most + (IF v > 0 THEN v ELSE 0)
    <2> HIDE DEF a, f, v, x, b
    <2>1. CASE v >= 0
      BY <1>2, <1>3, <1>4, <1>9, <2>1
    <2>2. CASE v < 0
      BY <1>2, <1>3, <1>4, <1>9, <2>2
    <2> QED
      BY <1>3, <2>1, <2>2
  <1>10. Bounded(worth'[k], funds'[k]) /\ worth'[k].floor <= 0
    <2>1. worth'[k].least <= funds'[k] /\ worth'[k].floor <= 0
      BY <1>4, <1>5, <1>7
    <2>2. ~worth'[k].raced => worth'[k].floor <= funds'[k]
      BY <1>5, <1>8
    <2>3. ~worth'[k].credited => funds'[k] <= worth'[k].most
      BY <1>5, <1>9
    <2> QED
      BY <2>1, <2>2, <2>3 DEF Bounded
  <1> HIDE DEF k
  <1> QED
    BY <1>6, <1>10 DEF FundsInv, Bounded

\* A charge moves both bounds, and the floor to the balance it leaves.
LEMMA SpendFunds ==
  ASSUME TypeOK, FundsInv, NEW amount \in Charges, Spend(amount)
  PROVE  FundsInv'
  <1> DEFINE f == funds["balance"]
             a == worth["balance"]
             left == f - amount
  <1>1. /\ amount \in Nat /\ funds \in [Funds -> Int] /\ worth \in [Funds -> Accounts]
        /\ "balance" \in Funds
    BY RedeemAssumption DEF TypeOK, Accounts, Funds
  <1>2. /\ f \in Int /\ a.least \in Int /\ a.most \in Int /\ a \in Accounts
        /\ a.least <= f /\ (~a.credited => f <= a.most)
    BY <1>1 DEF FundsInv, Bounded, Accounts
  <1>3. /\ funds'["balance"] = left
        /\ worth'["balance"].least = a.least - amount
        /\ worth'["balance"].most = a.most - amount
        /\ worth'["balance"].floor = AtMost(0, left)
        /\ worth'["balance"].credited = a.credited
    BY <1>1, <1>2 DEF Spend, Accounts
  <1>4. \A j \in Funds : j # "balance" => funds'[j] = funds[j] /\ worth'[j] = worth[j]
    BY <1>1 DEF Spend
  <1>5. AtMost(0, left) <= left /\ AtMost(0, left) <= 0
    BY <1>1, <1>2 DEF AtMost
  <1>6. a.least - amount <= left /\ (~a.credited => left <= a.most - amount)
    <2> HIDE DEF a, f
    <2> QED
      BY <1>1, <1>2
  <1>7. Bounded(worth'["balance"], funds'["balance"]) /\ worth'["balance"].floor <= 0
    BY <1>3, <1>5, <1>6 DEF Bounded
  <1> QED
    BY <1>4, <1>7 DEF FundsInv, Bounded

LEMMA FundsStep ==
  ASSUME TypeOK, Paths, FundsInv, [Next]_vars
  PROVE  FundsInv'
  <1>1. CASE UNCHANGED <<funds, worth>>
    BY <1>1 DEF FundsInv, Bounded
  <1>2. ASSUME NEW w \in Workers, Quiet(w)
        PROVE  UNCHANGED <<funds, worth>>
    BY <1>2, QuietFrame DEF store, ghosts
  <1>3. ASSUME NEW w \in Workers, Extend(w) \/ Commit(w)
        PROVE  (funds' = funds /\ worth' = worth) \/ (Commit(w) /\ Kind(w) \in Funds)
    <2>1. CASE Extend(w)
      BY <2>1 DEF Extend
    <2>2. CASE Commit(w) /\ Kind(w) \notin Funds
      BY <2>2 DEF Commit, CommitBenefit
    <2> QED
      BY <1>3, <2>1, <2>2
  <1>4. CASE Still
    BY <1>1, <1>4, SpendFunds DEF Still, vars
  <1> QED
    BY <1>1, <1>2, <1>3, <1>4, NextCases, OutsideFrame, CommitFunds

\* Redeem's clamp, whatever usage is charged meanwhile and however low the
\* balance was: no code takes more than its value; as long as the balance (or
\* concurrency) does not drop between the read and the commit, no code takes it
\* below zero or below what usage left; and as long as no negative code reads it
\* below zero, only positive codes add to it.
THEOREM FundsFollowCodes == Spec => []FundsMatchCodes
  <1>1. RedeemInv => TypeOK /\ Paths
    BY DEF RedeemInv
  <1>2. FundsInv => FundsMatchCodes
    BY DEF FundsInv, Bounded, FundsMatchCodes
  <1>3. Spec => []FundsInv
    BY <1>1, RedeemInvariance, FundsInit, FundsStep, PTL DEF Spec
  <1> QED
    BY <1>2, <1>3, PTL
=============================================================================
