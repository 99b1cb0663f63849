---------------------------- MODULE LuaIssueProofs ----------------------------
(***************************************************************************)
(* LuaIssue proved for any number of users, requests, instances, coupons   *)
(* and concurrent status changes, in every record mode.                    *)
(*                                                                          *)
(* The argument: credited never exceeds TotalQty in an event opened once   *)
(* (Opening), and every grant takes one unit of what was credited or of    *)
(* what a restored snapshot put back, which is one unit for each grant it  *)
(* does not know of (Credit).  That nobody gets two rests on the issued    *)
(* set holding, whenever the counter exists, the users of all the grants   *)
(* that are not forgotten (Issued): the one DEL of the set comes before    *)
(* the one SET of the counter, hence before the first grant.  Both must    *)
(* hold of the snapshot as well, since it may be what Redis holds next     *)
(* (Restorable).                                                           *)
(***************************************************************************)
EXTENDS LuaIssue, FiniteSetTheorems, TLAPS

Resetting(a) == admin[a].pc \in {"del", "set"}

\* Between SET stock and the end of a call for OPEN.
Filled(a) == admin[a].pc \in {"invalidate", "commit"} /\ admin[a].target = "OPEN"

Left == IF stock > 0 THEN stock ELSE 0

\* No path of this strategy touches issued_qty.
NoQty == event.issuedQty = 0 /\ \A a \in Admins : admin[a].row.issuedQty = 0

\* What a single opening (or none yet) has put into the counter.
Opening ==
    /\ opens = 0 => /\ credited = 0 /\ ~everOpen
                    /\ \A a \in Admins : ~Resetting(a) /\ ~Filled(a)
    /\ opens = 1 => /\ credited \in {0, TotalQty}
                    /\ everOpen => credited = TotalQty
                    /\ \A a \in Admins : Resetting(a) => credited = 0
                    /\ \A a \in Admins : Filled(a) => credited = TotalQty
                    /\ \A a, b \in Admins : Resetting(a) /\ Resetting(b) => a = b

\* Every grant took one unit; a restart makes units disappear, or puts one
\* back for each grant that the snapshot does not know of.
Credit ==
    /\ Len(grants) + Left <= credited + Cardinality(forgotten)
    /\ (opens <= 1 /\ restarts = 0) => Len(grants) + Left = credited

Issued ==
    /\ issued \subseteq UsersOf(grants)
    /\ (opens <= 1 /\ stock # NoStock) =>
          \A i \in DOMAIN grants \ forgotten : grants[i] \in issued

\* What Credit and Issued say of Redis holds of the snapshot, of the grants
\* up to the time it was taken.
Restorable ==
    /\ saved.granted <= Len(grants)
    /\ saved.issued \subseteq UsersOf(grants)
    /\ saved.granted + (IF saved.stock > 0 THEN saved.stock ELSE 0)
          <= credited + Cardinality(forgotten \intersect 1..saved.granted)
    /\ (opens <= 1 /\ saved.stock # NoStock) =>
          \A i \in (1..saved.granted) \ forgotten : grants[i] \in saved.issued

\* Nobody gets past the metadata check before OPEN has been committed.
Gate ==
    ~everOpen => /\ event.status # "OPEN"
                 /\ \A i \in Instances : cache[i] # "OPEN"
                 /\ \A r \in Requests : req[r].pc \in {"meta", "NOT_OPEN", "ERROR"}
                 /\ grants = << >>

\* Who is past the script with OK, or was told DUPLICATE, was granted a coupon.
Granted ==
    /\ \A r \in Requests : req[r].pc \in {"send", "save", "notify", "CREATED", "DUPLICATE"}
                              => req[r].user \in UsersOf(grants)
    /\ rows \subseteq UsersOf(grants)

IInv ==
    /\ TypeOK /\ NoQty /\ Opening /\ Credit /\ Issued /\ Gate /\ Granted
    /\ OnePerUser /\ SoldOutIsTrue /\ Restorable

-----------------------------------------------------------------------------
\* A log that is appended to gains one entry and that entry's user.
LEMMA AppendUser ==
  ASSUME NEW S, NEW log \in Seq(S), NEW u \in S
  PROVE  /\ UsersOf(Append(log, u)) = UsersOf(log) \union {u}
         /\ Len(Append(log, u)) = Len(log) + 1
<1>1. /\ Append(log, u) \in Seq(S)
      /\ Len(Append(log, u)) = Len(log) + 1
      /\ Append(log, u)[Len(log) + 1] = u
      /\ \A i \in 1..Len(log) : Append(log, u)[i] = log[i]
  OBVIOUS
<1>2. DOMAIN Append(log, u) = (DOMAIN log) \union {Len(log) + 1}
  BY <1>1
<1> QED
  BY <1>1, <1>2 DEF UsersOf

\* Moving a status change or a request on keeps the type of its state.
LEMMA AdminGoto ==
  ASSUME NEW f \in [Admins -> AdminState], NEW a \in Admins, NEW pc \in AdminPcs
  PROVE  [f EXCEPT ![a].pc = pc] \in [Admins -> AdminState]
  BY DEF AdminState

\* A request moved to another step stays a request.
LEMMA RequestGoto ==
  ASSUME NEW f \in [Requests -> RequestState], NEW r \in Requests,
         NEW pc \in Pending \union Answers
  PROVE  [f EXCEPT ![r].pc = pc] \in [Requests -> RequestState]
  BY DEF RequestState

\* Every step keeps the types and leaves issued_qty at zero.
LEMMA TypeStep == TypeOK /\ NoQty /\ [Next]_vars => TypeOK' /\ NoQty'
<1> SUFFICES ASSUME TypeOK, NoQty, [Next]_vars PROVE TypeOK' /\ NoQty'
  OBVIOUS
<1> DEFINE Keys == EventTypeOK /\ IssueTypeOK
<1> USE EventAssumption DEF TypeOK, EventTypeOK, AdminTypeOK, IssueTypeOK
<1>1. ASSUME NEW a \in Admins, NEW s \in Statuses,
           ReadEvent(a, s) /\ UNCHANGED issueVars
      PROVE Keys' /\ NoQty'
  <2>1. admin' \in [Admins -> AdminState]
    BY <1>1 DEF ReadEvent, AdminState, AdminPcs, Statuses
  <2> QED
    BY <1>1, <2>1 DEF ReadEvent, AdminState, NoQty, redisVars, issueVars
<1>2. ASSUME NEW a \in Admins,
           DelIssued(a) /\ UNCHANGED issueVars
      PROVE Keys' /\ NoQty'
  <2>1. admin' \in [Admins -> AdminState]
    BY <1>2, AdminGoto DEF DelIssued, AdminPcs
  <2>2. NoQty'
    BY <1>2 DEF DelIssued, NoQty, AdminState
  <2> QED
    BY <1>2, <2>1, <2>2 DEF DelIssued, issueVars
<1>3. ASSUME NEW a \in Admins,
           SetStock(a) /\ UNCHANGED issueVars
      PROVE Keys' /\ NoQty'
  <2>1. admin' \in [Admins -> AdminState]
    BY <1>3, AdminGoto DEF SetStock, AdminPcs
  <2>2. NoQty'
    BY <1>3 DEF SetStock, NoQty, AdminState
  <2>3. stock' = TotalQty /\ credited' = credited + TotalQty
    BY <1>3 DEF SetStock, NoQty
  <2>4. stock' \in NoStock..TotalQty /\ credited' \in Nat
    BY <2>3 DEF NoStock
  <2> QED
    BY <1>3, <2>1, <2>2, <2>4 DEF SetStock, issueVars
<1>4. ASSUME NEW a \in Admins, NEW i \in Instances,
           Invalidate(a, i) /\ UNCHANGED issueVars
      PROVE Keys' /\ NoQty'
  <2>1. admin' \in [Admins -> AdminState]
    BY <1>4, AdminGoto DEF Invalidate, AdminPcs
  <2>2. NoQty'
    BY <1>4 DEF Invalidate, NoQty, AdminState
  <2> QED
    BY <1>4, <2>1, <2>2 DEF Invalidate, redisVars, issueVars
<1>5. ASSUME NEW a \in Admins,
           Commit(a) /\ UNCHANGED issueVars
      PROVE Keys' /\ NoQty'
  <2>1. Idle \in AdminState
    BY DEF Idle, NewRow, AdminState, AdminPcs, EventRow, Statuses
  <2>2. admin' \in [Admins -> AdminState]
    BY <1>5, <2>1 DEF Commit
  <2>3. event' \in EventRow /\ everOpen' \in BOOLEAN
    BY <1>5 DEF Commit, AdminState, EventRow
  <2>4. NoQty'
    BY <1>5 DEF Commit, Idle, NewRow, NoQty
  <2> QED
    BY <1>5, <2>2, <2>3, <2>4 DEF Commit, redisVars, issueVars
<1>6. ASSUME NEW a \in Admins,
           Rollback(a) /\ UNCHANGED issueVars
      PROVE Keys' /\ NoQty'
  <2>1. Idle \in AdminState
    BY DEF Idle, NewRow, AdminState, AdminPcs, EventRow, Statuses
  <2> QED
    BY <1>6, <2>1 DEF Rollback, Idle, NewRow, NoQty, redisVars, issueVars
<1>7. ASSUME NEW i \in Instances,
           Drop(i) /\ UNCHANGED issueVars
      PROVE Keys' /\ NoQty'
  BY <1>7 DEF Drop, NoQty, vars, redisVars, adminVars, issueVars
<1>8. ASSUME NEW r \in Requests, NEW i \in Instances, NEW b \in BOOLEAN,
           CheckMeta(r, i, b)
      PROVE Keys' /\ NoQty'
  <2>1. req' \in [Requests -> RequestState]
    BY <1>8, RequestGoto DEF CheckMeta, Goto, Pending, Answers
  <2>2. cache' \in [Instances -> Statuses \union {NotCached}]
    BY <1>8 DEF CheckMeta, Load, MetaOf, EventRow
  <2> QED
    BY <1>8, <2>1, <2>2 DEF CheckMeta, NoQty, redisVars
<1>9. ASSUME NEW r \in Requests, LuaDuplicate(r) PROVE Keys' /\ NoQty'
  BY <1>9, RequestGoto DEF LuaDuplicate, HasCoupon, Goto, Pending, Answers, NoQty, vars, redisVars,
      adminVars, issueVars
<1>10. ASSUME NEW r \in Requests, LuaSoldOut(r) PROVE Keys' /\ NoQty'
  BY <1>10, RequestGoto DEF LuaSoldOut, InStock, Goto, Pending, Answers, NoQty, vars, redisVars,
      adminVars, issueVars
<1>11. ASSUME NEW r \in Requests, LuaGrant(r) PROVE Keys' /\ NoQty'
  <2>0. req[r].mode \in {"stream", "kafka", "sync"}
    BY LuaAssumption DEF RequestState
  <2>1. AfterOk(r) \in Pending \union Answers
    BY <2>0 DEF AfterOk, AfterNotify, Pending, Answers
  <2>2. req' \in [Requests -> RequestState]
    BY <1>11, <2>1, RequestGoto DEF LuaGrant, Goto
  <2>3. req[r].user \in Users
    BY DEF RequestState
  <2>4. stock' \in NoStock..TotalQty
    BY <1>11 DEF LuaGrant, InStock, NoStock
  <2>5. /\ issued' \subseteq Users /\ grants' \in Seq(Users) /\ stream' \in Seq(Users)
    BY <1>11, <2>3 DEF LuaGrant
  <2> QED
    BY <1>11, <2>2, <2>4, <2>5 DEF LuaGrant, NoQty, adminVars
<1>12. ASSUME NEW r \in Requests, KafkaSend(r) PROVE Keys' /\ NoQty'
  <2>1. req' \in [Requests -> RequestState]
    BY <1>12, RequestGoto DEF KafkaSend, Goto, AfterNotify, Pending, Answers
  <2>2. sending' \subseteq Users
    BY <1>12 DEF KafkaSend, RequestState
  <2> QED
    BY <1>12, <2>1, <2>2 DEF KafkaSend, NoQty, redisVars, adminVars
<1>13. ASSUME NEW r \in Requests, SaveRow(r) PROVE Keys' /\ NoQty'
  <2>1. req' \in [Requests -> RequestState]
    BY <1>13, RequestGoto DEF SaveRow, Goto, AfterNotify, Pending, Answers
  <2>2. rows' \subseteq Users
    BY <1>13 DEF SaveRow, RequestState
  <2> QED
    BY <1>13, <2>1, <2>2 DEF SaveRow, NoQty, redisVars, adminVars
<1>14. ASSUME NEW r \in Requests, NotifyDone(r) PROVE Keys' /\ NoQty'
  BY <1>14, RequestGoto DEF NotifyDone, Goto, Pending, Answers, NoQty, vars, redisVars, adminVars,
      issueVars
<1>15. ASSUME NEW r \in Requests, Fail(r) PROVE Keys' /\ NoQty'
  BY <1>15, RequestGoto DEF Fail, Goto, Pending, Answers, NoQty, vars, redisVars, adminVars,
      issueVars
<1>16. ASSUME NEW u \in Users, KafkaDeliver(u) PROVE Keys' /\ NoQty'
  BY <1>16 DEF KafkaDeliver, NoQty, vars, redisVars, adminVars, issueVars
<1>17. ASSUME NEW u \in Users, KafkaLose(u) PROVE Keys' /\ NoQty'
  BY <1>17 DEF KafkaLose, NoQty, vars, redisVars, adminVars, issueVars
<1>18. ASSUME RedisSave PROVE Keys' /\ NoQty'
  BY <1>18 DEF RedisSave, NoQty, redisVars, adminVars, issueVars
<1>19. ASSUME RedisRestart PROVE Keys' /\ NoQty'
  <2>1. PICK image \in {saved, NoKeys} :
           stock' = image.stock /\ issued' = image.issued /\ stream' = image.stream
    BY <1>19 DEF RedisRestart
  <2>2. image \in Snapshot
    <3>1. NoKeys \in Snapshot
      BY DEF NoKeys, Snapshot, NoStock
    <3> QED
      BY <3>1 DEF SnapshotTypeOK
  <2>3. stock' \in NoStock..TotalQty /\ issued' \subseteq Users /\ stream' \in Seq(Users)
    BY <2>1, <2>2 DEF Snapshot
  <2> QED
    BY <1>19, <2>3 DEF RedisRestart, NoQty, adminVars
<1>20. ASSUME UNCHANGED vars PROVE Keys' /\ NoQty'
  BY <1>20 DEF NoQty, vars, redisVars, adminVars, issueVars
<1>21. Keys' /\ NoQty'
  BY <1>1, <1>2, <1>3, <1>4, <1>5, <1>6, <1>7, <1>8, <1>9, <1>10, <1>11, <1>12, <1>13, <1>14,
     <1>15, <1>16, <1>17, <1>18, <1>19, <1>20 DEF Next, AdminStep, RequestStep, KafkaStep
<1>22. SnapshotTypeOK'
  <2>1. Len(grants) \in Nat /\ DOMAIN grants = 1..Len(grants) /\ NoKeys \in Snapshot
    BY DEF NoKeys, Snapshot, NoStock
  <2>2. DOMAIN grants \subseteq DOMAIN grants'
    <3>1. ASSUME NEW r \in Requests, LuaGrant(r) PROVE DOMAIN grants \subseteq DOMAIN grants'
      BY <2>1, <3>1, AppendUser DEF LuaGrant, RequestState
    <3>2. ASSUME UNCHANGED grants PROVE DOMAIN grants \subseteq DOMAIN grants'
      BY <3>2
    <3> QED
      BY <3>1, <3>2 DEF Next, RequestStep, CheckMeta, LuaDuplicate, LuaSoldOut, KafkaSend,
          SaveRow, NotifyDone, Fail, KafkaStep, KafkaDeliver, KafkaLose, RedisSave, RedisRestart,
          vars, issueVars
  <2>3. CASE UNCHANGED snapshotVars
    BY <2>2, <2>3 DEF SnapshotTypeOK, snapshotVars
  <2>4. CASE RedisSave
    BY <2>1, <2>2, <2>4 DEF RedisSave, SnapshotTypeOK, Snapshot
  <2>5. CASE RedisRestart
    <3>1. PICK image \in {saved, NoKeys} :
             /\ saved' = image /\ restarts' = restarts + 1 /\ UNCHANGED grants
             /\ \/ forgotten' = forgotten
                \/ forgotten' = forgotten \union (image.granted + 1)..Len(grants)
      BY <2>5 DEF RedisRestart
    <3>2. image \in Snapshot /\ image.granted \in Nat
      BY <2>1 DEF SnapshotTypeOK, Snapshot
    <3>3. (image.granted + 1)..Len(grants) \subseteq DOMAIN grants
      BY <2>1, <3>2
    <3> QED
      BY <3>1, <3>2, <3>3 DEF SnapshotTypeOK
  <2> QED
    BY <2>3, <2>4, <2>5 DEF Next, vars
<1> QED
  BY <1>21, <1>22

-----------------------------------------------------------------------------
\* The forgotten grants can be counted, all of them or those up to a position.
LEMMA ForgottenCount ==
  ASSUME TypeOK
  PROVE  /\ IsFiniteSet(forgotten) /\ Cardinality(forgotten) \in Nat
         /\ \A g : Cardinality(forgotten \intersect 1..g) \in Nat
<1>1. Len(grants) \in Nat /\ forgotten \subseteq 1..Len(grants)
  BY DEF TypeOK, IssueTypeOK, SnapshotTypeOK
<1>2. IsFiniteSet(forgotten)
  <2>1. IsFiniteSet(1..Len(grants))
    BY <1>1, FS_Interval
  <2>2. forgotten \in SUBSET (1..Len(grants))
    BY <1>1
  <2> QED
    BY <2>1, <2>2, FS_Subset
<1>3. \A g : IsFiniteSet(forgotten \intersect 1..g)
  BY <1>2, FS_Intersection
<1> QED
  BY <1>2, <1>3, FS_CardinalityType

\* Openings are counted, never discounted.
LEMMA OpensCount ==
  ASSUME IInv, [Next]_vars
  PROVE  opens \in Nat /\ opens <= opens'
<1>1. opens \in Nat
  BY DEF IInv, TypeOK, EventTypeOK, AdminTypeOK
<1>2. ASSUME NEW a \in Admins, NEW s \in Statuses, ReadEvent(a, s) PROVE opens <= opens'
  BY <1>1, <1>2 DEF ReadEvent
<1>3. ASSUME UNCHANGED opens PROVE opens <= opens'
  BY <1>1, <1>3
<1> QED
  BY <1>1, <1>2, <1>3 DEF Next, AdminStep, RequestStep, DelIssued, SetStock, Invalidate, Commit,
      Rollback, Drop, CheckMeta, LuaDuplicate, LuaSoldOut, LuaGrant, KafkaSend, SaveRow,
      NotifyDone, Fail, KafkaStep, KafkaDeliver, KafkaLose, RedisSave, RedisRestart, vars, adminVars

\* The counter's part of IInv is about Redis, the openings and the grants: a
\* step that leaves these alone keeps it.
LEMMA LedgerSame ==
  ASSUME IInv, UNCHANGED << redisVars, admin, opens, restarts, forgotten, credited, everOpen,
                            grants >>
  PROVE  Opening' /\ Credit' /\ Issued' /\ OnePerUser'
  BY DEF IInv, Opening, Resetting, Filled, Credit, Left, Issued, UsersOf, OnePerUser, redisVars

\* The requests' part survives every step in which no request moves.
LEMMA RequestsSame ==
  ASSUME IInv, UNCHANGED << req, rows, grants >>,
         opens \in Nat, opens' \in Nat, opens <= opens',
         restarts \in Nat, restarts' \in Nat, restarts <= restarts',
         forgotten \subseteq forgotten'
  PROVE  Granted' /\ OnePerUser' /\ SoldOutIsTrue'
<1>1. Granted'
  BY DEF IInv, Granted, UsersOf
<1>2. OnePerUser'
  BY DEF IInv, OnePerUser
<1>3. SoldOutIsTrue'
  BY DEF IInv, SoldOutIsTrue
<1> QED
  BY <1>1, <1>2, <1>3

\* A request moves to pc and nothing is decided in Redis: what IInv says of a
\* request at pc is all there is to show.
LEMMA RequestMoves ==
  ASSUME IInv, NEW r \in Requests, NEW pc, Goto(r, pc),
         UNCHANGED << redisVars, event, admin, opens, restarts, forgotten, credited, everOpen,
                     grants >>,
         ~everOpen => \A i \in Instances : cache'[i] # "OPEN",
         ~everOpen => pc \in {"meta", "NOT_OPEN", "ERROR"},
         pc \in {"send", "save", "notify", "CREATED", "DUPLICATE"}
            => req[r].user \in UsersOf(grants),
         pc = "SOLD_OUT" => (opens <= 1 /\ restarts = 0 => Len(grants) = TotalQty),
         rows' \subseteq UsersOf(grants)
  PROVE  Opening' /\ Credit' /\ Issued' /\ Gate' /\ Granted' /\ OnePerUser' /\ SoldOutIsTrue'
<1>1. /\ req'[r].pc = pc /\ req'[r].user = req[r].user
      /\ \A q \in Requests \ {r} : req'[q] = req[q]
  BY DEF Goto, IInv, TypeOK, IssueTypeOK, RequestState
<1>2. Opening' /\ Credit' /\ Issued' /\ OnePerUser'
  BY LedgerSame
<1>3. Gate'
  BY <1>1 DEF IInv, Gate
<1>4. Granted'
  BY <1>1 DEF IInv, Granted, UsersOf
<1>5. SoldOutIsTrue'
  BY <1>1 DEF IInv, SoldOutIsTrue
<1> QED
  BY <1>2, <1>3, <1>4, <1>5

Rest == Opening /\ Credit /\ Issued /\ Gate /\ Granted /\ OnePerUser /\ SoldOutIsTrue

\* What is not a step of Redis itself.
Moves == RequestStep \/ KafkaStep \/ (AdminStep /\ UNCHANGED issueVars)

\* Requests, producer and operators keep all that IInv says of the present.
LEMMA MoveStep ==
  ASSUME IInv, Moves, UNCHANGED snapshotVars, TypeOK'
  PROVE  Rest'
<1> USE DEF Rest
<1>snap. UNCHANGED << saved, restarts, forgotten >>
  BY DEF snapshotVars
<1>type. /\ opens \in Nat /\ restarts \in Nat /\ credited \in Nat /\ everOpen \in BOOLEAN
         /\ stock \in NoStock..TotalQty /\ grants \in Seq(Users) /\ Len(grants) \in Nat
         /\ admin \in [Admins -> AdminState] /\ req \in [Requests -> RequestState]
         /\ cache \in [Instances -> Statuses \union {NotCached}]
  BY DEF IInv, TypeOK, EventTypeOK, AdminTypeOK, IssueTypeOK, SnapshotTypeOK
<1>card. Cardinality(forgotten) \in Nat
  BY ForgottenCount DEF IInv
<1>inv. NoQty /\ Rest
  BY DEF IInv
<1>nat. opens' \in Nat /\ restarts' \in Nat
  BY DEF TypeOK, SnapshotTypeOK, EventTypeOK, AdminTypeOK
<1>1. ASSUME NEW a \in Admins, NEW s \in Statuses, ReadEvent(a, s), UNCHANGED issueVars
      PROVE  Rest'
  <2>1. UNCHANGED << stock, issued, event, cache, restarts, forgotten, credited, everOpen, req,
                     rows, grants >>
    BY <1>1, <1>snap DEF ReadEvent, redisVars, issueVars
  <2>2. opens' = IF s = "OPEN" THEN opens + 1 ELSE opens
    BY <1>1 DEF ReadEvent
  <2>3. Opening'
    BY <1>1, <2>1, <2>2, <1>type, <1>inv DEF ReadEvent, Opening, Resetting, Filled
  <2>4. Credit' /\ Issued' /\ Gate'
    BY <2>1, <2>2, <1>type, <1>inv DEF Credit, Left, Issued, UsersOf, Gate
  <2> QED
    BY <2>1, <2>2, <2>3, <2>4, <1>type, <1>nat, RequestsSame
<1>2. ASSUME NEW a \in Admins, DelIssued(a), UNCHANGED issueVars PROVE Rest'
  <2>1. /\ issued' = {} /\ UNCHANGED << stock, event, cache, opens, restarts, forgotten, credited,
                                        everOpen, req, rows, grants >>
    BY <1>2, <1>snap DEF DelIssued, issueVars
  <2>2. Opening'
    BY <1>2, <2>1, <1>type, <1>inv DEF DelIssued, Opening, Resetting, Filled
  <2>3. opens # 0 /\ (opens = 1 => credited = 0 /\ ~everOpen)
    BY <1>2, <1>inv, EventAssumption DEF DelIssued, Opening, Resetting
  <2>4. opens <= 1 => grants = << >>
    BY <2>3, <1>type, <1>inv DEF Gate
  <2>5. Credit' /\ Issued' /\ Gate'
    BY <2>1, <2>4, <1>type, <1>inv DEF Credit, Left, Issued, UsersOf, Gate
  <2> QED
    BY <2>1, <2>2, <2>5, <1>type, RequestsSame
<1>3. ASSUME NEW a \in Admins, SetStock(a), UNCHANGED issueVars PROVE Rest'
  <2>1. /\ stock' = TotalQty /\ credited' = credited + TotalQty
        /\ UNCHANGED << issued, opens, restarts, forgotten, everOpen, grants, event, cache, req,
                        rows >>
    BY <1>3, <1>snap, <1>inv, EventAssumption DEF SetStock, NoQty, issueVars
  <2>2. opens # 0 /\ (opens = 1 => credited = 0 /\ ~everOpen)
    BY <1>3, <1>inv, EventAssumption DEF SetStock, Opening, Resetting
  <2>3. opens <= 1 => grants = << >>
    BY <2>2, <1>type, <1>inv DEF Gate
  <2>4. Opening'
    <3>1. admin'[a].pc = "invalidate" /\ \A b \in Admins \ {a} : admin'[b] = admin[b]
      BY <1>3, <1>type DEF SetStock, AdminState
    <3>2. opens = 1 => \A b \in Admins : ~Resetting(b)'
      BY <1>3, <3>1, <1>inv DEF SetStock, Opening, Resetting
    <3>3. opens' = opens /\ opens # 0 /\ (opens = 1 => credited' = TotalQty)
      BY <2>1, <2>2, EventAssumption
    <3> QED
      BY <3>2, <3>3 DEF Opening
  <2>5. Credit' /\ Issued' /\ Gate'
    BY <2>1, <2>2, <2>3, <1>type, <1>snap, <1>card, <1>inv, EventAssumption
       DEF Credit, Left, Issued, UsersOf, Gate
  <2> QED
    BY <2>1, <2>4, <2>5, <1>type, RequestsSame
<1>4. ASSUME NEW a \in Admins, NEW i \in Instances, Invalidate(a, i), UNCHANGED issueVars
      PROVE  Rest'
  <2>1. /\ cache' = [cache EXCEPT ![i] = NotCached]
        /\ UNCHANGED << stock, issued, event, opens, restarts, forgotten, credited, everOpen,
                       req, rows, grants >>
    BY <1>4, <1>snap DEF Invalidate, redisVars, issueVars
  <2>2. Opening'
    BY <1>4, <2>1, <1>type, <1>inv DEF Invalidate, AdminState, Opening, Resetting, Filled
  <2>3. Credit' /\ Issued'
    BY <2>1, <1>inv DEF Credit, Left, Issued, UsersOf
  <2>4. Gate'
    BY <2>1, <1>type, <1>inv DEF Gate, NotCached
  <2> QED
    BY <2>1, <2>2, <2>3, <2>4, <1>type, RequestsSame
<1>5. ASSUME NEW a \in Admins, Commit(a), UNCHANGED issueVars PROVE Rest'
  <2>1. UNCHANGED << stock, issued, cache, opens, restarts, forgotten, credited, req, rows,
                     grants >>
    BY <1>5, <1>snap DEF Commit, redisVars, issueVars
  <2>2. /\ everOpen' = (everOpen \/ event'.status = "OPEN")
        /\ event'.status \in {event.status, admin[a].target}
    BY <1>5 DEF Commit
  <2>3. event'.status = "OPEN" => everOpen \/ Filled(a)
    BY <1>5, <2>2, <1>inv DEF Commit, Gate, Filled
  <2>4. Opening'
    BY <1>5, <2>1, <2>2, <2>3, <1>type, <1>inv DEF Commit, Idle, Opening, Resetting, Filled
  <2>5. Credit' /\ Issued'
    BY <2>1, <1>inv DEF Credit, Left, Issued, UsersOf
  <2>6. Gate'
    BY <2>1, <2>2, <1>inv DEF Gate
  <2> QED
    BY <2>1, <2>4, <2>5, <2>6, <1>type, RequestsSame
<1>6. ASSUME NEW a \in Admins, Rollback(a), UNCHANGED issueVars PROVE Rest'
  <2>1. UNCHANGED << stock, issued, event, cache, opens, restarts, forgotten, credited, everOpen,
                   req, rows, grants >>
    BY <1>6, <1>snap DEF Rollback, redisVars, issueVars
  <2>2. Opening'
    BY <1>6, <2>1, <1>type, <1>inv DEF Rollback, Idle, Opening, Resetting, Filled
  <2>3. Credit' /\ Issued' /\ Gate'
    BY <2>1, <1>inv DEF Credit, Left, Issued, UsersOf, Gate
  <2> QED
    BY <2>1, <2>2, <2>3, <1>type, RequestsSame
<1>7. ASSUME NEW i \in Instances, Drop(i), UNCHANGED issueVars PROVE Rest'
  <2>1. /\ cache' = [cache EXCEPT ![i] = NotCached]
        /\ UNCHANGED << redisVars, event, admin, opens, restarts, forgotten, credited, everOpen,
                       req, rows, grants >>
    BY <1>7, <1>snap DEF Drop, issueVars
  <2>2. Gate'
    BY <2>1, <1>type, <1>inv DEF Gate, NotCached
  <2> QED
    BY <2>1, <2>2, <1>type, LedgerSame, RequestsSame
<1>8. ASSUME NEW r \in Requests, NEW i \in Instances, NEW b \in BOOLEAN, CheckMeta(r, i, b)
      PROVE  Rest'
  <2>1. MetaOf(i) = "OPEN" => everOpen
    BY <1>inv DEF MetaOf, Gate
  <2>2. ~everOpen => \A j \in Instances : cache'[j] # "OPEN"
    BY <1>8, <2>1, <1>inv DEF CheckMeta, Load, MetaOf, Gate
  <2>3. PICK pc \in {"lua", "NOT_OPEN"} : Goto(r, pc) /\ (pc = "lua" => everOpen)
    BY <1>8, <2>1 DEF CheckMeta, IsOpen
  <2>4. UNCHANGED << redisVars, event, admin, opens, restarts, forgotten, credited, everOpen,
                     rows, grants >>
    BY <1>8, <1>snap DEF CheckMeta
  <2> QED
    BY <2>2, <2>3, <2>4, <1>inv, RequestMoves DEF Granted
\* Past the metadata check OPEN has been committed.
<1>past. ASSUME NEW r \in Requests, req[r].pc \in {"lua", "send", "save", "notify"} PROVE everOpen
  BY <1>past, <1>inv DEF Gate
<1>cache. ASSUME UNCHANGED cache PROVE ~everOpen => \A i \in Instances : cache'[i] # "OPEN"
  BY <1>cache, <1>inv DEF Gate
<1>9. ASSUME NEW r \in Requests, LuaDuplicate(r) PROVE Rest'
  <2>1. req[r].user \in UsersOf(grants)
    BY <1>9, <1>inv DEF LuaDuplicate, HasCoupon, Issued
  <2>2. /\ req[r].pc = "lua" /\ Goto(r, "DUPLICATE")
        /\ UNCHANGED << redisVars, adminVars, rows, grants >>
    BY <1>9 DEF LuaDuplicate
  <2> QED
    BY <2>1, <2>2, <1>past, <1>cache, <1>snap, <1>inv, RequestMoves DEF Granted, adminVars
<1>10. ASSUME NEW r \in Requests, LuaSoldOut(r) PROVE Rest'
  <2>1. /\ req[r].pc = "lua" /\ Goto(r, "SOLD_OUT") /\ ~(stock > 0)
        /\ UNCHANGED << redisVars, adminVars, rows, grants >>
    BY <1>10 DEF LuaSoldOut, InStock
  <2>2. everOpen /\ Left = 0
    BY <2>1, <1>past DEF Left
  <2>3. opens <= 1 /\ restarts = 0 => Len(grants) = TotalQty
    BY <2>2, <1>type, <1>inv DEF Opening, Credit
  <2> QED
    BY <2>1, <2>2, <2>3, <1>cache, <1>snap, <1>inv, RequestMoves DEF Granted, adminVars
<1>11. ASSUME NEW r \in Requests, LuaGrant(r) PROVE Rest'
  <2> DEFINE u == req[r].user
  <2>1. /\ u \in Users /\ grants \in Seq(Users)
        /\ grants' = Append(grants, u) /\ stock' = stock - 1 /\ stock > 0
        /\ issued' = issued \union {u} /\ u \notin issued
        /\ UNCHANGED << event, cache, admin, opens, restarts, forgotten, credited, everOpen, rows >>
    BY <1>11, <1>snap, <1>type DEF LuaGrant, HasCoupon, InStock, RequestState, adminVars
  <2>2. /\ UsersOf(grants') = UsersOf(grants) \union {u}
        /\ Len(grants') = Len(grants) + 1
        /\ DOMAIN grants = 1..Len(grants) /\ DOMAIN grants' = 1..(Len(grants) + 1)
        /\ grants'[Len(grants) + 1] = u /\ \A i \in DOMAIN grants : grants'[i] = grants[i]
    BY <2>1, AppendUser
  <2>3. \A q \in Requests : q # r => req'[q] = req[q]
    BY <1>11, <1>type DEF LuaGrant, Goto
  <2>4. req'[r].user = u /\ req'[r].pc = AfterOk(r) /\ AfterOk(r) \notin {"DUPLICATE", "SOLD_OUT"}
    BY <1>11, <1>type, LuaAssumption DEF LuaGrant, Goto, AfterOk, AfterNotify, RequestState
  <2>5. Opening'
    BY <2>1, <1>inv DEF Opening, Resetting, Filled
  <2>6. Credit'
    <3>1. stock \in Int /\ credited \in Nat /\ Len(grants) \in Nat
      BY <1>type DEF NoStock
    <3>2. Left = stock /\ Left' = stock - 1
      BY <2>1, <3>1 DEF Left
    <3>3. Len(grants') + Left' = Len(grants) + Left
      BY <2>2, <3>1, <3>2
    <3> QED
      BY <2>1, <3>3, <1>inv DEF Credit
  <2>7. Issued'
    <3>1. \A i \in DOMAIN grants' : i \in DOMAIN grants \/ grants'[i] = u
      BY <2>2, <1>type
    <3>2. (opens <= 1 /\ stock' # NoStock) =>
             \A i \in DOMAIN grants \ forgotten : grants[i] \in issued
      BY <2>1, <1>type, <1>inv DEF Issued, NoStock
    <3> QED
      BY <2>1, <2>2, <3>1, <3>2, <1>inv DEF Issued
  <2>8. Gate'
    BY <1>11, <2>1, <1>past, <1>inv DEF LuaGrant, Gate
  <2>9. Granted'
    BY <2>1, <2>2, <2>3, <2>4, <1>inv DEF Granted
  <2>10. OnePerUser'
    <3> SUFFICES ASSUME opens <= 1, NEW i \in DOMAIN grants', NEW j \in DOMAIN grants',
                        grants'[i] = grants'[j], i < j
                 PROVE  i \in forgotten
      BY <2>1 DEF OnePerUser
    <3>1. i \in DOMAIN grants /\ (j \in DOMAIN grants \/ j = Len(grants) + 1)
      BY <2>2, <1>type
    <3>2. \A k \in DOMAIN grants \ forgotten : grants[k] # u
      BY <2>1, <1>type, <1>inv DEF Issued, NoStock
    <3> QED
      BY <2>2, <3>1, <3>2, <1>inv DEF OnePerUser
  <2>11. SoldOutIsTrue'
    <3> SUFFICES ASSUME opens <= 1, restarts = 0, NEW q \in Requests, req'[q].pc = "SOLD_OUT"
                 PROVE  FALSE
      BY <2>1 DEF SoldOutIsTrue
    <3>1. req[q].pc = "SOLD_OUT"
      BY <2>3, <2>4
    <3>2. Len(grants) = TotalQty
      BY <3>1, <1>inv DEF SoldOutIsTrue
    <3> QED
      BY <2>1, <3>2, <1>type, <1>inv, EventAssumption DEF Credit, Left, Opening
  <2> QED
    BY <2>5, <2>6, <2>7, <2>8, <2>9, <2>10, <2>11
<1>12. ASSUME NEW r \in Requests, KafkaSend(r) PROVE Rest'
  <2>1. /\ req[r].pc = "send" /\ Goto(r, AfterNotify) /\ AfterNotify \in {"notify", "CREATED"}
        /\ UNCHANGED << redisVars, adminVars, rows, grants >>
    BY <1>12 DEF KafkaSend, AfterNotify
  <2> QED
    BY <2>1, <1>past, <1>cache, <1>snap, <1>inv, RequestMoves DEF Granted, adminVars
<1>13. ASSUME NEW r \in Requests, SaveRow(r) PROVE Rest'
  <2>1. /\ req[r].pc = "save" /\ rows' = rows \union {req[r].user}
        /\ UNCHANGED << redisVars, adminVars, grants >>
    BY <1>13 DEF SaveRow
  <2>2. PICK pc \in {"DUPLICATE", "notify", "CREATED"} : Goto(r, pc)
    BY <1>13 DEF SaveRow, AfterNotify
  <2>3. req[r].user \in UsersOf(grants) /\ rows' \subseteq UsersOf(grants)
    BY <2>1, <1>inv DEF Granted
  <2> QED
    BY <2>1, <2>2, <2>3, <1>past, <1>cache, <1>snap, RequestMoves DEF adminVars
<1>14. ASSUME NEW r \in Requests, NotifyDone(r) PROVE Rest'
  <2>1. /\ req[r].pc = "notify" /\ Goto(r, "CREATED")
        /\ UNCHANGED << redisVars, adminVars, rows, grants >>
    BY <1>14 DEF NotifyDone
  <2> QED
    BY <2>1, <1>past, <1>cache, <1>snap, <1>inv, RequestMoves DEF Granted, adminVars
<1>15. ASSUME NEW r \in Requests, Fail(r) PROVE Rest'
  <2>1. Goto(r, "ERROR") /\ UNCHANGED << redisVars, adminVars, rows, grants >>
    BY <1>15 DEF Fail
  <2> QED
    BY <2>1, <1>cache, <1>snap, <1>inv, RequestMoves DEF Granted, adminVars
<1>16. ASSUME NEW u \in Users, KafkaDeliver(u) \/ KafkaLose(u) PROVE Rest'
  <2>1. UNCHANGED << redisVars, adminVars, req, rows, grants >>
    BY <1>16 DEF KafkaDeliver, KafkaLose
  <2>2. Gate'
    BY <2>1, <1>inv DEF Gate, adminVars
  <2> QED
    BY <2>1, <2>2, <1>type, <1>snap, LedgerSame, RequestsSame DEF adminVars
<1> QED
  BY <1>1, <1>2, <1>3, <1>4, <1>5, <1>6, <1>7, <1>8, <1>9, <1>10, <1>11, <1>12, <1>13, <1>14,
     <1>15, <1>16 DEF Moves, AdminStep, RequestStep, KafkaStep

\* A step that is not of Redis itself leaves the snapshot restorable: grants
\* are only added behind those the snapshot knows of.
LEMMA SnapshotKept ==
  ASSUME IInv, Moves, UNCHANGED snapshotVars, TypeOK'
  PROVE  Restorable'
<1>type. /\ opens \in Nat /\ credited \in Nat /\ grants \in Seq(Users) /\ saved \in Snapshot
         /\ req \in [Requests -> RequestState]
  BY DEF IInv, TypeOK, EventTypeOK, AdminTypeOK, IssueTypeOK, SnapshotTypeOK
<1>1. opens' \in Nat /\ opens <= opens'
  <2>1. Next
    BY DEF Moves, Next, snapshotVars
  <2> QED
    BY <2>1, OpensCount DEF TypeOK, EventTypeOK, AdminTypeOK
<1>2. credited' \in Nat /\ credited <= credited'
  <2>1. ASSUME NEW a \in Admins, SetStock(a) PROVE credited <= credited'
    BY <2>1, <1>type, EventAssumption DEF SetStock, IInv, NoQty
  <2>2. ASSUME UNCHANGED credited PROVE credited <= credited'
    BY <2>2, <1>type
  <2> QED
    BY <2>1, <2>2 DEF Moves, RequestStep, KafkaStep, AdminStep, ReadEvent, DelIssued, Invalidate,
        Commit, Rollback, Drop, CheckMeta, LuaDuplicate, LuaSoldOut, LuaGrant, KafkaSend, SaveRow,
        NotifyDone, Fail, KafkaDeliver, KafkaLose, adminVars, TypeOK, EventTypeOK, AdminTypeOK
<1>3. /\ Len(grants') \in Nat /\ Len(grants) \in Nat /\ Len(grants) <= Len(grants')
      /\ \A i \in 1..Len(grants) : grants'[i] = grants[i]
      /\ UsersOf(grants) \subseteq UsersOf(grants')
  <2>1. ASSUME NEW r \in Requests, LuaGrant(r) PROVE <1>3
    BY <2>1, <1>type, AppendUser DEF LuaGrant, RequestState
  <2>2. ASSUME UNCHANGED grants PROVE <1>3
    BY <2>2, <1>type
  <2> QED
    BY <2>1, <2>2 DEF Moves, RequestStep, KafkaStep, CheckMeta, LuaDuplicate, LuaSoldOut,
        KafkaSend, SaveRow, NotifyDone, Fail, KafkaDeliver, KafkaLose, issueVars
<1>4. saved.granted \in Nat /\ saved.stock \in Int
  BY <1>type DEF Snapshot, NoStock
<1>5. Cardinality(forgotten \intersect 1..saved.granted) \in Nat
  BY <1>4, ForgottenCount DEF IInv
<1>6. UNCHANGED << saved, forgotten >>
  BY DEF snapshotVars
<1> DEFINE Back == IF saved.stock > 0 THEN saved.stock ELSE 0
           Known == Cardinality(forgotten \intersect 1..saved.granted)
<1>7. saved.granted + Back <= credited' + Known
  BY <1>2, <1>4, <1>5, <1>type DEF IInv, Restorable
<1>8. saved.granted <= Len(grants') /\ saved.issued \subseteq UsersOf(grants')
  BY <1>3, <1>4 DEF IInv, Restorable
<1>9. (opens' <= 1 /\ saved.stock # NoStock) =>
         \A i \in (1..saved.granted) \ forgotten : grants'[i] \in saved.issued
  <2>1. \A i \in 1..saved.granted : grants'[i] = grants[i]
    BY <1>3, <1>4 DEF IInv, Restorable
  <2> QED
    BY <1>1, <1>type, <2>1 DEF IInv, Restorable
<1> QED
  BY <1>6, <1>7, <1>8, <1>9 DEF Restorable

\* What holds of Redis holds of the snapshot that is taken of it.
LEMMA SaveStep == ASSUME IInv, RedisSave PROVE IInv'
<1>1. /\ saved' = [stock |-> stock, issued |-> issued, stream |-> stream,
                   granted |-> Len(grants)]
      /\ UNCHANGED << stock, issued, event, cache, admin, opens, restarts, forgotten, credited,
                     everOpen, req, rows, grants >>
  BY DEF RedisSave, redisVars, adminVars, issueVars
<1>2. Len(grants) \in Nat /\ DOMAIN grants = 1..Len(grants) /\ forgotten \subseteq DOMAIN grants
  BY DEF IInv, TypeOK, IssueTypeOK, SnapshotTypeOK
<1>3. forgotten \intersect 1..Len(grants) = forgotten
  BY <1>2
<1>4. Restorable'
  <2>1. /\ saved'.granted = Len(grants) /\ saved'.stock = stock /\ saved'.issued = issued
    BY <1>1
  <2>2. Len(grants) + Left <= credited + Cardinality(forgotten)
    BY DEF IInv, Credit
  <2>3. saved'.granted + (IF saved'.stock > 0 THEN saved'.stock ELSE 0)
           <= credited' + Cardinality(forgotten' \intersect 1..saved'.granted)
    BY <1>1, <1>3, <2>1, <2>2 DEF Left
  <2>4. (opens' <= 1 /\ saved'.stock # NoStock) =>
           \A i \in (1..saved'.granted) \ forgotten' : grants'[i] \in saved'.issued
    BY <1>1, <1>2, <2>1 DEF IInv, Issued
  <2>5. saved'.granted <= Len(grants') /\ saved'.issued \subseteq UsersOf(grants')
    BY <1>1, <1>2, <2>1 DEF IInv, Issued, UsersOf
  <2> QED
    BY <2>3, <2>4, <2>5 DEF Restorable
<1>5. Rest'
  BY <1>1 DEF IInv, Rest, Opening, Resetting, Filled, Credit, Left, Issued, Gate, Granted,
     OnePerUser, SoldOutIsTrue, UsersOf
<1> QED
  BY <1>4, <1>5, TypeStep DEF IInv, Rest, Next

\* What a restored counter forgets, counted.
LEMMA ForgetCount ==
  ASSUME NEW len \in Nat, NEW g \in Nat, g <= len, NEW F \in SUBSET (1..len)
  PROVE  /\ Cardinality(F \union (g + 1)..len) = Cardinality(F \intersect 1..g) + (len - g)
         /\ (F \union (g + 1)..len) \intersect 1..g = F \intersect 1..g
<1> DEFINE Old == F \intersect 1..g
           New == (g + 1)..len
<1>1. F \union New = Old \union New /\ Old \intersect New = {}
  <2>1. \A i \in 1..len : (i \in 1..g \/ i \in New) /\ ~(i \in 1..g /\ i \in New)
    OBVIOUS
  <2>2. New \subseteq 1..len
    OBVIOUS
  <2> HIDE DEF New
  <2> QED
    BY <2>1, <2>2
<1>2. IsFiniteSet(F) /\ IsFiniteSet(Old)
  <2>1. IsFiniteSet(1..len)
    BY FS_Interval
  <2> QED
    BY <2>1, FS_Subset, FS_Intersection
<1>3. IsFiniteSet(New) /\ Cardinality(New) = len - g
  <2>1. g + 1 \in Int /\ len \in Int
    OBVIOUS
  <2>2. IsFiniteSet(New) /\ Cardinality(New) = IF g + 1 > len THEN 0 ELSE len - (g + 1) + 1
    BY <2>1, FS_Interval
  <2> QED
    BY <2>2
<1>4. Cardinality(Old \union New)
         = Cardinality(Old) + Cardinality(New) - Cardinality(Old \intersect New)
  BY <1>2, <1>3, FS_Union
<1>5. Cardinality({}) = 0 /\ Cardinality(Old) \in Nat
  BY <1>2, FS_EmptySet, FS_CardinalityType
<1>6. (F \union New) \intersect 1..g = Old
  <2>1. New \intersect 1..g = {}
    OBVIOUS
  <2> HIDE DEF New
  <2> QED
    BY <2>1
<1>7. Cardinality(F \union New) = Cardinality(Old) + (len - g)
  <2> HIDE DEF Old, New
  <2>1. Cardinality(F \union New) = Cardinality(Old \union New)
    BY <1>1
  <2>2. Cardinality(Old \intersect New) = 0
    BY <1>1, <1>5
  <2> QED
    BY <1>3, <1>4, <1>5, <2>1, <2>2
<1> QED
  BY <1>6, <1>7

\* A restart: what is restored was restorable, and what it does not know of is
\* forgotten.
LEMMA RestartStep == ASSUME IInv, RedisRestart PROVE IInv'
<1> DEFINE Back(stk) == IF stk > 0 THEN stk ELSE 0
           Known(g)  == Cardinality(forgotten \intersect 1..g)
<1>1. PICK image \in {saved, NoKeys} :
         /\ saved' = image
         /\ stock' = image.stock /\ issued' = image.issued /\ stream' = image.stream
         /\ forgotten' = IF image.stock = NoStock THEN forgotten
                         ELSE forgotten \union (image.granted + 1)..Len(grants)
  BY DEF RedisRestart
<1>2. /\ restarts' = restarts + 1
      /\ UNCHANGED << event, cache, admin, opens, credited, everOpen, req, rows, grants >>
  BY DEF RedisRestart, adminVars
<1>type. /\ opens \in Nat /\ restarts \in Nat /\ credited \in Nat /\ grants \in Seq(Users)
         /\ stock \in NoStock..TotalQty /\ saved \in Snapshot /\ Len(grants) \in Nat
         /\ DOMAIN grants = 1..Len(grants) /\ forgotten \in SUBSET (1..Len(grants))
  BY DEF IInv, TypeOK, EventTypeOK, AdminTypeOK, IssueTypeOK, SnapshotTypeOK
<1>nokeys. /\ NoKeys.granted = 0 /\ NoKeys.stock = NoStock /\ NoKeys.issued = {}
           /\ ~(NoKeys.stock > 0)
  BY DEF NoKeys, NoStock
<1>count. Cardinality(forgotten) \in Nat /\ \A g : Known(g) \in Nat
  BY ForgottenCount DEF IInv
<1>3. image.granted \in Nat /\ image.granted <= Len(grants) /\ image.stock \in Int
  BY <1>type, <1>nokeys DEF IInv, Restorable, Snapshot, NoStock
<1>4. image.issued \subseteq UsersOf(grants)
  BY <1>nokeys DEF IInv, Restorable
<1>5. image.granted + Back(image.stock) <= credited + Known(image.granted)
  <2>1. CASE image = saved
    BY <2>1 DEF IInv, Restorable
  <2>2. CASE image = NoKeys
    <3>1. image.granted = 0 /\ Back(image.stock) = 0
      BY <2>2, <1>nokeys
    <3>2. Known(image.granted) \in Nat
      BY <1>count
    <3> HIDE DEF Back, Known
    <3> QED
      BY <3>1, <3>2, <1>type
  <2> QED
    BY <1>1, <2>1, <2>2
<1>6. (opens <= 1 /\ image.stock # NoStock) =>
         \A i \in (1..image.granted) \ forgotten : grants[i] \in image.issued
  BY <1>nokeys DEF IInv, Restorable
<1>7. forgotten \subseteq forgotten'
  BY <1>1
<1>8. Granted' /\ OnePerUser' /\ SoldOutIsTrue'
  BY <1>2, <1>7, <1>type, RequestsSame
<1>9. Opening' /\ Gate'
  BY <1>2 DEF IInv, Opening, Resetting, Filled, Gate
<1>10. CASE image.stock = NoStock
  <2>1. forgotten' = forgotten /\ stock' = NoStock
    BY <1>1, <1>10
  <2>2. Credit'
    <3>1. Len(grants) + Left <= credited + Cardinality(forgotten)
      BY DEF IInv, Credit
    <3>2. Left \in Nat /\ Left' = 0
      BY <1>type, <2>1 DEF Left, NoStock
    <3>3. Len(grants) + 0 <= credited + Cardinality(forgotten)
      BY <1>type, <1>count, <3>1, <3>2
    <3>4. restarts' # 0
      BY <1>2, <1>type
    <3> QED
      BY <1>2, <2>1, <3>2, <3>3, <3>4 DEF Credit
  <2>3. Issued'
    BY <1>1, <1>2, <1>4, <2>1 DEF Issued, UsersOf
  <2>4. Restorable'
    BY <1>1, <1>2, <1>3, <1>4, <1>5, <1>10, <2>1 DEF Restorable, UsersOf
  <2> QED
    BY <1>8, <1>9, <2>2, <2>3, <2>4, TypeStep DEF IInv, Next
<1>11. CASE image.stock # NoStock
  <2>1. forgotten' = forgotten \union (image.granted + 1)..Len(grants)
    BY <1>1, <1>11
  <2>2. /\ Cardinality(forgotten') = Known(image.granted) + (Len(grants) - image.granted)
        /\ forgotten' \intersect 1..image.granted = forgotten \intersect 1..image.granted
    <3> DEFINE F2 == forgotten \union (image.granted + 1)..Len(grants)
    <3>1. /\ Cardinality(F2) = Cardinality(forgotten \intersect 1..image.granted)
                               + (Len(grants) - image.granted)
          /\ F2 \intersect 1..image.granted = forgotten \intersect 1..image.granted
      BY <1>3, <1>type, ForgetCount
    <3> QED
      BY <2>1, <3>1
  <2>3. Credit'
    <3>1. Left' = Back(image.stock)
      BY <1>1 DEF Left
    <3>2. Len(grants) + Back(image.stock) <= credited + Cardinality(forgotten')
      <4>1. Back(image.stock) \in Int /\ Known(image.granted) \in Nat
        <5>1. Back(image.stock) \in Int
          BY <1>3
        <5>2. Known(image.granted) \in Nat
          BY <1>count
        <5> QED
          BY <5>1, <5>2
      <4> HIDE DEF Back, Known
      <4> QED
        BY <1>3, <1>5, <1>type, <4>1, <2>2
    <3>3. restarts' # 0
      BY <1>2, <1>type
    <3> QED
      BY <1>2, <3>1, <3>2, <3>3 DEF Credit
  <2>4. Issued'
    <3>1. \A i \in DOMAIN grants \ forgotten' : i \in (1..image.granted) \ forgotten
      BY <2>1, <1>3, <1>type
    <3> QED
      BY <1>1, <1>2, <1>4, <1>6, <1>11, <3>1 DEF Issued, UsersOf
  <2>5. Restorable'
    <3>1. saved'.granted + (IF saved'.stock > 0 THEN saved'.stock ELSE 0)
             <= credited' + Cardinality(forgotten' \intersect 1..saved'.granted)
      BY <1>1, <1>2, <1>5, <2>2
    <3>2. (opens' <= 1 /\ saved'.stock # NoStock) =>
             \A i \in (1..saved'.granted) \ forgotten' : grants'[i] \in saved'.issued
      BY <1>1, <1>2, <1>6, <1>7
    <3> QED
      BY <1>1, <1>2, <1>3, <1>4, <3>1, <3>2 DEF Restorable, UsersOf
  <2> QED
    BY <1>8, <1>9, <2>3, <2>4, <2>5, TypeStep DEF IInv, Next
<1> QED
  BY <1>10, <1>11

\* The strengthened invariant is inductive.
THEOREM Inductive == IInv /\ [Next]_vars => IInv'
<1> SUFFICES ASSUME IInv, [Next]_vars PROVE IInv'
  OBVIOUS
<1>1. TypeOK' /\ NoQty'
  BY TypeStep DEF IInv
<1>2. CASE Moves /\ UNCHANGED snapshotVars
  BY <1>1, <1>2, MoveStep, SnapshotKept DEF IInv, Rest
<1>3. CASE RedisSave
  BY <1>3, SaveStep
<1>4. CASE RedisRestart
  BY <1>4, RestartStep
<1>5. CASE UNCHANGED vars
  BY <1>1, <1>5 DEF IInv, vars, redisVars, adminVars, issueVars, snapshotVars, Opening, Resetting,
     Filled, Credit, Left, Issued, Gate, Granted, OnePerUser, SoldOutIsTrue, Restorable, UsersOf
<1> QED
  BY <1>2, <1>3, <1>4, <1>5 DEF Next, Moves

\* It holds initially ...
LEMMA Initially == Init => IInv
<1> SUFFICES ASSUME Init PROVE IInv
  OBVIOUS
<1> USE EventAssumption DEF Init, EventInit, NewRow, Idle, NoStock, NotCached
<1>1. TypeOK
  <2>1. admin \in [Admins -> AdminState]
    BY DEF AdminState, AdminPcs, EventRow, Statuses
  <2>2. req \in [Requests -> RequestState]
    BY DEF RequestState, Pending
  <2>3. event \in EventRow /\ stock \in NoStock..TotalQty
    BY DEF EventRow, Statuses
  <2>4. cache \in [Instances -> Statuses \union {NotCached}]
    OBVIOUS
  <2>5. /\ opens \in Nat /\ changes \in Nat /\ restarts \in Nat /\ credited \in Nat
        /\ everOpen \in BOOLEAN
    OBVIOUS
  <2>6. /\ saved \in Snapshot /\ restarts \in Nat /\ forgotten = {}
    BY DEF NoKeys, Snapshot
  <2>7. /\ stream \in Seq(Users) /\ topic \in Seq(Users) /\ grants \in Seq(Users)
        /\ issued \subseteq Users /\ sending \subseteq Users /\ rows \subseteq Users
    OBVIOUS
  <2> HIDE DEF Init, EventInit
  <2> QED
    BY <2>1, <2>2, <2>3, <2>4, <2>5, <2>6, <2>7 DEF TypeOK, EventTypeOK, AdminTypeOK, IssueTypeOK,
       SnapshotTypeOK
<1>2. NoQty /\ Opening
  BY DEF NoQty, Opening, Resetting, Filled
<1>3. Credit /\ Issued /\ Restorable
  BY FS_EmptySet DEF Credit, Issued, Restorable, NoKeys, Left, UsersOf
<1>4. Gate /\ Granted
  BY DEF Gate, Granted
<1>5. OnePerUser /\ SoldOutIsTrue
  BY DEF OnePerUser, SoldOutIsTrue
<1> QED
  BY <1>1, <1>2, <1>3, <1>4, <1>5 DEF IInv

\* ... and so always.
THEOREM Invariance == Spec => []IInv
  BY Initially, Inductive, PTL DEF Spec

\* Every variable keeps its type.
THEOREM TypeCorrect == Spec => []TypeOK
<1>1. IInv => TypeOK
  BY DEF IInv
<1> QED
  BY <1>1, Invariance, PTL

\* An event opened once grants no more coupons than it has and Redis forgot.
THEOREM OverIssueFree == Spec => []NoOverIssue
<1>1. IInv => NoOverIssue
  <2> SUFFICES ASSUME IInv, opens <= 1 PROVE Len(grants) <= TotalQty + Cardinality(forgotten)
    BY DEF NoOverIssue
  <2>1. /\ opens \in Nat /\ credited \in Nat /\ stock \in Int /\ Len(grants) \in Nat
        /\ Cardinality(forgotten) \in Nat /\ TotalQty \in Nat
    BY ForgottenCount, EventAssumption
       DEF IInv, TypeOK, EventTypeOK, AdminTypeOK, IssueTypeOK, NoStock
  <2>2. credited <= TotalQty
    BY <2>1 DEF IInv, Opening
  <2> QED
    BY <2>1, <2>2 DEF IInv, Credit, Left
<1> QED
  BY <1>1, Invariance, PTL

\* ... and nobody two of them, but for the forgotten ones.
THEOREM OneCouponEach == Spec => []OnePerUser
<1>1. IInv => OnePerUser
  BY DEF IInv
<1> QED
  BY <1>1, Invariance, PTL

\* SOLD_OUT is never a lie, if Redis was not restarted.
THEOREM SoldOutTruthful == Spec => []SoldOutIsTrue
<1>1. IInv => SoldOutIsTrue
  BY DEF IInv
<1> QED
  BY <1>1, Invariance, PTL

\* DUPLICATE is never a lie, however often the event is opened.
THEOREM DuplicateTruthful == Spec => []DuplicateIsTrue
<1>1. IInv => DuplicateIsTrue
  BY DEF IInv, Granted, DuplicateIsTrue
<1> QED
  BY <1>1, Invariance, PTL

\* No coupon leaves the counter before OPEN has been committed.
THEOREM OpenBeforeGrant == Spec => []NoGrantBeforeOpen
<1>1. IInv => NoGrantBeforeOpen
  BY DEF IInv, Gate, NoGrantBeforeOpen
<1> QED
  BY <1>1, Invariance, PTL

\* However often the event is opened, grants never exceed what was credited
\* and what restarts put back.
THEOREM GrantsCovered == Spec => []GrantsWithinCredit
<1>1. IInv => GrantsWithinCredit
  BY DEF IInv, Credit, Left, GrantsWithinCredit
<1> QED
  BY <1>1, Invariance, PTL

-----------------------------------------------------------------------------
\* The counter exists exactly if an opening has filled it (unless Redis was
\* restarted).
CounterFilled == (opens <= 1 /\ restarts = 0) => (stock = NoStock <=> credited = 0)

\* Every step keeps it.
LEMMA CounterStep == IInv /\ CounterFilled /\ [Next]_vars => CounterFilled'
<1> SUFFICES ASSUME IInv, CounterFilled, [Next]_vars PROVE CounterFilled'
  OBVIOUS
<1>type. /\ opens \in Nat /\ restarts \in Nat /\ credited \in Nat
         /\ stock \in NoStock..TotalQty /\ TotalQty \in Nat \ {0} /\ NoStock = -1
  BY EventAssumption DEF IInv, TypeOK, EventTypeOK, AdminTypeOK, IssueTypeOK, SnapshotTypeOK,
     NoStock
<1>1. ASSUME NEW a \in Admins, NEW s \in Statuses, ReadEvent(a, s), restarts' = restarts
      PROVE  CounterFilled'
  BY <1>1, <1>type DEF ReadEvent, CounterFilled, redisVars
<1>2. ASSUME NEW a \in Admins, SetStock(a), restarts' = restarts PROVE CounterFilled'
  <2>1. admin[a].row.issuedQty = 0
    BY DEF IInv, NoQty
  <2>2. stock' = TotalQty /\ credited' = credited + TotalQty
    BY <1>2, <2>1, <1>type DEF SetStock
  <2> QED
    BY <2>2, <1>type DEF CounterFilled
<1>3. ASSUME NEW r \in Requests, LuaGrant(r), restarts' = restarts PROVE CounterFilled'
  BY <1>3, <1>type DEF LuaGrant, InStock, CounterFilled, adminVars
<1>4. CASE RedisRestart
  BY <1>4, <1>type DEF RedisRestart, CounterFilled
<1>5. ASSUME UNCHANGED << stock, opens, restarts, credited >> PROVE CounterFilled'
  BY <1>5 DEF CounterFilled
<1> QED
  BY <1>1, <1>2, <1>3, <1>4, <1>5 DEF Next, AdminStep, RequestStep, DelIssued, Invalidate, Commit,
      Rollback, Drop, CheckMeta, LuaDuplicate, LuaSoldOut, KafkaSend, SaveRow, NotifyDone, Fail,
      KafkaStep, KafkaDeliver, KafkaLose, RedisSave, vars, adminVars, redisVars, snapshotVars

\* The remaining-quantity query answers what is left.
THEOREM RemainingExact == Spec => []RemainingIsExact
<1>1. Init => CounterFilled
  BY DEF Init, EventInit, CounterFilled
<1>2. IInv /\ CounterFilled => RemainingIsExact
  <2> SUFFICES ASSUME IInv, CounterFilled, opens <= 1, restarts = 0
               PROVE  Remaining = TotalQty - Len(grants)
    BY DEF RemainingIsExact
  <2>1. /\ opens \in Nat /\ credited \in Nat /\ stock \in NoStock..TotalQty
        /\ Len(grants) \in Nat /\ TotalQty \in Nat \ {0} /\ NoStock = -1
    BY EventAssumption DEF IInv, TypeOK, EventTypeOK, AdminTypeOK, NoStock
  <2>2. Len(grants) + Left = credited
    BY DEF IInv, Credit
  <2>3. credited = 0 \/ credited = TotalQty
    BY <2>1 DEF IInv, Opening
  <2>4. event.issuedQty = 0
    BY DEF IInv, NoQty
  <2> QED
    BY <2>1, <2>2, <2>3, <2>4 DEF CounterFilled, Remaining, Left
<1> QED
  BY <1>1, <1>2, CounterStep, Initially, Inductive, PTL DEF Spec

-----------------------------------------------------------------------------
\* A grant of sync mode has its row, or a request that is about to write it,
\* or a request that ended in an error; no step takes the last of them away.
LEMMA RecordStep == TypeOK /\ UnrecordedIsAnError /\ [Next]_vars => UnrecordedIsAnError'
<1> SUFFICES ASSUME TypeOK, UnrecordedIsAnError, [Next]_vars,
                    \A r \in Requests : req'[r].mode = "sync"
             PROVE  \A u \in UsersOf(grants') \ rows' :
                       \E r \in Requests : req'[r].user = u /\ req'[r].pc \in {"save", "ERROR"}
  BY DEF UnrecordedIsAnError, UsersOf
<1> DEFINE Covered(u) == \E r \in Requests : req[r].user = u /\ req[r].pc \in {"save", "ERROR"}
           Covered2(u) == \E r \in Requests : req'[r].user = u /\ req'[r].pc \in {"save", "ERROR"}
<1>type. req \in [Requests -> RequestState] /\ grants \in Seq(Users)
  BY DEF TypeOK, IssueTypeOK
<1>move. ASSUME NEW r \in Requests, NEW pc, Goto(r, pc)
         PROVE  /\ req'[r].pc = pc /\ req'[r].user = req[r].user /\ req'[r].mode = req[r].mode
                /\ \A q \in Requests \ {r} : req'[q] = req[q]
  BY <1>move, <1>type DEF Goto, RequestState
\* A request that does not leave "save" or "ERROR" keeps everybody covered.
<1>stay. ASSUME NEW r \in Requests, NEW pc, Goto(r, pc),
                req[r].pc \notin {"save", "ERROR"} \/ pc = "ERROR", UNCHANGED << grants, rows >>
         PROVE  \A u \in UsersOf(grants') \ rows' : Covered2(u)
  <2>1. \A q \in Requests : req[q].mode = "sync"
    BY <1>stay, <1>move
  <2>2. \A u \in UsersOf(grants) \ rows : Covered(u)
    BY <2>1 DEF UnrecordedIsAnError
  <2>3. \A u : Covered(u) => Covered2(u)
    BY <1>stay, <1>move
  <2> QED
    BY <2>2, <2>3, <1>stay DEF UsersOf
<1>same. ASSUME UNCHANGED << req, grants, rows >>
         PROVE  \A u \in UsersOf(grants') \ rows' : Covered2(u)
  BY <1>same DEF UnrecordedIsAnError, UsersOf
<1>1. ASSUME NEW r \in Requests, NEW i \in Instances, NEW w \in BOOLEAN, CheckMeta(r, i, w)
      PROVE  \A u \in UsersOf(grants') \ rows' : Covered2(u)
  BY <1>1, <1>stay DEF CheckMeta
<1>2. ASSUME NEW r \in Requests, LuaDuplicate(r) \/ LuaSoldOut(r) \/ NotifyDone(r)
      PROVE  \A u \in UsersOf(grants') \ rows' : Covered2(u)
  BY <1>2, <1>stay DEF LuaDuplicate, LuaSoldOut, NotifyDone
<1>3. ASSUME NEW r \in Requests, LuaGrant(r)
      PROVE  \A u \in UsersOf(grants') \ rows' : Covered2(u)
  <2> DEFINE w == req[r].user
  <2>1. /\ req[r].pc = "lua" /\ Goto(r, AfterOk(r))
        /\ grants' = Append(grants, w) /\ rows' = rows /\ w \in Users
    BY <1>3, <1>type DEF LuaGrant, RequestState
  <2>2. \A q \in Requests : req[q].mode = "sync"
    BY <2>1, <1>move
  <2>3. req'[r].pc = "save" /\ req'[r].user = w
    BY <2>1, <2>2, <1>move DEF AfterOk
  <2>4. UsersOf(grants') = UsersOf(grants) \union {w}
    BY <2>1, <1>type, AppendUser
  <2>5. \A u \in UsersOf(grants) \ rows : Covered(u)
    BY <2>2 DEF UnrecordedIsAnError
  <2>6. \A u : Covered(u) => Covered2(u)
    BY <2>1, <2>3, <1>move
  <2> QED
    BY <2>1, <2>3, <2>4, <2>5, <2>6
<1>4. ASSUME NEW r \in Requests, KafkaSend(r)
      PROVE  \A u \in UsersOf(grants') \ rows' : Covered2(u)
  BY <1>4, <1>stay DEF KafkaSend
<1>5. ASSUME NEW r \in Requests, SaveRow(r)
      PROVE  \A u \in UsersOf(grants') \ rows' : Covered2(u)
  <2>1. \E pc : Goto(r, pc) /\ rows' = rows \union {req[r].user} /\ grants' = grants
    BY <1>5 DEF SaveRow
  <2>2. \A q \in Requests : req[q].mode = "sync"
    BY <2>1, <1>move
  <2>3. \A u \in UsersOf(grants) \ rows : Covered(u)
    BY <2>2 DEF UnrecordedIsAnError
  <2>4. \A u : Covered(u) /\ u # req[r].user => Covered2(u)
    BY <2>1, <1>move
  <2> QED
    BY <2>1, <2>3, <2>4 DEF UsersOf
<1>6. ASSUME NEW r \in Requests, Fail(r)
      PROVE  \A u \in UsersOf(grants') \ rows' : Covered2(u)
  BY <1>6, <1>stay DEF Fail
<1> QED
  BY <1>1, <1>2, <1>3, <1>4, <1>5, <1>6, <1>same DEF Next, AdminStep, RequestStep, KafkaStep,
      KafkaDeliver, KafkaLose, RedisSave, RedisRestart, vars, issueVars

\* In sync mode no coupon without a row is lost in silence.
THEOREM UnrecordedReported == Spec => []UnrecordedIsAnError
<1>1. Init => UnrecordedIsAnError
  BY DEF Init, UnrecordedIsAnError, UsersOf
<1>2. IInv => TypeOK
  BY DEF IInv
<1> QED
  BY <1>1, <1>2, RecordStep, Invariance, PTL DEF Spec

-----------------------------------------------------------------------------
\* A step of an event opened at most once is a step of the allocation: the OK
\* of the script grants, the INSERT of sync mode records, all else stutters.
LEMMA StepRefines ==
  ASSUME IInv, IInv', opens <= 1, forgotten = {}, [Next]_vars
  PROVE  [Allocation!Next]_(Allocation!vars)
<1> USE DEF Allocation!vars, Allocation!Next
<1>1. ASSUME NEW r \in Requests, LuaGrant(r) PROVE Allocation!Next
  <2> DEFINE u == req[r].user
  <2>1. u \in Users /\ grants' = Append(grants, u) /\ rows' = rows
    BY <1>1 DEF LuaGrant, IInv, TypeOK, IssueTypeOK, RequestState
  <2>2. u \notin UsersOf(grants)
    BY <1>1 DEF LuaGrant, HasCoupon, InStock, IInv, Issued, NoStock, UsersOf
  <2>3. Len(grants) < TotalQty
    <3>1. stock > 0 /\ stock \in Int /\ credited \in Nat /\ credited <= TotalQty
      BY <1>1, EventAssumption
         DEF LuaGrant, InStock, IInv, TypeOK, EventTypeOK, AdminTypeOK, Opening, NoStock
    <3>2. Len(grants) \in Nat /\ Len(grants) + stock <= credited
      BY <3>1, FS_EmptySet DEF IInv, TypeOK, IssueTypeOK, Credit, Left
    <3> QED
      BY <3>1, <3>2, EventAssumption
  <2>4. Allocation!Grant(u)
    BY <2>1, <2>2, <2>3 DEF Allocation!Grant, Allocation!Winners, UsersOf
  <2> QED
    BY <2>1, <2>4
<1>2. ASSUME NEW r \in Requests, SaveRow(r) PROVE Allocation!Next
  <2>1. req[r].user \in Users /\ req[r].user \in UsersOf(grants)
    BY <1>2 DEF SaveRow, IInv, TypeOK, IssueTypeOK, RequestState, Granted
  <2>2. Allocation!Record(req[r].user)
    BY <1>2, <2>1 DEF SaveRow, Allocation!Record, Allocation!Winners, UsersOf
  <2> QED
    BY <2>1, <2>2
<1>3. ASSUME UNCHANGED << grants, rows >> PROVE UNCHANGED Allocation!vars
  BY <1>3
<1> QED
  BY <1>1, <1>2, <1>3 DEF Next, AdminStep, RequestStep, CheckMeta, LuaDuplicate, LuaSoldOut,
      KafkaSend, NotifyDone, Fail, KafkaStep, KafkaDeliver, KafkaLose, RedisSave, RedisRestart,
      vars,
      issueVars

\* What is forgotten stays forgotten.
LEMMA ForgottenGrows == ASSUME [Next]_vars PROVE forgotten \subseteq forgotten'
  BY DEF Next, RedisSave, RedisRestart, snapshotVars, vars

\* However often an event may be opened and Redis restarted, until the second
\* opening or the first forgotten grant every step is one of the first-come
\* allocation.
THEOREM Refinement == Spec => ImplementsAllocation
<1>1. Init => Allocation!Init
  BY DEF Init, Allocation!Init
<1>2. IInv /\ IInv' /\ [Next]_vars
        => [opens' <= 1 /\ forgotten' = {} => Allocation!Next]_(Allocation!vars)
  <2> SUFFICES ASSUME IInv, IInv', [Next]_vars, opens' <= 1, forgotten' = {}
               PROVE  [Allocation!Next]_(Allocation!vars)
    OBVIOUS
  <2>1. opens' \in Nat
    BY DEF IInv, TypeOK, EventTypeOK, AdminTypeOK
  <2>2. opens <= 1
    BY <2>1, OpensCount
  <2>3. forgotten = {}
    BY ForgottenGrows
  <2> QED
    BY <2>2, <2>3, StepRefines
<1> QED
  BY <1>1, <1>2, Invariance, PTL DEF Spec, ImplementsAllocation

\* A history in which an event is not opened twice and Redis never forgets a
\* grant is one of the whole specification of the allocation.
THEOREM OnceRefines == Spec /\ [](opens <= 1 /\ forgotten = {}) => Allocation!Spec
<1>1. Init => Allocation!Init
  BY DEF Init, Allocation!Init
<1>2. IInv /\ IInv' /\ (opens <= 1 /\ forgotten = {}) /\ [Next]_vars
        => [Allocation!Next]_(Allocation!vars)
  BY StepRefines
<1> QED
  BY <1>1, <1>2, Invariance, PTL DEF Spec, Allocation!Spec

-----------------------------------------------------------------------------
(* What the issuing side hands on to the workers.                           *)

\* Whatever is on the stream, in its snapshot, in the producer's buffer or on the topic is a
\* coupon the script said OK to.
HandedOn ==
    UsersOf(stream) \union UsersOf(saved.stream) \union sending \union UsersOf(topic)
        \subseteq UsersOf(grants)

LEMMA HandedOnStep == IInv /\ HandedOn /\ [Next]_vars => HandedOn'
<1> SUFFICES ASSUME IInv, HandedOn, [Next]_vars PROVE HandedOn'
  OBVIOUS
<1>type. /\ req \in [Requests -> RequestState] /\ grants \in Seq(Users)
         /\ stream \in Seq(Users) /\ topic \in Seq(Users) /\ sending \subseteq Users
  BY DEF IInv, TypeOK, IssueTypeOK
<1>1. ASSUME NEW r \in Requests, LuaGrant(r), saved' = saved PROVE HandedOn'
  <2> DEFINE u == req[r].user
  <2>1. /\ u \in Users /\ grants' = Append(grants, u)
        /\ stream' = Append(stream, u) \/ stream' = stream
        /\ sending' = sending /\ topic' = topic /\ saved' = saved
    BY <1>1, <1>type DEF LuaGrant, RequestState
  <2>2. UsersOf(grants') = UsersOf(grants) \union {u}
    BY <2>1, <1>type, AppendUser
  <2>3. UsersOf(Append(stream, u)) = UsersOf(stream) \union {u}
    BY <2>1, <1>type, AppendUser
  <2>4. UsersOf(stream') \subseteq UsersOf(stream) \union {u}
    BY <2>1, <2>3
  <2> QED
    BY <2>1, <2>2, <2>4 DEF HandedOn
<1>2. ASSUME NEW r \in Requests, KafkaSend(r), saved' = saved PROVE HandedOn'
  <2>1. req[r].user \in UsersOf(grants)
    BY <1>2 DEF KafkaSend, IInv, Granted
  <2> QED
    BY <1>2, <2>1 DEF KafkaSend, HandedOn
<1>3. ASSUME NEW u \in Users, KafkaDeliver(u), saved' = saved PROVE HandedOn'
  <2>1. UsersOf(topic') = UsersOf(topic) \union {u}
    BY <1>3, <1>type, AppendUser DEF KafkaDeliver
  <2> QED
    BY <1>3, <2>1 DEF KafkaDeliver, HandedOn
<1>4. ASSUME NEW u \in Users, KafkaLose(u), saved' = saved PROVE HandedOn'
  BY <1>4 DEF KafkaLose, HandedOn
<1>none. UsersOf(NoKeys.stream) = {}
  BY DEF NoKeys, UsersOf
<1>5. ASSUME RedisRestart PROVE HandedOn'
  <2>1. PICK image \in {saved, NoKeys} : stream' = image.stream /\ saved' = image
    BY <1>5 DEF RedisRestart
  <2>2. UsersOf(image.stream) \subseteq UsersOf(grants)
    BY <1>none DEF HandedOn
  <2>3. UsersOf(stream') = UsersOf(image.stream) /\ UsersOf(saved'.stream) = UsersOf(image.stream)
    BY <2>1
  <2>4. sending' = sending /\ UsersOf(topic') = UsersOf(topic) /\ UsersOf(grants') = UsersOf(grants)
    BY <1>5 DEF RedisRestart
  <2> QED
    BY <2>2, <2>3, <2>4 DEF HandedOn
<1>6. ASSUME RedisSave PROVE HandedOn'
  <2>1. saved'.stream = stream /\ UNCHANGED << stream, sending, topic, grants >>
    BY <1>6 DEF RedisSave, issueVars
  <2> QED
    BY <2>1 DEF HandedOn
<1>7. ASSUME UNCHANGED << stream, saved, sending, topic, grants >> PROVE HandedOn'
  BY <1>7 DEF HandedOn
<1> QED
  BY <1>1, <1>2, <1>3, <1>4, <1>5, <1>6, <1>7 DEF Next, AdminStep, RequestStep, KafkaStep,
      CheckMeta, LuaDuplicate, LuaSoldOut, SaveRow, NotifyDone, Fail, vars, issueVars, snapshotVars

\* The workers are only ever given coupons that were granted.
THEOREM SentAreGranted == Spec => []HandedOn
<1>1. Init => HandedOn
  <2> SUFFICES ASSUME Init PROVE HandedOn
    OBVIOUS
  <2>1. stream = << >> /\ saved.stream = << >> /\ topic = << >> /\ sending = {}
    BY DEF Init, NoKeys
  <2>2. UsersOf(<< >>) = {}
    BY DEF UsersOf
  <2> QED
    BY <2>1, <2>2 DEF HandedOn
<1> QED
  BY <1>1, HandedOnStep, Invariance, PTL DEF Spec

=============================================================================
