------------------------------- MODULE LuaIssue -------------------------------
(***************************************************************************)
(* Issuing coupons with the Redis Lua script (strategy 3, the deployed     *)
(* one): every request looks at its instance's copy of the event, then     *)
(* runs the script, and then, by coupon.record.mode,                       *)
(*   "stream"  the script itself has put the issue on stream:issue,        *)
(*   "kafka"   the request hands the issue to the Kafka producer,          *)
(*   "sync"    the request writes the row of coupon_issue.                 *)
(* LuaScriptIssueStrategy (servlet) and ReactiveCouponController (Netty,   *)
(* stream only) take these same steps.                                     *)
(*                                                                         *)
(* docker-compose.yml:30 turns the append-only file off and leaves the     *)
(* snapshots on: a Redis that restarts comes back with the keys as the     *)
(* last snapshot has them, or with none if its volume is gone.             *)
(***************************************************************************)
EXTENDS EventAdmin, Sequences, FiniteSets

CONSTANTS
    Users,          \* people
    Requests,       \* HTTP requests; several may come from one person
    RecordModes,    \* values of coupon.record.mode to look at
    NotifyEnabled,  \* coupon.notify.enabled
    MaxRestarts     \* bound: restarts of Redis

ASSUME LuaAssumption ==
    /\ MaxRestarts \in Nat
    /\ RecordModes \subseteq {"stream", "kafka", "sync"}
    /\ NotifyEnabled \in BOOLEAN

VARIABLES
    req,       \* every request: where it is, who sent it, the record mode
    stream,    \* Redis stream:issue, the users in XADD order
    sending,   \* users whose Kafka record is still in the producer's buffer
    topic,     \* the Kafka topic coupon.issue
    rows,      \* coupon_issue: the users with a row
    grants,    \* history: the users the script said OK to, in that order
    saved,     \* the last snapshot of Redis
    restarts,  \* restarts of Redis so far
    forgotten  \* history: positions in grants of the coupons that a counter
               \* restored from an older snapshot does not know to be gone

issueVars == << req, stream, sending, topic, rows, grants >>
snapshotVars == << saved, restarts, forgotten >>
vars == << redisVars, adminVars, issueVars, snapshotVars >>

\* A snapshot: the keys, and, as history, how many coupons had been granted.
Snapshot == [stock : NoStock..TotalQty, issued : SUBSET Users, stream : Seq(Users),
             granted : Nat]

NoKeys == [stock |-> NoStock, issued |-> {}, stream |-> << >>, granted |-> 0]

UsersOf(log) == { log[i] : i \in DOMAIN log }

Answers == {"CREATED", "NOT_OPEN", "SOLD_OUT", "DUPLICATE", "ERROR"}
Pending == {"meta", "lua", "send", "save", "notify"}

Init ==
    /\ EventInit
    /\ \E mode \in RecordModes :    \* the deployment has one mode
          req \in [Requests -> [pc : {"meta"}, user : Users, mode : {mode}]]
    /\ stream = << >> /\ topic = << >> /\ grants = << >>
    /\ sending = {} /\ rows = {}
    /\ saved = NoKeys /\ restarts = 0 /\ forgotten = {}

Goto(r, pc) == req' = [req EXCEPT ![r].pc = pc]

-----------------------------------------------------------------------------
(* A request.                                                               *)

\* Faulty: the status is not looked at.
IsOpen_AnyStatus(i, inWindow) == inWindow

\* The load balancer chose instance i; inWindow says whether "now" lies
\* between openAt and closeAt.
IsOpen(i, inWindow) == MetaOf(i) = "OPEN" /\ inWindow   \* EventMeta.isOpen(now)

CheckMeta(r, i, inWindow) ==
    /\ req[r].pc = "meta"
    /\ Load(i)
    /\ Goto(r, IF IsOpen(i, inWindow) THEN "lua" ELSE "NOT_OPEN")
    /\ UNCHANGED << redisVars, event, admin, opens, changes, credited, everOpen,
                    stream, sending, topic, rows, grants >>

\* Faulty: the issued set is never consulted.
HasCoupon_Never(u) == FALSE

\* Faulty: the comparison is off by one, either way.
InStock_NotNegative == stock >= 0
InStock_AboveOne    == stock > 1

\* The script: one atomic step in Redis, with three outcomes.
HasCoupon(u) == u \in issued
InStock      == stock > 0      \* nil is NoStock

LuaDuplicate(r) ==
    /\ req[r].pc = "lua"
    /\ HasCoupon(req[r].user)
    /\ Goto(r, "DUPLICATE")
    /\ UNCHANGED << redisVars, adminVars, stream, sending, topic, rows, grants >>

\* Faulty: the user is registered before the counter is looked at.
LuaSoldOut_Registers(r) ==
    /\ req[r].pc = "lua"
    /\ ~HasCoupon(req[r].user) /\ ~InStock
    /\ issued' = issued \union {req[r].user}
    /\ Goto(r, "SOLD_OUT")
    /\ UNCHANGED << stock, adminVars, stream, sending, topic, rows, grants >>

LuaSoldOut(r) ==
    /\ req[r].pc = "lua"
    /\ ~HasCoupon(req[r].user) /\ ~InStock
    /\ Goto(r, "SOLD_OUT")
    /\ UNCHANGED << redisVars, adminVars, stream, sending, topic, rows, grants >>

AfterNotify == IF NotifyEnabled THEN "notify" ELSE "CREATED"

\* Faulty: sync mode forgets to write the row.
AfterOk_NoRow(r) == IF req[r].mode = "kafka" THEN "send" ELSE AfterNotify

AfterOk(r) == CASE req[r].mode = "stream" -> AfterNotify
                [] req[r].mode = "kafka"  -> "send"
                [] req[r].mode = "sync"   -> "save"

LuaGrant(r) ==
    LET u == req[r].user
    IN  /\ req[r].pc = "lua"
        /\ ~HasCoupon(u) /\ InStock
        /\ stock' = stock - 1
        /\ issued' = issued \union {u}
        /\ stream' = IF req[r].mode = "stream" THEN Append(stream, u) ELSE stream
        /\ grants' = Append(grants, u)
        /\ Goto(r, AfterOk(r))
        /\ UNCHANGED << adminVars, sending, topic, rows >>

\* kafkaTemplate.send: the future it returns is dropped.
KafkaSend(r) ==
    /\ req[r].pc = "send"
    /\ sending' = sending \union {req[r].user}
    /\ Goto(r, AfterNotify)
    /\ UNCHANGED << redisVars, adminVars, stream, topic, rows, grants >>

\* issueRepository.save, whose only expected failure is uk_event_user.
SaveRow(r) ==
    /\ req[r].pc = "save"
    /\ rows' = rows \union {req[r].user}
    /\ Goto(r, IF req[r].user \in rows THEN "DUPLICATE" ELSE AfterNotify)
    /\ UNCHANGED << redisVars, adminVars, stream, sending, topic, grants >>

\* The notification is over, whatever became of it: the coupon stays.
NotifyDone(r) ==
    /\ req[r].pc = "notify"
    /\ Goto(r, "CREATED")
    /\ UNCHANGED << redisVars, adminVars, stream, sending, topic, rows, grants >>

\* Any remote call may fail or time out, after it took effect or before, and
\* the process may die: the client sees an error.
Fail(r) ==
    /\ req[r].pc \in Pending
    /\ Goto(r, "ERROR")
    /\ UNCHANGED << redisVars, adminVars, stream, sending, topic, rows, grants >>

-----------------------------------------------------------------------------
(* The Kafka producer, behind the requests' backs.                          *)

KafkaDeliver(u) ==
    /\ u \in sending
    /\ sending' = sending \ {u}
    /\ topic' = Append(topic, u)
    /\ UNCHANGED << redisVars, adminVars, req, stream, rows, grants >>

KafkaLose(u) ==
    /\ u \in sending
    /\ sending' = sending \ {u}
    /\ UNCHANGED << redisVars, adminVars, req, stream, topic, rows, grants >>

KafkaStep == \E u \in Users : KafkaDeliver(u) \/ KafkaLose(u)

-----------------------------------------------------------------------------
(* Redis itself.                                                            *)

\* A save point is reached, or Redis is told to stop.  (Once no restart is
\* left within the bound nobody would read the snapshot.)
RedisSave ==
    /\ restarts < MaxRestarts
    /\ saved' = [stock |-> stock, issued |-> issued, stream |-> stream,
                 granted |-> Len(grants)]
    /\ UNCHANGED << redisVars, adminVars, issueVars, restarts, forgotten >>

\* Redis comes back with the last snapshot, or empty in a new container.  A
\* counter that is back forgets what was granted since the snapshot.
RedisRestart ==
    /\ restarts < MaxRestarts
    /\ restarts' = restarts + 1
    /\ \E image \in {saved, NoKeys} :
          /\ saved' = image
          /\ stock' = image.stock /\ issued' = image.issued /\ stream' = image.stream
          /\ forgotten' = IF image.stock = NoStock
                          THEN forgotten
                          ELSE forgotten \union (image.granted + 1)..Len(grants)
    /\ UNCHANGED << adminVars, req, sending, topic, rows, grants >>

-----------------------------------------------------------------------------
RequestStep ==
    \E r \in Requests :
        \/ \E i \in Instances, inWindow \in BOOLEAN : CheckMeta(r, i, inWindow)
        \/ LuaDuplicate(r) \/ LuaSoldOut(r) \/ LuaGrant(r)
        \/ KafkaSend(r) \/ SaveRow(r) \/ NotifyDone(r)
        \/ Fail(r)

Next ==
    \/ RequestStep /\ UNCHANGED snapshotVars
    \/ KafkaStep /\ UNCHANGED snapshotVars
    \/ AdminStep /\ UNCHANGED << issueVars, snapshotVars >>
    \/ RedisSave
    \/ RedisRestart

Spec == Init /\ [][Next]_vars

-----------------------------------------------------------------------------
(* Properties.                                                              *)

RequestState == [pc : Pending \union Answers, user : Users, mode : RecordModes]

IssueTypeOK ==
    /\ issued \subseteq Users
    /\ req \in [Requests -> RequestState]
    /\ stream \in Seq(Users) /\ topic \in Seq(Users) /\ grants \in Seq(Users)
    /\ sending \subseteq Users /\ rows \subseteq Users

SnapshotTypeOK ==
    /\ saved \in Snapshot /\ restarts \in Nat
    /\ forgotten \subseteq DOMAIN grants

TypeOK == EventTypeOK /\ IssueTypeOK /\ SnapshotTypeOK

\* Over-issue: an event that was opened once grants no more coupons than it
\* has and those that a restart of Redis has forgotten, however its requests,
\* the opening, snapshots and restarts interleave (the check, DECR and SADD
\* of the script; initialize before the commit).  A restart that brings back
\* what Redis held, or nothing at all, costs no coupon.
NoOverIssue == opens <= 1 => Len(grants) <= TotalQty + Cardinality(forgotten)

\* One coupon each: in an event opened once nobody is granted a second one,
\* whatever he sends, to whichever instance, unless Redis came back from a
\* snapshot in which he did not yet have the first.
OnePerUser ==
    opens <= 1 =>
        \A i, j \in DOMAIN grants : (grants[i] = grants[j] /\ i < j) => i \in forgotten

\* However often the event is opened, Redis never grants more than the
\* openings put into the counter and its restarts put back into it, and what
\* is left accounts for the rest.
GrantsWithinCredit ==
    Len(grants) + (IF stock > 0 THEN stock ELSE 0) <= credited + Cardinality(forgotten)

\* Nobody is turned away while there are coupons: in an event opened once,
\* unless Redis was restarted, SOLD_OUT is only ever answered when all are
\* granted.  (A request reaches the script only after OPEN was committed, and
\* that is after SET stock.)
SoldOutIsTrue ==
    (opens <= 1 /\ restarts = 0 /\ \E r \in Requests : req[r].pc = "SOLD_OUT")
        => Len(grants) = TotalQty

\* The counter is filled before MySQL says OPEN, but nobody can draw from it
\* until the status has been committed: metadata is only loaded from MySQL.
NoGrantBeforeOpen == grants # << >> => everOpen

\* No false DUPLICATE: who is told so was granted a coupon before.
DuplicateIsTrue ==
    \A r \in Requests : req[r].pc = "DUPLICATE" => req[r].user \in UsersOf(grants)

\* Sync mode: a coupon taken from the counter that has no row in coupon_issue
\* is never lost in silence: its request is about to write the row, or its
\* client was answered with an error.
UnrecordedIsAnError ==
    (\A r \in Requests : req[r].mode = "sync") =>
        \A u \in UsersOf(grants) \ rows :
            \E r \in Requests : req[r].user = u /\ req[r].pc \in {"save", "ERROR"}

\* Until it is opened a second time, or a restart makes Redis forget a grant,
\* an event is the first-come allocation: whatever the requests and the status
\* changes do and even if Redis loses all its keys, each step is one of the
\* allocation's or changes neither the winners nor the ledger.
Allocation == INSTANCE CouponAllocation WITH winners <- grants, recorded <- rows
ImplementsAllocation ==
    Allocation!Init /\ [][opens' <= 1 /\ forgotten' = {} => Allocation!Next]_(Allocation!vars)

\* What the remaining-quantity query answers is what is left, also before the
\* counter exists and after it is exhausted, for an event opened once whose
\* Redis was not restarted.  (Without the data it answers the full quantity:
\* the Redis strategies never write issued_qty.)
RemainingIsExact == (opens <= 1 /\ restarts = 0) => Remaining = TotalQty - Len(grants)

\* The claim without the restriction to one opening (README.md:3 and
\* CouponEventService.java:57, which says OPEN resets the counter to what is
\* left).
NeverOverIssued == Len(grants) <= TotalQty
=============================================================================
