----------------------------- MODULE RedissonIssue -----------------------------
(***************************************************************************)
(* Issuing under a Redisson lock (strategy 2).  The lock has a lease of    *)
(* three seconds: whoever holds it longer (a GC pause, a slow Redis) goes  *)
(* on without it, next to its successor.  Inside, the membership test, the *)
(* look at the counter, DECR and SADD are four commands.                   *)
(*                                                                          *)
(* Redis keeps its data here, so that a counter of -1 is never a missing   *)
(* one: a request gets here after the counter was set.                     *)
(***************************************************************************)
EXTENDS EventAdmin, FiniteSets, Sequences

CONSTANTS
    Users,        \* people
    Requests,     \* HTTP requests; several may come from one person
    NoHolder,     \* the lock is free
    MaxOverruns   \* bound: leases that run out under a live holder

ASSUME LockAssumption == NoHolder \notin Requests /\ MaxOverruns \in Nat

VARIABLES
    req,       \* every request: where it is, who sent it, what it has found out
    lock,      \* lock:issue:{id}: the request whose thread holds it
    rows,      \* coupon_issue: the users with a row
    grants,    \* history: the users registered for a coupon, in that order
    overran    \* history: the requests whose lease ran out on them

issueVars == << req, lock, rows, grants, overran >>
vars == << redisVars, adminVars, issueVars >>

Answers  == {"CREATED", "NOT_OPEN", "LOCK_TIMEOUT", "SOLD_OUT", "DUPLICATE", "ERROR"}
Critical == {"issued?", "stock?", "decr", "sadd", "held?", "unlock"}
Pending  == Critical \union {"meta", "lock", "save"}

\* "finding" is where the request goes after the finally block.
RequestState == [pc : Pending \union Answers, user : Users,
                 finding : {"save", "DUPLICATE", "SOLD_OUT"}]

Init ==
    /\ EventInit
    /\ req \in [Requests -> [pc : {"meta"}, user : Users, finding : {"save"}]]
    /\ lock = NoHolder
    /\ rows = {} /\ grants = << >> /\ overran = {}

Goto(r, pc) == req' = [req EXCEPT ![r].pc = pc]

\* An early throw inside the try: its finally block comes first.
Finally(r, finding) == req' = [req EXCEPT ![r].pc = "held?", ![r].finding = finding]

-----------------------------------------------------------------------------
(* A request.                                                               *)

IsOpen(i, inWindow) == MetaOf(i) = "OPEN" /\ inWindow   \* EventMeta.isOpen(now)

CheckMeta(r, i, inWindow) ==
    /\ req[r].pc = "meta"
    /\ Load(i)
    /\ Goto(r, IF IsOpen(i, inWindow) THEN "lock" ELSE "NOT_OPEN")
    /\ UNCHANGED << redisVars, event, admin, opens, changes, credited, everOpen,
                    lock, rows, grants, overran >>

Lockable == lock = NoHolder

TryLock(r) ==
    /\ req[r].pc = "lock"
    /\ Lockable
    /\ lock' = r
    /\ Goto(r, "issued?")
    /\ UNCHANGED << redisVars, adminVars, rows, grants, overran >>

\* Five seconds of waiting, or an interrupt.
LockTimeout(r) ==
    /\ req[r].pc = "lock"
    /\ Goto(r, "LOCK_TIMEOUT")
    /\ UNCHANGED << redisVars, adminVars, lock, rows, grants, overran >>

HasCoupon(u) == u \in issued

IsIssued(r) ==
    /\ req[r].pc = "issued?"
    /\ IF HasCoupon(req[r].user) THEN Finally(r, "DUPLICATE") ELSE Goto(r, "stock?")
    /\ UNCHANGED << redisVars, adminVars, lock, rows, grants, overran >>

\* Faulty: nobody looks.
OutOfStock_Never == FALSE

OutOfStock == stock <= 0

CurrentStock(r) ==
    /\ req[r].pc = "stock?"
    /\ IF OutOfStock THEN Finally(r, "SOLD_OUT") ELSE Goto(r, "decr")
    /\ UNCHANGED << redisVars, adminVars, lock, rows, grants, overran >>

\* decrementAndRegister: DECR, and then SADD.
Decr(r) ==
    /\ req[r].pc = "decr"
    /\ stock' = stock - 1
    /\ Goto(r, "sadd")
    /\ UNCHANGED << issued, adminVars, lock, rows, grants, overran >>

Sadd(r) ==
    /\ req[r].pc = "sadd"
    /\ issued' = issued \union {req[r].user}
    /\ grants' = Append(grants, req[r].user)
    /\ Finally(r, "save")
    /\ UNCHANGED << stock, adminVars, lock, rows, overran >>

\* Faulty: isHeldByCurrentThread is not asked, and whoever has it loses it.
Owns_Always(r) == TRUE

Owns(r) == lock = r

\* isHeldByCurrentThread ...
AskHeld(r) ==
    /\ req[r].pc = "held?"
    /\ Goto(r, IF Owns(r) THEN "unlock" ELSE req[r].finding)
    /\ UNCHANGED << redisVars, adminVars, lock, rows, grants, overran >>

\* ... and unlock, which throws if the lease ran out in between: the request
\* fails, whatever it has taken.
Unlock(r) ==
    /\ req[r].pc = "unlock"
    /\ IF Owns(r)
       THEN lock' = NoHolder /\ Goto(r, req[r].finding)
       ELSE UNCHANGED lock /\ Goto(r, "ERROR")
    /\ UNCHANGED << redisVars, adminVars, rows, grants, overran >>

\* issueRepository.save, whose only expected failure is uk_event_user.
SaveRow(r) ==
    /\ req[r].pc = "save"
    /\ rows' = rows \union {req[r].user}
    /\ Goto(r, IF req[r].user \in rows THEN "DUPLICATE" ELSE "CREATED")
    /\ UNCHANGED << redisVars, adminVars, lock, grants, overran >>

\* Any remote call may fail, before it took effect or after, and the process
\* may die.  The finally block gives the lock back, a dead process does not.
Fail(r) ==
    /\ req[r].pc \in Pending
    /\ Goto(r, "ERROR")
    /\ lock' \in IF lock = r THEN {lock, NoHolder} ELSE {lock}
    /\ UNCHANGED << redisVars, adminVars, rows, grants, overran >>

-----------------------------------------------------------------------------
\* Faulty: a lock taken without a lease.
LeaseOver_Never == FALSE

\* Three seconds have passed: at any moment, up to the bound if the holder is
\* still at it.
LeaseOver == /\ lock # NoHolder
             /\ req[lock].pc \in Critical => Cardinality(overran) < MaxOverruns

Expire ==
    /\ LeaseOver
    /\ lock' = NoHolder
    /\ overran' = IF req[lock].pc \in Critical THEN overran \union {lock} ELSE overran
    /\ UNCHANGED << redisVars, adminVars, req, rows, grants >>

InLock(r) ==
    \/ IsIssued(r) \/ CurrentStock(r) \/ Decr(r) \/ Sadd(r) \/ AskHeld(r) \/ Unlock(r)

RequestStep(r) ==
    \/ \E i \in Instances, inWindow \in BOOLEAN : CheckMeta(r, i, inWindow)
    \/ TryLock(r) \/ LockTimeout(r) \/ InLock(r) \/ SaveRow(r) \/ Fail(r)

Next ==
    \/ \E r \in Requests : RequestStep(r)
    \/ Expire
    \/ AdminStep /\ UNCHANGED issueVars

\* A thread in the lock goes on or fails, and the lease of a lock passes.
Fairness == (\A r \in Requests : WF_vars(InLock(r))) /\ WF_vars(Expire)

Spec == Init /\ [][Next]_vars /\ Fairness

-----------------------------------------------------------------------------
(* Properties.                                                              *)

TypeOK ==
    /\ AdminTypeOK
    /\ stock \in (NoStock - Cardinality(overran))..TotalQty
    /\ issued \subseteq Users /\ rows \subseteq Users /\ grants \in Seq(Users)
    /\ req \in [Requests -> RequestState]
    /\ lock \in Requests \union {NoHolder}
    /\ overran \subseteq Requests

\* The lock excludes, but for those whose lease ran out: a request that comes
\* back late never takes the lock away from its successor.
MutualExclusion ==
    \A r, q \in Requests :
        {req[r].pc, req[q].pc} \subseteq Critical /\ {r, q} \cap overran = {} => r = q

\* How much over-issue a short lease can cause: each overrun adds one coupon
\* at the most; without any there is none.
OverIssueByOverruns == opens <= 1 => Cardinality(rows) <= TotalQty + Cardinality(overran)

\* In an event opened once, while no lease has run out on its holder, this
\* strategy is the first-come allocation, too: SADD decides, the INSERT records,
\* though the look, DECR and SADD are commands of their own.
Allocation == INSTANCE CouponAllocation WITH winners <- grants, recorded <- rows
ImplementsAllocation ==
    /\ Allocation!Init
    /\ [][opens' <= 1 /\ overran' = {} => Allocation!Next]_(Allocation!vars)

\* A process that died in the lock does not keep it.
LeaseFreesLock == lock # NoHolder ~> lock = NoHolder

=============================================================================
