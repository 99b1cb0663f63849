------------------------------ MODULE EventAdmin ------------------------------
(***************************************************************************)
(* One coupon event: its row in MySQL, its two keys in Redis and the copies *)
(* of its metadata in the API instances, with the operator's status changes *)
(* (CouponEventService.changeStatus) taken one remote call at a time.       *)
(*                                                                          *)
(* changeStatus is @Transactional: the row it read is written back when the *)
(* method has returned, so the Redis keys are reset and the caches are      *)
(* emptied BEFORE the new status can be read from MySQL.                    *)
(*                                                                          *)
(* The copies carry no clock here: an entry may vanish at any moment (its   *)
(* TTL, a pub/sub invalidation, eviction).  MetaCache has the clock.        *)
(***************************************************************************)
EXTENDS Integers

CONSTANTS
    TotalQty,    \* coupon_event.total_qty
    Instances,   \* API processes, each with its own Caffeine cache
    Admins,      \* calls of changeStatus that may be in progress together
    MaxChanges,  \* bound: calls of changeStatus
    MaxOpens     \* bound: of those, the calls that ask for OPEN

ASSUME EventAssumption ==
    /\ TotalQty \in Nat \ {0}
    /\ MaxChanges \in Nat /\ MaxOpens \in Nat

Statuses == {"READY", "OPEN", "CLOSED"}

NotCached == "NotCached"   \* Caffeine has no entry for the event
NoStock   == -1            \* what currentStock returns when the key is absent

EventRow == [status : Statuses, issuedQty : 0..TotalQty]

\* Where a call of changeStatus is, the status it asks for, the row it read.
AdminPcs   == {"idle", "del", "set", "invalidate", "commit"}
AdminState == [pc : AdminPcs, target : Statuses, row : EventRow]

VARIABLES
    event,     \* the committed row of coupon_event (the columns that change)
    stock,     \* Redis stock:{id}
    issued,    \* Redis issued:{id}, the set of users
    cache,     \* per instance, the status in the cached EventMeta
    admin,     \* the state of every changeStatus call
    opens,     \* calls for OPEN so far
    changes,   \* calls so far
    credited,  \* history: the stock written to Redis, summed over all OPENs
    everOpen   \* history: has MySQL ever held OPEN

redisVars == << stock, issued >>
adminVars == << event, cache, admin, opens, changes, credited, everOpen >>

NewRow == [status |-> "READY", issuedQty |-> 0]   \* as create() inserts it

Idle == [pc |-> "idle", target |-> "READY", row |-> NewRow]

EventInit ==
    /\ event = NewRow
    /\ stock = NoStock
    /\ issued = {}
    /\ cache = [i \in Instances |-> NotCached]
    /\ admin = [a \in Admins |-> Idle]
    /\ opens = 0 /\ changes = 0
    /\ credited = 0
    /\ everOpen = FALSE

-----------------------------------------------------------------------------
(* changeStatus, call by call.  Nothing forbids any change of status.       *)

\* findById without a lock, then the new status is set on the entity.
ReadEvent(a, s) ==
    /\ admin[a].pc = "idle"
    /\ changes < MaxChanges
    /\ s = "OPEN" => opens < MaxOpens
    /\ changes' = changes + 1
    /\ opens' = IF s = "OPEN" THEN opens + 1 ELSE opens
    /\ admin' = [admin EXCEPT ![a] =
           [pc |-> IF s = "OPEN" THEN "del" ELSE "invalidate",
            target |-> s, row |-> event]]
    /\ UNCHANGED << redisVars, event, cache, credited, everOpen >>

\* RedisStockStore.initialize, first command: the issued set is deleted ...
DelIssued(a) ==
    /\ admin[a].pc = "del"
    /\ issued' = {}
    /\ admin' = [admin EXCEPT ![a].pc = "set"]
    /\ UNCHANGED << stock, event, cache, opens, changes, credited, everOpen >>

\* ... and the second: the counter is set to what the row says is left.
SetStock(a) ==
    LET left == TotalQty - admin[a].row.issuedQty
    IN  /\ admin[a].pc = "set"
        /\ stock' = left
        /\ credited' = credited + left
        /\ admin' = [admin EXCEPT ![a].pc = "invalidate"]
        /\ UNCHANGED << issued, event, cache, opens, changes, everOpen >>

\* The copy of the instance i that serves the call goes; the broadcast that
\* follows is a Drop at the others.
Invalidate(a, i) ==
    /\ admin[a].pc = "invalidate"
    /\ cache' = [cache EXCEPT ![i] = NotCached]
    /\ admin' = [admin EXCEPT ![a].pc = "commit"]
    /\ UNCHANGED << redisVars, event, opens, changes, credited, everOpen >>

\* Hibernate writes every column of the row, or nothing if no column changed.
Commit(a) ==
    LET row == admin[a].row
        new == admin[a].target
    IN  /\ admin[a].pc = "commit"
        /\ event' = IF new = row.status
                    THEN event
                    ELSE [status |-> new, issuedQty |-> row.issuedQty]
        /\ everOpen' = (everOpen \/ event'.status = "OPEN")
        /\ admin' = [admin EXCEPT ![a] = Idle]
        /\ UNCHANGED << redisVars, cache, opens, changes, credited >>

\* Any remote call may fail and the process may die: MySQL rolls back,
\* what was done to Redis stays done.
Rollback(a) ==
    /\ admin[a].pc # "idle"
    /\ admin' = [admin EXCEPT ![a] = Idle]
    /\ UNCHANGED << redisVars, event, cache, opens, changes, credited, everOpen >>

-----------------------------------------------------------------------------
(* The environment.  Redis keeps its keys here: a restart is in LuaIssue.    *)

Drop(i) ==
    /\ cache[i] # NotCached
    /\ cache' = [cache EXCEPT ![i] = NotCached]
    /\ UNCHANGED << redisVars, event, admin, opens, changes, credited, everOpen >>

AdminStep ==
    \/ \E a \in Admins :
          \/ \E s \in Statuses : ReadEvent(a, s)
          \/ DelIssued(a) \/ SetStock(a)
          \/ \E i \in Instances : Invalidate(a, i)
          \/ Commit(a) \/ Rollback(a)
    \/ \E i \in Instances : Drop(i)

-----------------------------------------------------------------------------
\* CouponEventMetaCache.get: the copy if there is one, else the committed row
\* (which is then the copy).
MetaOf(i) == IF cache[i] = NotCached THEN event.status ELSE cache[i]

Load(i) == cache' = [cache EXCEPT ![i] = MetaOf(i)]

\* Faulty: an exhausted counter is taken for a missing one.
Remaining_Positive == IF stock > 0 THEN stock ELSE TotalQty - event.issuedQty

\* CouponEventService.remaining under a Redis strategy: the counter, or what
\* the row says if the key is gone.
Remaining == IF stock >= 0 THEN stock ELSE TotalQty - event.issuedQty

AdminTypeOK ==
    /\ event \in EventRow
    /\ cache \in [Instances -> Statuses \union {NotCached}]
    /\ admin \in [Admins -> AdminState]
    /\ opens \in Nat /\ changes \in Nat
    /\ credited \in Nat
    /\ everOpen \in BOOLEAN

EventTypeOK == AdminTypeOK /\ stock \in NoStock..TotalQty

=============================================================================
