------------------------------- MODULE MetaCache -------------------------------
(***************************************************************************)
(* The copies of an event's metadata in the API instances, with a clock.   *)
(* An entry lives for TTL after it was written (expireAfterWrite); a       *)
(* status change empties the copy of its own instance, publishes to the    *)
(* others on coupon:meta:invalidate, and only then commits; a miss reads   *)
(* MySQL first and writes the copy some time later.  Pub/sub delivers at   *)
(* most once, at any time.                                                  *)
(***************************************************************************)
EXTENDS Naturals

CONSTANTS
    Instances,   \* API processes
    Admins,      \* calls of changeStatus that may be in progress together
    TTL,         \* ticks an entry lives (10 s)
    MaxLoad,     \* ticks a read of MySQL takes at most
    NoEntry,     \* no entry in the cache, or no load in progress
    MaxChanges,  \* bound: calls of changeStatus
    MaxLosses    \* bound: messages lost

ASSUME CacheAssumption ==
    /\ TTL \in Nat \ {0} /\ MaxLoad \in Nat
    /\ MaxChanges \in Nat /\ MaxLosses \in Nat

Statuses == {"READY", "OPEN", "CLOSED"}

VARIABLES
    db,       \* coupon_event.status, as committed
    cache,    \* per instance, the entry
    load,     \* per instance, what a miss has read from MySQL and not yet written
    inbox,    \* messages on their way to each instance
    admin,    \* every changeStatus call
    changes,  \* calls so far
    losses    \* messages lost so far

vars == << db, cache, load, inbox, admin, changes, losses >>

MaxStale == TTL + MaxLoad

\* A value that was read, with its age since it was read or written, and, as
\* history: how long it has differed from db; whether a change was in progress
\* while it was loaded; whether a message about it was lost.
Value == [status : Statuses, age : 0..MaxStale, stale : 0..MaxStale,
          raced : BOOLEAN, missed : BOOLEAN]

AdminState == [pc : {"idle", "invalidate", "publish", "commit"}, row : Statuses, target : Statuses]

Idle == [pc |-> "idle", row |-> "READY", target |-> "READY"]

Init ==
    /\ db = "READY"
    /\ cache = [i \in Instances |-> NoEntry]
    /\ load = [i \in Instances |-> NoEntry]
    /\ inbox = [i \in Instances |-> 0]
    /\ admin = [a \in Admins |-> Idle]
    /\ changes = 0 /\ losses = 0

-----------------------------------------------------------------------------
(* CouponEventMetaCache.                                                    *)

Expired(v) == v.age >= TTL

Live(i) == cache[i] # NoEntry /\ ~Expired(cache[i])

\* Faulty: expireAfterAccess.
AgeAfterHit_Access(v) == 0

AgeAfterHit(v) == v.age

Hit(i) ==
    /\ Live(i)
    /\ cache' = [cache EXCEPT ![i].age = AgeAfterHit(cache[i])]
    /\ UNCHANGED << db, load, inbox, admin, changes, losses >>

ChangeInProgress == \E a \in Admins : admin[a].pc # "idle"

\* The loading function of cache.get: one load per key at a time, ...
Read(i) ==
    /\ ~Live(i) /\ load[i] = NoEntry
    /\ load' = [load EXCEPT ![i] = [status |-> db, age |-> 0, stale |-> 0,
                                    raced |-> ChangeInProgress, missed |-> FALSE]]
    /\ UNCHANGED << db, cache, inbox, admin, changes, losses >>

\* ... whose result is written when it is there.
Put(i) ==
    /\ load[i] # NoEntry
    /\ cache' = [cache EXCEPT ![i] = [load[i] EXCEPT !.age = 0]]
    /\ load' = [load EXCEPT ![i] = NoEntry]
    /\ UNCHANGED << db, inbox, admin, changes, losses >>

\* invalidate: undefined for an entry that is being loaded; it may wait for
\* the load (and so comes later) or pass it by.
Emptied(i) == [cache EXCEPT ![i] = NoEntry]

-----------------------------------------------------------------------------
(* changeStatus.                                                            *)

AdminTo(a, pc) == admin' = [admin EXCEPT ![a].pc = pc]

\* What is being loaded from now on races this change.
ReadEvent(a, s) ==
    /\ admin[a].pc = "idle"
    /\ changes < MaxChanges
    /\ changes' = changes + 1
    /\ admin' = [admin EXCEPT ![a] = [pc |-> "invalidate", row |-> db, target |-> s]]
    /\ load' = [i \in Instances |-> IF load[i] = NoEntry THEN NoEntry
                                    ELSE [load[i] EXCEPT !.raced = TRUE]]
    /\ UNCHANGED << db, cache, inbox, losses >>

Invalidate(a, i) ==
    /\ admin[a].pc = "invalidate"
    /\ cache' = Emptied(i)
    /\ AdminTo(a, "publish")
    /\ UNCHANGED << db, load, inbox, changes, losses >>

\* Faulty: only the instance that serves the call forgets its copy.
Receivers_None == {}

Receivers == Instances

Publish(a) ==
    /\ admin[a].pc = "publish"
    /\ inbox' = [i \in Instances |-> inbox[i] + (IF i \in Receivers THEN 1 ELSE 0)]
    /\ AdminTo(a, "commit")
    /\ UNCHANGED << db, cache, load, changes, losses >>

\* How long a value has differed from the committed status.
Aged(v, status, ticks) ==
    IF v = NoEntry THEN NoEntry
    ELSE [v EXCEPT !.age = @ + ticks,
                   !.stale = IF v.status = status THEN 0
                             ELSE IF @ + ticks > MaxStale THEN MaxStale ELSE @ + ticks]

Commit(a) ==
    /\ admin[a].pc = "commit"
    /\ db' = IF admin[a].target = admin[a].row THEN db ELSE admin[a].target
    /\ cache' = [i \in Instances |-> Aged(cache[i], db', 0)]
    /\ load' = [i \in Instances |-> Aged(load[i], db', 0)]
    /\ admin' = [admin EXCEPT ![a] = Idle]
    /\ UNCHANGED << inbox, changes, losses >>

\* A failed call or a dead process: the row stays as it was.
Rollback(a) ==
    /\ admin[a].pc # "idle"
    /\ admin' = [admin EXCEPT ![a] = Idle]
    /\ UNCHANGED << db, cache, load, inbox, changes, losses >>

-----------------------------------------------------------------------------
(* Pub/sub, eviction and time.                                              *)

\* The listener of CacheInvalidationConfig.
Deliver(i) ==
    /\ inbox[i] > 0
    /\ cache' = Emptied(i)
    /\ inbox' = [inbox EXCEPT ![i] = @ - 1]
    /\ UNCHANGED << db, load, admin, changes, losses >>

\* The instance was not connected.
Lose(i) ==
    /\ inbox[i] > 0
    /\ losses < MaxLosses
    /\ losses' = losses + 1
    /\ inbox' = [inbox EXCEPT ![i] = @ - 1]
    /\ cache' = IF cache[i] = NoEntry THEN cache ELSE [cache EXCEPT ![i].missed = TRUE]
    /\ UNCHANGED << db, load, admin, changes >>

\* Time passes; an entry whose time is over is gone, and no load takes longer
\* than MaxLoad.
Tick ==
    /\ \E i \in Instances : cache[i] # NoEntry \/ load[i] # NoEntry
    /\ \A i \in Instances : load[i] # NoEntry => load[i].age < MaxLoad
    /\ cache' = [i \in Instances |->
                   IF Live(i) /\ ~Expired(Aged(cache[i], db, 1)) THEN Aged(cache[i], db, 1)
                   ELSE NoEntry]
    /\ load' = [i \in Instances |-> Aged(load[i], db, 1)]
    /\ UNCHANGED << db, inbox, admin, changes, losses >>

AdminStep(a) == (\E i \in Instances : Invalidate(a, i)) \/ Publish(a) \/ Commit(a) \/ Rollback(a)

Next ==
    \/ \E i \in Instances : Hit(i) \/ Read(i) \/ Put(i) \/ Deliver(i) \/ Lose(i)
    \/ \E a \in Admins : (\E s \in Statuses : ReadEvent(a, s)) \/ AdminStep(a)
    \/ Tick

\* Time passes, reads of MySQL and transactions end, messages arrive or not.
Fairness ==
    /\ WF_vars(Tick)
    /\ \A i \in Instances : WF_vars(Put(i)) /\ WF_vars(Deliver(i) \/ Lose(i))
    /\ \A a \in Admins : WF_vars(AdminStep(a))

Spec == Init /\ [][Next]_vars /\ Fairness

-----------------------------------------------------------------------------
(* Properties.                                                              *)

TypeOK ==
    /\ db \in Statuses
    /\ cache \in [Instances -> Value \union {NoEntry}]
    /\ load \in [Instances -> Value \union {NoEntry}]
    /\ inbox \in [Instances -> 0..MaxChanges]
    /\ admin \in [Admins -> AdminState]
    /\ changes \in 0..MaxChanges /\ losses \in 0..MaxLosses

\* The safety net: whatever is lost or raced, and however often the entry is
\* hit, no request is served a status that was replaced TTL + MaxLoad ago.
StaleBounded == \A i \in Instances : Live(i) => cache[i].stale < MaxStale

\* Broadcasting helps: a copy only differs from MySQL if it was loaded during a
\* change, or a message about it was lost or is still on its way.
StaleForAReason ==
    \A i \in Instances :
        (Live(i) /\ cache[i].status # db) => cache[i].raced \/ cache[i].missed \/ inbox[i] > 0

\* After the last change all instances come to serve its status.
FreshAgain == <>[](\A i \in Instances : Live(i) => cache[i].status = db)

=============================================================================
