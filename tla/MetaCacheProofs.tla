---------------------------- MODULE MetaCacheProofs ----------------------------
(***************************************************************************)
(* MetaCache proved for any number of instances, overlapping status        *)
(* changes and lost messages, and for any TTL and load time.               *)
(*                                                                          *)
(* StaleBounded: a value cannot have been stale for longer than it exists; *)
(* its load takes MaxLoad at most, its stay in the cache less than TTL     *)
(* (LoadAges, EntryAges).                                                   *)
(*                                                                          *)
(* StaleForAReason: what is being loaded while a change is in progress is  *)
(* raced (LoadsRace), so that the copy a commit makes stale was there when *)
(* the change was published, and the message is still on its way           *)
(* (Announced).                                                             *)
(***************************************************************************)
EXTENDS MetaCache, FiniteSetTheorems, TLAPS

Reading == [status : Statuses, age : Nat, stale : Nat, raced : BOOLEAN, missed : BOOLEAN]

Typed ==
    /\ db \in Statuses
    /\ cache \in [Instances -> Reading \union {NoEntry}]
    /\ load \in [Instances -> Reading \union {NoEntry}]
    /\ inbox \in [Instances -> Nat]
    /\ admin \in [Admins -> AdminState]

-----------------------------------------------------------------------------
(* How long a value can have been stale.                                    *)

LoadAge(v)  == v.stale <= v.age /\ v.age <= MaxLoad
EntryAge(v) == v.stale <= v.age + MaxLoad /\ v.age < TTL

LoadAges  == \A i \in Instances : load[i] # NoEntry => LoadAge(load[i])
EntryAges == \A i \in Instances : cache[i] # NoEntry => EntryAge(cache[i])

-----------------------------------------------------------------------------
(* Why a value can be stale.                                                *)

LoadsRace ==
    \A i \in Instances :
        load[i] # NoEntry /\ ~load[i].raced => ~ChangeInProgress /\ load[i].status = db

\* The copy in instance i has no excuse to differ from MySQL.
Innocent(i) == cache[i] # NoEntry /\ ~cache[i].raced /\ ~cache[i].missed /\ inbox[i] = 0

Announced ==
    \A i \in Instances :
        Innocent(i) => cache[i].status = db /\ \A a \in Admins : admin[a].pc # "commit"

IInv == Typed /\ LoadAges /\ EntryAges /\ LoadsRace /\ Announced

-----------------------------------------------------------------------------
\* Time only touches what says how old a value is and how long it has been stale.
LEMMA AgedValue ==
  ASSUME NEW v \in Reading \union {NoEntry}, NEW status, NEW ticks \in {0, 1}
  PROVE  LET w == Aged(v, status, ticks)
         IN  /\ w \in Reading \union {NoEntry}
             /\ w # NoEntry =>
                   /\ v # NoEntry /\ v \in Reading /\ w \in Reading
                   /\ w.status = v.status /\ w.raced = v.raced /\ w.missed = v.missed
                   /\ w.age = v.age + ticks
                   /\ w.stale <= v.stale + ticks
<1> DEFINE w == Aged(v, status, ticks)
<1>1. CASE v = NoEntry
  BY <1>1 DEF Aged
<1>2. CASE v # NoEntry
  <2>1. v \in Reading
    BY <1>2
  <2> DEFINE late == IF v.status = status THEN 0
                     ELSE IF v.stale + ticks > MaxStale THEN MaxStale ELSE v.stale + ticks
  <2>2. MaxStale \in Nat /\ v.stale \in Nat /\ v.age \in Nat
    BY <2>1, CacheAssumption DEF Reading, MaxStale
  <2>3. late \in Nat /\ late <= v.stale + ticks /\ v.age + ticks \in Nat
    BY <2>2
  <2>4. w = [status |-> v.status, age |-> v.age + ticks, stale |-> late,
             raced |-> v.raced, missed |-> v.missed]
    BY <1>2, <2>1 DEF Aged, Reading
  <2> HIDE DEF late, w
  <2>5. w \in Reading
    BY <2>1, <2>3, <2>4 DEF Reading
  <2> QED
    BY <1>2, <2>1, <2>3, <2>4, <2>5 DEF w
<1> QED
  BY <1>1, <1>2

LEMMA InitInv == Init => IInv
<1> SUFFICES ASSUME Init PROVE IInv
  OBVIOUS
<1>1. Typed
  BY DEF Init, Typed, Idle, AdminState, Statuses
<1> QED
  BY <1>1 DEF Init, IInv, LoadAges, EntryAges, LoadsRace, Announced, Innocent

\* What an instance does with its copy.
LEMMA HitKeeps ==
  ASSUME IInv, NEW i \in Instances, Hit(i)
  PROVE  IInv'
<1> USE DEF IInv
<1>1. cache' = cache
  BY DEF Hit, Live, AgeAfterHit, Typed, Reading
<1> QED
  BY <1>1 DEF Hit, Typed, LoadAges, EntryAges, LoadsRace, Announced, Innocent, ChangeInProgress

LEMMA ReadKeeps ==
  ASSUME IInv, NEW i \in Instances, Read(i)
  PROVE  IInv'
<1> USE DEF IInv
<1> DEFINE v == [status |-> db, age |-> 0, stale |-> 0, raced |-> ChangeInProgress,
                 missed |-> FALSE]
<1>1. v \in Reading
  BY DEF Typed, Reading, ChangeInProgress
<1>2. /\ v.status = db /\ v.age = 0 /\ v.stale = 0 /\ (v.raced <=> ChangeInProgress)
  OBVIOUS
<1>3. load' = [load EXCEPT ![i] = v] /\ UNCHANGED << db, cache, inbox, admin, changes, losses >>
  BY DEF Read
<1> HIDE DEF v
<1>4. Typed'
  BY <1>1, <1>3 DEF Typed
<1>5. \A j \in Instances : load'[j] = IF j = i THEN v ELSE load[j]
  BY <1>3 DEF Typed
<1>6. LoadAges'
  BY <1>2, <1>5, CacheAssumption DEF LoadAges, LoadAge
<1>7. EntryAges' /\ Announced'
  BY <1>3 DEF EntryAges, Announced, Innocent
<1>8. ChangeInProgress' = ChangeInProgress
  BY <1>3 DEF ChangeInProgress
<1>9. LoadsRace'
  BY <1>2, <1>3, <1>5, <1>8 DEF LoadsRace
<1> QED
  BY <1>4, <1>6, <1>7, <1>9

LEMMA PutKeeps ==
  ASSUME IInv, NEW i \in Instances, Put(i)
  PROVE  IInv'
<1> USE DEF IInv
<1> DEFINE v == load[i]
           w == [v EXCEPT !.age = 0]
<1>1. v # NoEntry /\ v \in Reading
  BY DEF Put, Typed
<1>2. /\ w \in Reading /\ w.status = v.status /\ w.age = 0 /\ w.stale = v.stale
      /\ w.raced = v.raced /\ w.missed = v.missed
  BY <1>1 DEF Reading
<1>3. /\ cache' = [cache EXCEPT ![i] = w] /\ load' = [load EXCEPT ![i] = NoEntry]
      /\ UNCHANGED << db, inbox, admin, changes, losses >>
  BY DEF Put
<1>4. v.stale <= MaxLoad
  <2>1. v.stale \in Nat /\ v.age \in Nat /\ LoadAge(v)
    BY <1>1 DEF LoadAges, Reading
  <2> QED
    BY <2>1, CacheAssumption DEF LoadAge
<1>5. ~v.raced => v.status = db /\ ~ChangeInProgress
  BY <1>1 DEF LoadsRace
<1> HIDE DEF w
<1>6. Typed'
  BY <1>2, <1>3 DEF Typed
<1>7. \A j \in Instances : /\ cache'[j] = IF j = i THEN w ELSE cache[j]
                           /\ load'[j] = IF j = i THEN NoEntry ELSE load[j]
  BY <1>3 DEF Typed
<1>8. LoadAges'
  BY <1>7 DEF LoadAges
<1>9. EntryAges'
  BY <1>2, <1>4, <1>7, CacheAssumption DEF EntryAges, EntryAge
<1>10. LoadsRace'
  BY <1>3, <1>7 DEF LoadsRace, ChangeInProgress
<1>11. Announced'
  <2> SUFFICES ASSUME NEW j \in Instances, Innocent(j)'
               PROVE  cache'[j].status = db /\ \A a \in Admins : admin[a].pc # "commit"
    BY <1>3 DEF Announced
  <2>1. CASE j = i
    BY <2>1, <1>2, <1>5, <1>7 DEF Innocent, ChangeInProgress
  <2>2. CASE j # i
    BY <2>2, <1>3, <1>7 DEF Innocent, Announced
  <2> QED
    BY <2>1, <2>2
<1> QED
  BY <1>6, <1>8, <1>9, <1>10, <1>11

\* Steps of changeStatus, but for the first.
LEMMA InvalidateKeeps ==
  ASSUME IInv, NEW a \in Admins, NEW i \in Instances, Invalidate(a, i)
  PROVE  IInv'
<1> USE DEF IInv
<1>1. /\ cache' = [cache EXCEPT ![i] = NoEntry]
      /\ admin' = [admin EXCEPT ![a].pc = "publish"]
      /\ admin[a].pc = "invalidate"
      /\ UNCHANGED << db, load, inbox, changes, losses >>
  BY DEF Invalidate, Emptied, AdminTo
<1>2. Typed'
  BY <1>1 DEF Typed, AdminState
<1>3. \A j \in Instances : cache'[j] = IF j = i THEN NoEntry ELSE cache[j]
  BY <1>1 DEF Typed
<1>4. \A b \in Admins : admin'[b].pc = IF b = a THEN "publish" ELSE admin[b].pc
  BY <1>1 DEF Typed, AdminState
<1>5. LoadAges' /\ EntryAges'
  BY <1>1, <1>3 DEF LoadAges, EntryAges
<1>6. LoadsRace'
  BY <1>1, <1>4 DEF LoadsRace, ChangeInProgress
<1>7. Announced'
  BY <1>1, <1>3, <1>4 DEF Announced, Innocent
<1> QED
  BY <1>2, <1>5, <1>6, <1>7

LEMMA PublishKeeps ==
  ASSUME IInv, NEW a \in Admins, Publish(a)
  PROVE  IInv'
<1> USE DEF IInv
<1>1. /\ inbox' = [i \in Instances |-> inbox[i] + 1]
      /\ admin' = [admin EXCEPT ![a].pc = "commit"]
      /\ admin[a].pc = "publish"
      /\ UNCHANGED << db, cache, load, changes, losses >>
  BY DEF Publish, Receivers, AdminTo
<1>2. Typed'
  BY <1>1 DEF Typed, AdminState
<1>3. \A j \in Instances : inbox'[j] # 0
  BY <1>1 DEF Typed
<1>4. \A b \in Admins : admin'[b].pc = IF b = a THEN "commit" ELSE admin[b].pc
  BY <1>1 DEF Typed, AdminState
<1>5. LoadAges' /\ EntryAges'
  BY <1>1 DEF LoadAges, EntryAges
<1>6. LoadsRace'
  BY <1>1, <1>4 DEF LoadsRace, ChangeInProgress
<1>7. Announced'
  BY <1>3 DEF Announced, Innocent
<1> QED
  BY <1>2, <1>5, <1>6, <1>7

LEMMA CommitKeeps ==
  ASSUME IInv, NEW a \in Admins, Commit(a)
  PROVE  IInv'
<1> USE DEF IInv
<1>1. /\ admin[a].pc = "commit"
      /\ cache' = [i \in Instances |-> Aged(cache[i], db', 0)]
      /\ load' = [i \in Instances |-> Aged(load[i], db', 0)]
      /\ admin' = [admin EXCEPT ![a] = Idle]
      /\ UNCHANGED << inbox, changes, losses >>
  BY DEF Commit
<1>2. db' \in Statuses /\ Idle \in AdminState
  BY DEF Commit, Typed, AdminState, Idle, Statuses
<1>3. Typed'
  BY <1>1, <1>2, AgedValue DEF Typed
<1>4. ASSUME NEW i \in Instances
      PROVE  /\ cache'[i] # NoEntry =>
                   /\ cache[i] # NoEntry /\ cache[i] \in Reading /\ cache'[i] \in Reading
                   /\ cache'[i].raced = cache[i].raced /\ cache'[i].missed = cache[i].missed
                   /\ cache'[i].age = cache[i].age + 0 /\ cache'[i].stale <= cache[i].stale + 0
             /\ load'[i] # NoEntry =>
                   /\ load[i] # NoEntry /\ load[i] \in Reading /\ load'[i] \in Reading
                   /\ load'[i].raced = load[i].raced
                   /\ load'[i].age = load[i].age + 0 /\ load'[i].stale <= load[i].stale + 0
  <2>1. cache'[i] = Aged(cache[i], db', 0) /\ load'[i] = Aged(load[i], db', 0)
    BY <1>1
  <2>2. cache[i] \in Reading \union {NoEntry} /\ load[i] \in Reading \union {NoEntry}
    BY DEF Typed
  <2> QED
    BY <2>1, <2>2, AgedValue
<1>5. LoadAges' /\ EntryAges'
  BY <1>4, CacheAssumption DEF LoadAges, EntryAges, LoadAge, EntryAge, Reading
<1>6. LoadsRace'
  <2>1. ChangeInProgress
    BY <1>1 DEF ChangeInProgress
  <2> QED
    BY <2>1, <1>4 DEF LoadsRace
<1>7. Announced'
  <2>1. \A i \in Instances : ~Innocent(i)
    BY <1>1 DEF Announced
  <2>2. \A i \in Instances : Innocent(i)' => Innocent(i)
    BY <1>1, <1>4 DEF Innocent
  <2> QED
    BY <2>1, <2>2 DEF Announced
<1> QED
  BY <1>3, <1>5, <1>6, <1>7

LEMMA RollbackKeeps ==
  ASSUME IInv, NEW a \in Admins, Rollback(a)
  PROVE  IInv'
<1> USE DEF IInv
<1>1. /\ admin[a].pc # "idle" /\ admin' = [admin EXCEPT ![a] = Idle]
      /\ UNCHANGED << db, cache, load, inbox, changes, losses >>
  BY DEF Rollback
<1>2. Typed'
  BY <1>1 DEF Typed, AdminState, Idle, Statuses
<1>3. \A b \in Admins : admin'[b].pc = IF b = a THEN "idle" ELSE admin[b].pc
  BY <1>1 DEF Typed, Idle
<1>4. LoadAges' /\ EntryAges'
  BY <1>1 DEF LoadAges, EntryAges
<1>5. LoadsRace'
  BY <1>1 DEF LoadsRace, ChangeInProgress
<1>6. Announced'
  BY <1>1, <1>3 DEF Announced, Innocent
<1> QED
  BY <1>2, <1>4, <1>5, <1>6

\* The first: what is being loaded races it from now on.
LEMMA ReadEventKeeps ==
  ASSUME IInv, NEW a \in Admins, NEW s \in Statuses, ReadEvent(a, s)
  PROVE  IInv'
<1> USE DEF IInv
<1> DEFINE raced(v) == IF v = NoEntry THEN NoEntry ELSE [v EXCEPT !.raced = TRUE]
<1>1. /\ admin' = [admin EXCEPT ![a] = [pc |-> "invalidate", row |-> db, target |-> s]]
      /\ load' = [i \in Instances |-> raced(load[i])]
      /\ UNCHANGED << db, cache, inbox, losses >>
  BY DEF ReadEvent
<1>2. \A v \in Reading \union {NoEntry} :
         /\ raced(v) \in Reading \union {NoEntry}
         /\ raced(v) # NoEntry =>
               /\ v # NoEntry /\ raced(v).raced
               /\ raced(v).age = v.age /\ raced(v).stale = v.stale
  BY DEF Reading
<1> HIDE DEF raced
<1>3. Typed'
  BY <1>1, <1>2 DEF Typed, AdminState
<1>4. \A b \in Admins : admin'[b].pc = IF b = a THEN "invalidate" ELSE admin[b].pc
  BY <1>1 DEF Typed
<1>5. \A i \in Instances : load'[i] = raced(load[i]) /\ load[i] \in Reading \union {NoEntry}
  BY <1>1 DEF Typed
<1>6. LoadAges'
  BY <1>2, <1>5 DEF LoadAges, LoadAge
<1>7. LoadsRace'
  BY <1>2, <1>5 DEF LoadsRace
<1>8. EntryAges' /\ Announced'
  BY <1>1, <1>4 DEF EntryAges, Announced, Innocent
<1> QED
  BY <1>3, <1>6, <1>7, <1>8

\* A message that arrives empties the copy; one that is lost is remembered.
LEMMA MessageKeeps ==
  ASSUME IInv, NEW i \in Instances, Deliver(i) \/ Lose(i)
  PROVE  IInv'
<1> USE DEF IInv
<1>1. /\ inbox[i] > 0 /\ inbox' = [inbox EXCEPT ![i] = @ - 1]
      /\ UNCHANGED << db, load, admin, changes >>
  BY DEF Deliver, Lose
<1>2. \A j \in Instances : j # i => cache'[j] = cache[j] /\ inbox'[j] = inbox[j]
  BY <1>1 DEF Deliver, Lose, Emptied, Typed
<1>3. /\ cache' \in [Instances -> Reading \union {NoEntry}]
      /\ cache'[i] # NoEntry =>
            /\ cache[i] # NoEntry /\ cache'[i].missed
            /\ cache'[i].age = cache[i].age /\ cache'[i].stale = cache[i].stale
  <2>1. CASE Deliver(i)
    BY <2>1 DEF Deliver, Emptied, Typed
  <2>2. CASE Lose(i) /\ cache[i] = NoEntry
    BY <2>2 DEF Lose, Typed
  <2>3. CASE Lose(i) /\ cache[i] # NoEntry
    <3> DEFINE w == [cache[i] EXCEPT !.missed = TRUE]
    <3>1. cache[i] \in Reading
      BY <2>3 DEF Typed
    <3>2. w \in Reading /\ w.missed /\ w.age = cache[i].age /\ w.stale = cache[i].stale
      BY <3>1 DEF Reading
    <3>3. cache' = [cache EXCEPT ![i] = w]
      BY <2>3 DEF Lose
    <3> HIDE DEF w
    <3> QED
      BY <2>3, <3>2, <3>3 DEF Typed
  <2> QED
    BY <2>1, <2>2, <2>3
<1>4. Typed'
  <2>1. inbox[i] - 1 \in Nat
    BY <1>1 DEF Typed
  <2>2. inbox' \in [Instances -> Nat]
    BY <1>1, <2>1 DEF Typed
  <2> QED
    BY <1>1, <1>3, <2>2 DEF Typed
<1>5. LoadAges' /\ LoadsRace'
  BY <1>1 DEF LoadAges, LoadsRace, ChangeInProgress
<1>6. EntryAges'
  BY <1>2, <1>3 DEF EntryAges, EntryAge
<1>7. Announced'
  BY <1>1, <1>2, <1>3 DEF Announced, Innocent
<1> QED
  BY <1>4, <1>5, <1>6, <1>7

\* The clock: what would be too old is gone, and no load is older than MaxLoad.
LEMMA TickKeeps ==
  ASSUME IInv, Tick
  PROVE  IInv'
<1> USE DEF IInv
<1>1. /\ \A i \in Instances : load[i] # NoEntry => load[i].age < MaxLoad
      /\ cache' = [i \in Instances |->
                     IF Live(i) /\ ~Expired(Aged(cache[i], db, 1)) THEN Aged(cache[i], db, 1)
                     ELSE NoEntry]
      /\ load' = [i \in Instances |-> Aged(load[i], db, 1)]
      /\ UNCHANGED << db, inbox, admin, changes, losses >>
  BY DEF Tick
<1>2. ASSUME NEW i \in Instances
      PROVE  /\ cache'[i] \in Reading \union {NoEntry} /\ load'[i] \in Reading \union {NoEntry}
             /\ cache'[i] # NoEntry =>
                   /\ cache[i] # NoEntry /\ cache[i] \in Reading /\ cache'[i] \in Reading
                   /\ cache'[i].status = cache[i].status
                   /\ cache'[i].raced = cache[i].raced /\ cache'[i].missed = cache[i].missed
                   /\ cache'[i].age = cache[i].age + 1 /\ cache'[i].stale <= cache[i].stale + 1
                   /\ ~Expired(cache'[i])
             /\ load'[i] # NoEntry =>
                   /\ load[i] # NoEntry /\ load[i] \in Reading /\ load'[i] \in Reading
                   /\ load'[i].status = load[i].status /\ load'[i].raced = load[i].raced
                   /\ load'[i].age = load[i].age + 1 /\ load'[i].stale <= load[i].stale + 1
  <2>1. /\ \/ cache'[i] = NoEntry
           \/ cache'[i] = Aged(cache[i], db, 1) /\ ~Expired(Aged(cache[i], db, 1))
        /\ load'[i] = Aged(load[i], db, 1)
    BY <1>1
  <2>2. cache[i] \in Reading \union {NoEntry} /\ load[i] \in Reading \union {NoEntry}
    BY DEF Typed
  <2> QED
    BY <2>1, <2>2, AgedValue
<1>3. Typed'
  BY <1>1, <1>2 DEF Typed
<1>4. LoadAges'
  BY <1>1, <1>2, CacheAssumption DEF LoadAges, LoadAge, Reading
<1>5. EntryAges'
  BY <1>2, CacheAssumption DEF EntryAges, EntryAge, Expired, Reading
<1>6. LoadsRace'
  BY <1>1, <1>2 DEF LoadsRace, ChangeInProgress
<1>7. Announced'
  BY <1>1, <1>2 DEF Announced, Innocent
<1> QED
  BY <1>3, <1>4, <1>5, <1>6, <1>7

LEMMA StepInv == IInv /\ [Next]_vars => IInv'
<1>1. CASE UNCHANGED vars
  BY <1>1 DEF vars, IInv, Typed, LoadAges, EntryAges, LoadsRace, Announced, Innocent,
              ChangeInProgress
<1>2. ASSUME IInv, Next PROVE IInv'
  BY <1>2, HitKeeps, ReadKeeps, PutKeeps, MessageKeeps, ReadEventKeeps, InvalidateKeeps,
     PublishKeeps, CommitKeeps, RollbackKeeps, TickKeeps DEF Next, AdminStep
<1> QED
  BY <1>1, <1>2

LEMMA Invariance == Spec => []IInv
  BY InitInv, StepInv, PTL DEF Spec

\* However messages are lost, changes overlap and hits follow one another, no
\* copy is served that was replaced TTL + MaxLoad ago (the ten seconds of
\* CouponEventMetaCache and the slowest read).
THEOREM StalenessBounded == Spec => []StaleBounded
<1>1. IInv => StaleBounded
  BY CacheAssumption DEF IInv, EntryAges, EntryAge, StaleBounded, Live, MaxStale, Typed, Reading
<1> QED
  BY <1>1, Invariance, PTL

\* A copy that differs from MySQL was loaded during a change, or missed a
\* message, or has one coming (publication before commit in changeStatus).
THEOREM StalenessExplained == Spec => []StaleForAReason
<1>1. IInv => StaleForAReason
  BY DEF IInv, Announced, Innocent, StaleForAReason, Live, Typed
<1> QED
  BY <1>1, Invariance, PTL

-----------------------------------------------------------------------------
(* Messages: a change sends one to each instance, and only one.             *)

\* The changes that have not published yet.
Unpublished == { a \in Admins : admin[a].pc \in {"invalidate", "publish"} }

Counted ==
    /\ changes \in 0..MaxChanges /\ losses \in 0..MaxLosses
    /\ IsFiniteSet(Unpublished)
    /\ \A i \in Instances : inbox[i] + Cardinality(Unpublished) <= changes

\* A step that moves one change, and sends n messages to each instance.
LEMMA OneChange ==
  ASSUME Typed, Counted, NEW a \in Admins, NEW q \in AdminState, NEW n \in {0, 1},
         admin' = [admin EXCEPT ![a] = q], UNCHANGED losses,
         changes' \in 0..MaxChanges,
         \A i \in Instances : inbox'[i] = inbox[i] + n,
         q.pc \in {"invalidate", "publish"} =>
            n = 0 /\ (a \in Unpublished \/ changes' = changes + 1),
         n = 1 => a \in Unpublished,
         changes <= changes'
  PROVE  Counted'
<1>1. Unpublished' = IF q.pc \in {"invalidate", "publish"}
                     THEN Unpublished \union {a} ELSE Unpublished \ {a}
  BY DEF Unpublished, Typed
<1>2. /\ Cardinality(Unpublished) \in Nat /\ changes \in Nat /\ changes' \in Nat
      /\ \A i \in Instances : inbox[i] \in Nat
  BY FS_CardinalityType, CacheAssumption DEF Counted, Typed
<1>3. CASE q.pc \in {"invalidate", "publish"}
  <2>1. /\ IsFiniteSet(Unpublished')
        /\ Cardinality(Unpublished') = IF a \in Unpublished THEN Cardinality(Unpublished)
                                       ELSE Cardinality(Unpublished) + 1
    BY <1>1, <1>3, FS_AddElement DEF Counted
  <2> QED
    BY <1>2, <1>3, <2>1 DEF Counted
<1>4. CASE q.pc \notin {"invalidate", "publish"}
  <2>1. /\ IsFiniteSet(Unpublished')
        /\ Cardinality(Unpublished') = IF a \in Unpublished THEN Cardinality(Unpublished) - 1
                                       ELSE Cardinality(Unpublished)
    BY <1>1, <1>4, FS_RemoveElement DEF Counted
  <2> QED
    BY <1>2, <1>4, <2>1 DEF Counted
<1> QED
  BY <1>3, <1>4

\* A step that moves no change and sends nothing.
LEMMA NoChange ==
  ASSUME Typed, Counted, UNCHANGED << admin, changes >>, losses' \in 0..MaxLosses,
         \A i \in Instances : inbox'[i] \in Nat /\ inbox'[i] <= inbox[i]
  PROVE  Counted'
<1>1. Unpublished' = Unpublished
  BY DEF Unpublished
<1>2. Cardinality(Unpublished) \in Nat /\ changes \in Nat /\ \A i \in Instances : inbox[i] \in Nat
  BY FS_CardinalityType, CacheAssumption DEF Counted, Typed
<1> QED
  BY <1>1, <1>2 DEF Counted

LEMMA CountedStep == IInv /\ Counted /\ [Next]_vars => Counted'
<1> SUFFICES ASSUME IInv, Counted, [Next]_vars PROVE Counted'
  OBVIOUS
<1>0. Typed /\ \A i \in Instances : inbox[i] \in Nat
  BY DEF IInv, Typed
<1>still. ASSUME UNCHANGED << inbox, admin, changes, losses >> PROVE Counted'
  BY <1>0, <1>still, NoChange DEF Counted
<1>1. ASSUME NEW i \in Instances, Hit(i) \/ Read(i) \/ Put(i) PROVE Counted'
  BY <1>1, <1>still DEF Hit, Read, Put
<1>2. ASSUME NEW i \in Instances, Deliver(i) \/ Lose(i) PROVE Counted'
  <2>1. /\ inbox[i] > 0 /\ inbox' = [inbox EXCEPT ![i] = @ - 1]
        /\ UNCHANGED << admin, changes >>
        /\ losses' = losses \/ (losses < MaxLosses /\ losses' = losses + 1)
    BY <1>2 DEF Deliver, Lose
  <2>2. losses' \in 0..MaxLosses
    BY <2>1, CacheAssumption DEF Counted
  <2>3. \A j \in Instances : inbox'[j] \in Nat /\ inbox'[j] <= inbox[j]
    BY <1>0, <2>1 DEF Typed
  <2> QED
    BY <1>0, <2>1, <2>2, <2>3, NoChange
<1>3. ASSUME NEW a \in Admins, NEW s \in Statuses, ReadEvent(a, s) PROVE Counted'
  <2> DEFINE q == [pc |-> "invalidate", row |-> db, target |-> s]
  <2>1. q \in AdminState /\ q.pc = "invalidate"
    BY <1>0 DEF AdminState, Typed
  <2>2. changes' = changes + 1 /\ changes' \in 0..MaxChanges /\ changes <= changes'
    BY <1>3, CacheAssumption DEF ReadEvent, Counted
  <2>3. /\ admin' = [admin EXCEPT ![a] = q] /\ UNCHANGED losses
        /\ \A i \in Instances : inbox'[i] = inbox[i] + 0
    BY <1>0, <1>3 DEF ReadEvent
  <2> HIDE DEF q
  <2>4. 0 \in {0, 1} /\ 0 # 1
    OBVIOUS
  <2> QED
    BY <1>0, <2>1, <2>2, <2>3, <2>4, OneChange, Zenon
<1>4. ASSUME NEW a \in Admins, NEW i \in Instances, Invalidate(a, i) PROVE Counted'
  <2> DEFINE q == [admin[a] EXCEPT !.pc = "publish"]
  <2>1. q \in AdminState /\ q.pc = "publish" /\ a \in Unpublished
    BY <1>0, <1>4 DEF AdminState, Typed, Invalidate, Unpublished
  <2>2. /\ admin' = [admin EXCEPT ![a] = q] /\ UNCHANGED << losses, changes >>
        /\ \A j \in Instances : inbox'[j] = inbox[j] + 0
    BY <1>0, <1>4 DEF Invalidate, AdminTo
  <2>3. changes' \in 0..MaxChanges /\ changes <= changes'
    BY <2>2, CacheAssumption DEF Counted
  <2> QED
    BY <1>0, <2>1, <2>2, <2>3, OneChange
<1>5. ASSUME NEW a \in Admins, Publish(a) PROVE Counted'
  <2> DEFINE q == [admin[a] EXCEPT !.pc = "commit"]
  <2>1. q \in AdminState /\ q.pc = "commit" /\ a \in Unpublished
    BY <1>0, <1>5 DEF AdminState, Typed, Publish, Unpublished
  <2>2. /\ admin' = [admin EXCEPT ![a] = q] /\ UNCHANGED << losses, changes >>
        /\ \A j \in Instances : inbox'[j] = inbox[j] + 1
    BY <1>0, <1>5 DEF Publish, AdminTo, Receivers
  <2>3. changes' \in 0..MaxChanges /\ changes <= changes'
    BY <2>2, CacheAssumption DEF Counted
  <2> QED
    BY <1>0, <2>1, <2>2, <2>3, OneChange
<1>6. ASSUME NEW a \in Admins, Commit(a) \/ Rollback(a) PROVE Counted'
  <2>1. Idle \in AdminState /\ Idle.pc \notin {"invalidate", "publish"}
    BY DEF Idle, AdminState, Statuses
  <2>2. /\ admin' = [admin EXCEPT ![a] = Idle] /\ UNCHANGED << losses, changes >>
        /\ \A j \in Instances : inbox'[j] = inbox[j] + 0
    BY <1>0, <1>6 DEF Commit, Rollback
  <2>3. changes' \in 0..MaxChanges /\ changes <= changes'
    BY <2>2, CacheAssumption DEF Counted
  <2>4. 0 \in {0, 1} /\ 0 # 1
    OBVIOUS
  <2> QED
    BY <1>0, <2>1, <2>2, <2>3, <2>4, OneChange, Zenon
<1>7. CASE Tick
  BY <1>7, <1>still DEF Tick
<1>8. CASE UNCHANGED vars
  BY <1>8, <1>still DEF vars
<1> QED
  BY <1>1, <1>2, <1>3, <1>4, <1>5, <1>6, <1>7, <1>8 DEF Next, AdminStep

\* Type correctness: at most one message for each status change is on its way
\* to an instance, and no copy is older, or stale for longer, than TTL + MaxLoad.
THEOREM TypeCorrect == Spec => []TypeOK
<1>1. Init => Counted
  <2> SUFFICES ASSUME Init PROVE Counted
    OBVIOUS
  <2>1. Unpublished = {}
    BY DEF Init, Idle, Unpublished
  <2> QED
    BY <2>1, FS_EmptySet, CacheAssumption DEF Init, Counted
<1>2. IInv /\ Counted => TypeOK
  <2> SUFFICES ASSUME IInv, Counted PROVE TypeOK
    OBVIOUS
  <2>1. /\ MaxStale = TTL + MaxLoad /\ TTL \in Nat \ {0} /\ MaxLoad \in Nat
        /\ MaxChanges \in Nat
    BY CacheAssumption DEF MaxStale
  <2>2. ASSUME NEW i \in Instances PROVE cache[i] \in Value \union {NoEntry}
    BY <2>1 DEF IInv, Typed, EntryAges, EntryAge, Reading, Value
  <2>3. ASSUME NEW i \in Instances PROVE load[i] \in Value \union {NoEntry}
    BY <2>1 DEF IInv, Typed, LoadAges, LoadAge, Reading, Value
  <2>4. ASSUME NEW i \in Instances PROVE inbox[i] \in 0..MaxChanges
    <3>1. Cardinality(Unpublished) \in Nat /\ inbox[i] \in Nat /\ changes \in Nat
      BY <2>1, FS_CardinalityType DEF Counted, IInv, Typed
    <3> QED
      BY <2>1, <3>1 DEF Counted
  <2> QED
    BY <2>2, <2>3, <2>4 DEF IInv, Typed, Counted, TypeOK
<1> QED
  BY <1>1, <1>2, CountedStep, Invariance, PTL DEF Spec

================================================================================
