------------------------- MODULE RedissonIssueProofs --------------------------
(***************************************************************************)
(* RedissonIssue proved for any number of coupons, users, requests,        *)
(* instances, concurrent status changes and leases that run out.           *)
(*                                                                          *)
(* The argument: who is between tryLock and unlock has the lock or has     *)
(* overrun his lease (Exclusive).  So those about to DECR are the overrun   *)
(* ones and at most one more, and he has seen a coupon: there are never     *)
(* more of them than coupons and overruns together (Counted).  Each DECR    *)
(* pays for one row, so the rows stay within the coupons and the overruns. *)
(***************************************************************************)
EXTENDS RedissonIssue, FiniteSetTheorems, TLAPS

\* The part of TypeOK the argument needs.
Typed ==
    /\ event \in EventRow
    /\ admin \in [Admins -> AdminState]
    /\ req \in [Requests -> RequestState]
    /\ lock \in Requests \union {NoHolder}
    /\ overran \subseteq Requests /\ IsFiniteSet(overran)
    /\ rows \subseteq Users /\ IsFiniteSet(rows)
    /\ stock \in Int /\ opens \in Nat /\ credited \in Nat

\* No path of this strategy touches issued_qty.
NoQty == event.issuedQty = 0 /\ \A a \in Admins : admin[a].row.issuedQty = 0

Resetting(a) == admin[a].pc \in {"del", "set"}

\* What a single opening (or none yet) has put into the counter.
Opening ==
    /\ opens = 0 => credited = 0 /\ \A a \in Admins : ~Resetting(a)
    /\ opens = 1 => /\ credited \in {0, TotalQty}
                    /\ \A a \in Admins : Resetting(a) => credited = 0
                    /\ \A a, b \in Admins : Resetting(a) /\ Resetting(b) => a = b

Exclusive == \A r \in Requests : req[r].pc \in Critical /\ r \notin overran => lock = r

\* The requests about to DECR, and those that have and have no row yet.
Deciding    == { r \in Requests : req[r].pc = "decr" }
Entitled(q) == \/ q.pc \in {"sadd", "save"}
               \/ q.pc \in {"held?", "unlock"} /\ q.finding = "save"
Granted     == { r \in Requests : Entitled(req[r]) }

Counted ==
    /\ opens <= 1 /\ credited = 0 =>
          rows = {} /\ Granted = {} /\ Deciding = {} /\ stock = NoStock
    /\ opens <= 1 /\ credited = TotalQty =>
          /\ Cardinality(rows) + Cardinality(Granted) + stock <= TotalQty
          /\ Cardinality(Deciding) <= stock + Cardinality(overran)

LeaseInv == Typed /\ NoQty /\ Opening /\ Exclusive /\ IsFiniteSet(Granted) /\ Counted

-----------------------------------------------------------------------------
\* Those about to DECR are those who overran and the holder of the lock.
LEMMA DecidingBounded ==
  ASSUME Typed, Exclusive
  PROVE  /\ Deciding \subseteq overran \union {lock}
         /\ IsFiniteSet(Deciding)
         /\ Cardinality(Deciding) \in Nat /\ Cardinality(overran) \in Nat
         /\ Cardinality(Deciding) <= Cardinality(overran) + 1
<1>1. Deciding \subseteq overran \union {lock}
  BY DEF Exclusive, Deciding, Critical
<1>2. IsFiniteSet(overran) /\ Cardinality(overran) \in Nat
  BY FS_CardinalityType DEF Typed
<1>3. /\ IsFiniteSet(overran \union {lock})
      /\ Cardinality(overran \union {lock}) \in {Cardinality(overran), Cardinality(overran) + 1}
  BY <1>2, FS_AddElement
<1>4. /\ IsFiniteSet(Deciding)
      /\ Cardinality(Deciding) <= Cardinality(overran \union {lock})
  BY <1>1, <1>3, FS_Subset
<1>5. Cardinality(Deciding) \in Nat
  BY <1>4, FS_CardinalityType
<1> QED
  BY <1>1, <1>2, <1>3, <1>4, <1>5

\* What a step of one request does to the two sets.
LEMMA RequestMoves ==
  ASSUME Typed, NEW r \in Requests, NEW q \in RequestState, req' = [req EXCEPT ![r] = q]
  PROVE  /\ req' \in [Requests -> RequestState] /\ req'[r] = q
         /\ \A p \in Requests \ {r} : req'[p] = req[p]
         /\ Granted' = IF Entitled(q) THEN Granted \union {r} ELSE Granted \ {r}
         /\ Deciding' = IF q.pc = "decr" THEN Deciding \union {r} ELSE Deciding \ {r}
<1>1. req \in [Requests -> RequestState]
  BY DEF Typed
<1>2. /\ req' \in [Requests -> RequestState] /\ req'[r] = q
      /\ \A p \in Requests \ {r} : req'[p] = req[p]
  BY <1>1
<1>3. Granted' = { p \in Requests : Entitled(req'[p]) }
  BY DEF Granted, Entitled
<1>4. Granted' = IF Entitled(q) THEN Granted \union {r} ELSE Granted \ {r}
  BY <1>2, <1>3 DEF Granted
<1>5. Deciding' = IF q.pc = "decr" THEN Deciding \union {r} ELSE Deciding \ {r}
  BY <1>2 DEF Deciding
<1> QED
  BY <1>2, <1>4, <1>5

\* A request with a new pc (and finding) is still well formed.
LEMMA StatesOK ==
  ASSUME Typed, NEW r \in Requests
  PROVE  /\ req[r] \in RequestState
         /\ req[r].finding \in {"save", "DUPLICATE", "SOLD_OUT"}
         /\ \A pc \in Pending \union Answers :
               /\ [req[r] EXCEPT !.pc = pc] \in RequestState
               /\ [req[r] EXCEPT !.pc = pc].pc = pc
               /\ [req[r] EXCEPT !.pc = pc].user = req[r].user
               /\ [req[r] EXCEPT !.pc = pc].finding = req[r].finding
               /\ Goto(r, pc) => req' = [req EXCEPT ![r] = [req[r] EXCEPT !.pc = pc]]
<1>1. req \in [Requests -> RequestState]
  BY DEF Typed
<1>2. req[r] \in RequestState
  BY <1>1
<1> QED
  BY <1>1, <1>2 DEF RequestState, Goto

\* The same when an early exit goes through the finally block.
LEMMA FinallyOK ==
  ASSUME Typed, NEW r \in Requests, NEW finding \in {"save", "DUPLICATE", "SOLD_OUT"},
         Finally(r, finding)
  PROVE  \E q \in RequestState :
            req' = [req EXCEPT ![r] = q] /\ q.pc = "held?" /\ q.finding = finding
<1>1. req \in [Requests -> RequestState] /\ req[r] \in RequestState
  BY DEF Typed
<1> DEFINE q == [req[r] EXCEPT !.pc = "held?", !.finding = finding]
<1>2. q \in RequestState /\ q.pc = "held?" /\ q.finding = finding
  BY <1>1 DEF RequestState, Pending, Critical
<1>3. req' = [req EXCEPT ![r] = q]
  BY <1>1 DEF Finally
<1> HIDE DEF q
<1> QED
  BY <1>2, <1>3

\* A change of the lock that takes it from nobody who is not done with it.
LockStays(r, q) ==
    /\ \/ lock' = lock
       \/ lock = NoHolder /\ lock' = r
       \/ lock = r /\ lock' = NoHolder /\ q.pc \notin Critical
    /\ q.pc \in Critical => req[r].pc \in Critical \/ lock' = r

\* Under it a request that goes on leaves the others their exclusion.
LEMMA ExclusiveStays ==
  ASSUME Typed, Exclusive, NEW r \in Requests, NEW q \in RequestState,
         req' = [req EXCEPT ![r] = q], LockStays(r, q), UNCHANGED overran
  PROVE  Exclusive'
<1>1. req'[r] = q /\ \A p \in Requests \ {r} : req'[p] = req[p]
  BY RequestMoves
<1>2. ASSUME NEW p \in Requests, req'[p].pc \in Critical, p \notin overran'
      PROVE  lock' = p
  <2>1. CASE p = r
    BY <1>1, <1>2, <2>1 DEF Exclusive, LockStays
  <2>2. CASE p # r
    <3>1. lock = p
      BY <1>1, <1>2, <2>2 DEF Exclusive
    <3> QED
      BY <3>1, <2>2, LockAssumption DEF LockStays
  <2> QED
    BY <2>1, <2>2
<1> QED
  BY <1>2 DEF Exclusive, Critical

\* A step that neither passes the look at the counter nor takes a coupon.
LEMMA QuietStep ==
  ASSUME LeaseInv, NEW r \in Requests, NEW q \in RequestState, req' = [req EXCEPT ![r] = q],
         Entitled(q) => Entitled(req[r]), q.pc # "decr", LockStays(r, q),
         lock' \in Requests \union {NoHolder},
         UNCHANGED << event, admin, opens, credited, stock, rows, overran >>
  PROVE  LeaseInv'
<1>1. /\ req' \in [Requests -> RequestState]
      /\ Granted' \subseteq Granted /\ Deciding' \subseteq Deciding
  <2>1. r \in Granted <=> Entitled(req[r])
    BY DEF Granted
  <2>2. /\ req' \in [Requests -> RequestState]
        /\ Granted' = IF Entitled(q) THEN Granted \union {r} ELSE Granted \ {r}
        /\ Deciding' = IF q.pc = "decr" THEN Deciding \union {r} ELSE Deciding \ {r}
    BY RequestMoves DEF LeaseInv
  <2> QED
    BY <2>1, <2>2
<1>2. Typed' /\ NoQty' /\ Opening'
  BY <1>1 DEF LeaseInv, Typed, NoQty, Opening, Resetting
<1>3. Exclusive'
  BY ExclusiveStays DEF LeaseInv
<1>4. /\ IsFiniteSet(Granted') /\ Cardinality(Granted') <= Cardinality(Granted)
      /\ Cardinality(Granted) \in Nat /\ Cardinality(Granted') \in Nat
  BY <1>1, FS_Subset, FS_CardinalityType DEF LeaseInv
<1>5. /\ Cardinality(Deciding') <= Cardinality(Deciding)
      /\ Cardinality(Deciding) \in Nat /\ Cardinality(Deciding') \in Nat
  BY <1>1, DecidingBounded, FS_Subset, FS_CardinalityType DEF LeaseInv
<1>6. Counted'
  <2>1. /\ Cardinality(rows) \in Nat /\ Cardinality(overran) \in Nat /\ stock \in Int
        /\ TotalQty \in Nat
    BY FS_CardinalityType, EventAssumption DEF LeaseInv, Typed
  <2> QED
    BY <1>1, <1>4, <1>5, <2>1 DEF LeaseInv, Counted
<1> QED
  BY <1>2, <1>3, <1>4, <1>6 DEF LeaseInv

-----------------------------------------------------------------------------
\* The look at the counter, when it shows a coupon.
LEMMA SeenKeeps ==
  ASSUME LeaseInv, NEW r \in Requests, CurrentStock(r), ~OutOfStock
  PROVE  LeaseInv'
<1> DEFINE q == [req[r] EXCEPT !.pc = "decr"]
<1>1. /\ req[r].pc = "stock?" /\ Goto(r, "decr") /\ stock > 0
      /\ UNCHANGED << event, admin, opens, credited, stock, rows, overran, lock >>
  BY DEF CurrentStock, OutOfStock, redisVars, adminVars, LeaseInv, Typed
<1>2. q \in RequestState /\ q.pc = "decr" /\ req' = [req EXCEPT ![r] = q]
  <2>1. "decr" \in Pending \union Answers
    BY DEF Pending, Critical
  <2> QED
    BY <1>1, <2>1, StatesOK DEF LeaseInv
<1> HIDE DEF q
<1>3. /\ req' \in [Requests -> RequestState] /\ Granted' = Granted
      /\ Typed' /\ NoQty' /\ Opening'
  <2>1. ~Entitled(q) /\ r \notin Granted
    BY <1>1, <1>2 DEF Entitled, Granted
  <2>2. /\ req' \in [Requests -> RequestState]
        /\ Granted' = IF Entitled(q) THEN Granted \union {r} ELSE Granted \ {r}
        /\ Deciding' = IF q.pc = "decr" THEN Deciding \union {r} ELSE Deciding \ {r}
    BY <1>2, RequestMoves DEF LeaseInv
  <2>3. Granted' = Granted
    BY <2>1, <2>2
  <2> QED
    BY <1>1, <2>2, <2>3 DEF LeaseInv, Typed, NoQty, Opening, Resetting
<1>4. Exclusive'
  <2>1. LockStays(r, q)
    BY <1>1 DEF LockStays, Critical
  <2> QED
    BY <1>1, <1>2, <2>1, ExclusiveStays DEF LeaseInv
<1>5. /\ Cardinality(Deciding') <= Cardinality(overran') + 1
      /\ Cardinality(Deciding') \in Nat /\ Cardinality(overran') \in Nat
  <2>1. Deciding' \subseteq overran' \union {lock'}
    BY <1>3, <1>4 DEF Exclusive, Deciding, Critical
  <2>2. IsFiniteSet(overran') /\ Cardinality(overran') \in Nat
    BY <1>3, FS_CardinalityType DEF Typed
  <2>3. /\ IsFiniteSet(overran' \union {lock'})
        /\ Cardinality(overran' \union {lock'})
              \in {Cardinality(overran'), Cardinality(overran') + 1}
    BY <2>2, FS_AddElement
  <2>4. /\ IsFiniteSet(Deciding')
        /\ Cardinality(Deciding') <= Cardinality(overran' \union {lock'})
    BY <2>1, <2>3, FS_Subset
  <2>5. Cardinality(Deciding') \in Nat
    BY <2>4, FS_CardinalityType
  <2> QED
    BY <2>2, <2>3, <2>4, <2>5
<1>6. Counted'
  <2>1. opens <= 1 => credited # 0
    BY <1>1 DEF LeaseInv, Counted, NoStock
  <2>2. stock \in Int
    BY DEF LeaseInv, Typed
  <2> QED
    BY <1>1, <1>3, <1>5, <2>1, <2>2 DEF LeaseInv, Counted
<1> QED
  BY <1>3, <1>4, <1>6 DEF LeaseInv

\* DECR: one coupon less, one request more that is to have a row.
LEMMA DecrKeeps ==
  ASSUME LeaseInv, NEW r \in Requests, Decr(r)
  PROVE  LeaseInv'
<1> DEFINE q == [req[r] EXCEPT !.pc = "sadd"]
<1>1. /\ req[r].pc = "decr" /\ Goto(r, "sadd") /\ stock' = stock - 1 /\ stock \in Int
      /\ UNCHANGED << event, admin, opens, credited, rows, overran, lock >>
  BY DEF Decr, adminVars, LeaseInv, Typed
<1>2. q \in RequestState /\ q.pc = "sadd" /\ req' = [req EXCEPT ![r] = q]
  <2>1. "sadd" \in Pending \union Answers
    BY DEF Pending, Critical
  <2> QED
    BY <1>1, <2>1, StatesOK DEF LeaseInv
<1> HIDE DEF q
<1>3. /\ req' \in [Requests -> RequestState]
      /\ Granted' = Granted \union {r} /\ r \notin Granted
      /\ Deciding' = Deciding \ {r} /\ r \in Deciding
  <2>1. Entitled(q) /\ r \notin Granted /\ r \in Deciding
    BY <1>1, <1>2 DEF Entitled, Granted, Deciding
  <2> QED
    BY <1>2, <2>1, RequestMoves DEF LeaseInv
<1>4. Typed' /\ NoQty' /\ Opening'
  BY <1>1, <1>3 DEF LeaseInv, Typed, NoQty, Opening, Resetting
<1>5. Exclusive'
  <2>1. LockStays(r, q)
    BY <1>1 DEF LockStays, Critical
  <2> QED
    BY <1>1, <1>2, <2>1, ExclusiveStays DEF LeaseInv
<1>6. /\ IsFiniteSet(Granted') /\ Cardinality(Granted') = Cardinality(Granted) + 1
      /\ Cardinality(Granted) \in Nat
  BY <1>3, FS_AddElement, FS_CardinalityType DEF LeaseInv
<1>7. /\ Cardinality(Deciding') = Cardinality(Deciding) - 1
      /\ Cardinality(Deciding) \in Nat
  BY <1>3, DecidingBounded, FS_RemoveElement DEF LeaseInv
<1>8. Counted'
  <2>1. Cardinality(rows) \in Nat /\ Cardinality(overran) \in Nat /\ TotalQty \in Nat
    BY FS_CardinalityType, EventAssumption DEF LeaseInv, Typed
  <2>2. opens <= 1 => credited # 0
    BY <1>3 DEF LeaseInv, Counted
  <2> QED
    BY <1>1, <1>6, <1>7, <2>1, <2>2 DEF LeaseInv, Counted
<1> QED
  BY <1>4, <1>5, <1>6, <1>8 DEF LeaseInv

\* The INSERT: a row at the most for a request that was to have one.
LEMMA SaveKeeps ==
  ASSUME LeaseInv, NEW r \in Requests, SaveRow(r)
  PROVE  LeaseInv'
<1> DEFINE pc == IF req[r].user \in rows THEN "DUPLICATE" ELSE "CREATED"
           q  == [req[r] EXCEPT !.pc = pc]
<1>1. /\ req[r].pc = "save" /\ Goto(r, pc) /\ rows' = rows \union {req[r].user}
      /\ UNCHANGED << event, admin, opens, credited, stock, overran, lock >>
  BY DEF SaveRow, adminVars, redisVars
<1>2. pc \in Answers /\ pc \in {"DUPLICATE", "CREATED"}
  BY DEF Answers
<1> HIDE DEF pc
<1>3. /\ q \in RequestState /\ q.pc = pc /\ req' = [req EXCEPT ![r] = q]
      /\ req[r].user \in Users
  BY <1>1, <1>2, StatesOK DEF LeaseInv, RequestState
<1> HIDE DEF q
<1>4. /\ req' \in [Requests -> RequestState]
      /\ Granted' = Granted \ {r} /\ r \in Granted /\ Deciding' = Deciding
  <2>1. ~Entitled(q) /\ r \in Granted /\ r \notin Deciding /\ q.pc # "decr"
    BY <1>1, <1>2, <1>3 DEF Entitled, Granted, Deciding
  <2>2. /\ req' \in [Requests -> RequestState]
        /\ Granted' = IF Entitled(q) THEN Granted \union {r} ELSE Granted \ {r}
        /\ Deciding' = IF q.pc = "decr" THEN Deciding \union {r} ELSE Deciding \ {r}
    BY <1>3, RequestMoves DEF LeaseInv
  <2> QED
    BY <2>1, <2>2 DEF Deciding
<1>5. /\ IsFiniteSet(rows') /\ Cardinality(rows') <= Cardinality(rows) + 1
      /\ Cardinality(rows) \in Nat /\ Cardinality(rows') \in Nat
  <2>1. IsFiniteSet(rows) /\ Cardinality(rows) \in Nat
    BY FS_CardinalityType DEF LeaseInv, Typed
  <2>2. /\ IsFiniteSet(rows')
        /\ Cardinality(rows') \in {Cardinality(rows), Cardinality(rows) + 1}
    BY <1>1, <2>1, FS_AddElement
  <2> QED
    BY <2>1, <2>2
<1>6. Typed' /\ NoQty' /\ Opening'
  BY <1>1, <1>3, <1>4, <1>5 DEF LeaseInv, Typed, NoQty, Opening, Resetting
<1>7. Exclusive'
  <2>1. LockStays(r, q)
    BY <1>1, <1>2, <1>3 DEF LockStays, Critical
  <2> QED
    BY <1>1, <1>3, <2>1, ExclusiveStays DEF LeaseInv
<1>8. /\ IsFiniteSet(Granted') /\ Cardinality(Granted') = Cardinality(Granted) - 1
      /\ Cardinality(Granted) \in Nat
  BY <1>4, FS_RemoveElement, FS_CardinalityType DEF LeaseInv
<1>9. Counted'
  <2>1. TotalQty \in Nat /\ stock \in Int
    BY EventAssumption DEF LeaseInv, Typed
  <2>2. opens <= 1 => credited # 0
    BY <1>4 DEF LeaseInv, Counted
  <2> QED
    BY <1>1, <1>4, <1>5, <1>8, <2>1, <2>2 DEF LeaseInv, Counted
<1> QED
  BY <1>6, <1>7, <1>8, <1>9 DEF LeaseInv

\* A lease runs out: its holder, if he is still at it, has overrun.
LEMMA ExpireKeeps ==
  ASSUME LeaseInv, Expire
  PROVE  LeaseInv'
<1>1. /\ lock # NoHolder /\ lock' = NoHolder
      /\ overran' = IF req[lock].pc \in Critical THEN overran \union {lock} ELSE overran
      /\ UNCHANGED << req, event, admin, opens, credited, stock, rows >>
  BY DEF Expire, LeaseOver, adminVars, redisVars
<1>2. lock \in Requests
  BY <1>1 DEF LeaseInv, Typed
<1>3. /\ IsFiniteSet(overran') /\ overran' \subseteq Requests
      /\ Cardinality(overran) <= Cardinality(overran')
      /\ Cardinality(overran) \in Nat /\ Cardinality(overran') \in Nat
  <2>1. /\ IsFiniteSet(overran) /\ Cardinality(overran) \in Nat /\ overran \subseteq Requests
    BY FS_CardinalityType DEF LeaseInv, Typed
  <2>2. /\ IsFiniteSet(overran \union {lock})
        /\ Cardinality(overran \union {lock}) \in {Cardinality(overran), Cardinality(overran) + 1}
    BY <2>1, FS_AddElement
  <2> QED
    BY <1>1, <1>2, <2>1, <2>2
<1>4. Typed' /\ NoQty' /\ Opening'
  BY <1>1, <1>3 DEF LeaseInv, Typed, NoQty, Opening, Resetting
<1>5. Exclusive'
  BY <1>1 DEF LeaseInv, Exclusive, Critical
<1>6. Granted' = Granted /\ Deciding' = Deciding
  BY <1>1 DEF Granted, Deciding, Entitled
<1>7. Counted'
  <2>1. Cardinality(Deciding) \in Nat /\ stock \in Int
    BY DecidingBounded DEF LeaseInv, Typed
  <2> QED
    BY <1>1, <1>3, <1>6, <2>1 DEF LeaseInv, Counted
<1> QED
  BY <1>4, <1>5, <1>6, <1>7 DEF LeaseInv

-----------------------------------------------------------------------------
\* The steps of one request.
LEMMA RequestKeeps ==
  ASSUME LeaseInv, NEW r \in Requests, RequestStep(r)
  PROVE  LeaseInv'
<1> USE DEF Pending, Answers, Critical
<1>1. Typed /\ lock \in Requests \union {NoHolder}
  BY DEF LeaseInv, Typed
\* A step that only goes on to another pc.
<1>2. ASSUME NEW pc \in Pending \union Answers, Goto(r, pc), pc # "decr",
             Entitled([req[r] EXCEPT !.pc = pc]) => Entitled(req[r]),
             lock' \in Requests \union {NoHolder}, LockStays(r, [req[r] EXCEPT !.pc = pc]),
             UNCHANGED << event, admin, opens, credited, stock, rows, overran >>
      PROVE  LeaseInv'
  BY <1>1, <1>2, StatesOK, QuietStep
\* An early exit through the finally block, without a coupon or with the one
\* already taken.
<1>3. ASSUME NEW finding \in {"save", "DUPLICATE", "SOLD_OUT"}, Finally(r, finding),
             req[r].pc \in Critical, finding = "save" => req[r].pc = "sadd",
             UNCHANGED << event, admin, opens, credited, stock, rows, overran, lock >>
      PROVE  LeaseInv'
  <2>1. PICK q \in RequestState :
              req' = [req EXCEPT ![r] = q] /\ q.pc = "held?" /\ q.finding = finding
    BY <1>1, <1>3, FinallyOK
  <2>2. (Entitled(q) => Entitled(req[r])) /\ LockStays(r, q)
    BY <1>3, <2>1 DEF Entitled, LockStays
  <2> QED
    BY <1>1, <1>3, <2>1, <2>2, QuietStep
<1>4. ASSUME NEW i \in Instances, NEW inWindow \in BOOLEAN, CheckMeta(r, i, inWindow)
      PROVE  LeaseInv'
  <2>1. \E pc \in {"lock", "NOT_OPEN"} : Goto(r, pc)
    BY <1>4 DEF CheckMeta
  <2>2. UNCHANGED << event, admin, opens, credited, stock, rows, overran, lock >>
    BY <1>4 DEF CheckMeta, redisVars
  <2> QED
    BY <1>1, <1>2, <2>1, <2>2, StatesOK DEF Entitled, LockStays
<1>5. CASE TryLock(r)
  <2>1. /\ req[r].pc = "lock" /\ lock = NoHolder /\ lock' = r /\ Goto(r, "issued?")
        /\ UNCHANGED << event, admin, opens, credited, stock, rows, overran >>
    BY <1>5 DEF TryLock, Lockable, redisVars, adminVars
  <2> QED
    BY <1>1, <1>2, <2>1, StatesOK DEF Entitled, LockStays
<1>6. CASE LockTimeout(r)
  <2>1. /\ req[r].pc = "lock" /\ Goto(r, "LOCK_TIMEOUT")
        /\ UNCHANGED << event, admin, opens, credited, stock, rows, overran, lock >>
    BY <1>6 DEF LockTimeout, redisVars, adminVars
  <2> QED
    BY <1>1, <1>2, <2>1, StatesOK DEF Entitled, LockStays
<1>7. CASE IsIssued(r)
  <2>1. /\ req[r].pc = "issued?" /\ (Finally(r, "DUPLICATE") \/ Goto(r, "stock?"))
        /\ UNCHANGED << event, admin, opens, credited, stock, rows, overran, lock >>
    BY <1>7 DEF IsIssued, redisVars, adminVars
  <2>2. CASE Finally(r, "DUPLICATE")
    BY <1>3, <2>1, <2>2
  <2>3. CASE Goto(r, "stock?")
    BY <1>1, <1>2, <2>1, <2>3, StatesOK DEF Entitled, LockStays
  <2> QED
    BY <2>1, <2>2, <2>3
<1>8. CASE CurrentStock(r)
  <2>1. CASE OutOfStock
    <3>1. /\ req[r].pc = "stock?" /\ Finally(r, "SOLD_OUT")
          /\ UNCHANGED << event, admin, opens, credited, stock, rows, overran, lock >>
      BY <1>8, <2>1 DEF CurrentStock, redisVars, adminVars
    <3> QED
      BY <1>3, <3>1
  <2> QED
    BY <1>8, <2>1, SeenKeeps
<1>9. CASE Decr(r)
  BY <1>9, DecrKeeps
<1>10. CASE Sadd(r)
  <2>1. /\ req[r].pc = "sadd" /\ Finally(r, "save")
        /\ UNCHANGED << event, admin, opens, credited, stock, rows, overran, lock >>
    BY <1>10 DEF Sadd, adminVars
  <2> QED
    BY <1>3, <2>1
<1>11. CASE AskHeld(r)
  <2>1. /\ req[r].pc = "held?" /\ (Goto(r, "unlock") \/ Goto(r, req[r].finding))
        /\ UNCHANGED << event, admin, opens, credited, stock, rows, overran, lock >>
    BY <1>11 DEF AskHeld, redisVars, adminVars
  <2>2. CASE Goto(r, "unlock")
    BY <1>1, <1>2, <2>1, <2>2, StatesOK DEF Entitled, LockStays
  <2>3. CASE Goto(r, req[r].finding)
    BY <1>1, <1>2, <2>1, <2>3, StatesOK DEF Entitled, LockStays
  <2> QED
    BY <2>1, <2>2, <2>3
<1>12. CASE Unlock(r)
  <2>1. /\ req[r].pc = "unlock"
        /\ \/ lock = r /\ lock' = NoHolder /\ Goto(r, req[r].finding)
           \/ lock' = lock /\ Goto(r, "ERROR")
        /\ UNCHANGED << event, admin, opens, credited, stock, rows, overran >>
    BY <1>12 DEF Unlock, Owns, redisVars, adminVars
  <2>2. CASE lock = r /\ lock' = NoHolder /\ Goto(r, req[r].finding)
    BY <1>1, <1>2, <2>1, <2>2, StatesOK DEF Entitled, LockStays
  <2>3. CASE lock' = lock /\ Goto(r, "ERROR")
    BY <1>1, <1>2, <2>1, <2>3, StatesOK DEF Entitled, LockStays
  <2> QED
    BY <2>1, <2>2, <2>3
<1>13. CASE SaveRow(r)
  BY <1>13, SaveKeeps
<1>14. CASE Fail(r)
  <2>1. /\ Goto(r, "ERROR") /\ (lock' = lock \/ (lock = r /\ lock' = NoHolder))
        /\ UNCHANGED << event, admin, opens, credited, stock, rows, overran >>
    BY <1>14 DEF Fail, redisVars, adminVars
  <2> QED
    BY <1>1, <1>2, <2>1, StatesOK DEF Entitled, LockStays
<1> QED
  BY <1>4, <1>5, <1>6, <1>7, <1>8, <1>9, <1>10, <1>11, <1>12, <1>13, <1>14
     DEF RequestStep, InLock

-----------------------------------------------------------------------------
\* A status change: the requests, the lock and the rows stay; the one SET of
\* the counter comes before the first coupon is taken.
LEMMA AdminKeeps == LeaseInv /\ AdminStep /\ UNCHANGED issueVars => LeaseInv'
<1> SUFFICES ASSUME LeaseInv, AdminStep, UNCHANGED issueVars PROVE LeaseInv'
  OBVIOUS
<1>1. UNCHANGED << req, lock, rows, overran >>
  BY DEF issueVars
<1>2. /\ Exclusive' /\ Granted' = Granted /\ Deciding' = Deciding
      /\ IsFiniteSet(Granted')
  BY <1>1 DEF LeaseInv, Exclusive, Critical, Granted, Deciding, Entitled
<1>3. /\ admin \in [Admins -> AdminState] /\ event \in EventRow /\ stock \in Int
      /\ opens \in Nat /\ credited \in Nat /\ TotalQty \in Nat \ {0}
  BY EventAssumption DEF LeaseInv, Typed
<1>4. Idle \in AdminState /\ Idle.row.issuedQty = 0 /\ Idle.pc = "idle"
  BY EventAssumption DEF Idle, AdminState, AdminPcs, Statuses, NewRow, EventRow
\* A step that leaves Redis's counter and the count of the openings alone.
<1>5. ASSUME UNCHANGED << stock, opens, credited >>, event' \in EventRow, event'.issuedQty = 0,
             admin' \in [Admins -> AdminState],
             \A a \in Admins : /\ admin'[a].row.issuedQty = 0
                               /\ admin'[a].pc \in {"del", "set"} => Resetting(a)
      PROVE  LeaseInv'
  <2>1. Typed' /\ NoQty'
    BY <1>1, <1>5 DEF LeaseInv, Typed, NoQty
  <2>2. Opening'
    BY <1>5 DEF LeaseInv, Opening, Resetting
  <2>3. Counted'
    BY <1>1, <1>2, <1>5 DEF LeaseInv, Counted
  <2> QED
    BY <1>2, <2>1, <2>2, <2>3 DEF LeaseInv
<1>6. ASSUME NEW a \in Admins, NEW s \in Statuses, ReadEvent(a, s) PROVE LeaseInv'
  <2> DEFINE new == [pc |-> IF s = "OPEN" THEN "del" ELSE "invalidate",
                     target |-> s, row |-> event]
  <2>1. /\ admin' = [admin EXCEPT ![a] = new] /\ admin[a].pc = "idle"
        /\ opens' = IF s = "OPEN" THEN opens + 1 ELSE opens
        /\ UNCHANGED << stock, event, credited >>
    BY <1>6 DEF ReadEvent, redisVars
  <2>2. /\ new \in AdminState /\ new.row = event
        /\ new.pc \in {"del", "set"} => s = "OPEN"
    BY <1>3 DEF AdminState, AdminPcs
  <2> HIDE DEF new
  <2>3. /\ admin' \in [Admins -> AdminState] /\ admin'[a] = new
        /\ \A b \in Admins \ {a} : admin'[b] = admin[b]
    BY <1>3, <2>1, <2>2
  <2>4. Typed' /\ NoQty'
    BY <1>1, <1>3, <2>1, <2>2, <2>3 DEF LeaseInv, Typed, NoQty
  <2>5. Opening'
    BY <1>3, <2>1, <2>2, <2>3 DEF LeaseInv, Opening, Resetting
  <2>6. Counted'
    BY <1>1, <1>2, <1>3, <2>1 DEF LeaseInv, Counted
  <2> QED
    BY <1>2, <2>4, <2>5, <2>6 DEF LeaseInv
<1>7. ASSUME NEW a \in Admins, NEW pc \in AdminPcs, admin' = [admin EXCEPT ![a].pc = pc]
      PROVE  /\ admin' \in [Admins -> AdminState] /\ admin'[a].pc = pc
             /\ \A b \in Admins : admin'[b].row = admin[b].row
             /\ \A b \in Admins \ {a} : admin'[b] = admin[b]
  <2>1. [admin[a] EXCEPT !.pc = pc] \in AdminState
    BY <1>3 DEF AdminState
  <2> QED
    BY <1>3, <1>7, <2>1 DEF AdminState
<1>8. ASSUME NEW a \in Admins, DelIssued(a) PROVE LeaseInv'
  <2>1. /\ admin' = [admin EXCEPT ![a].pc = "set"] /\ "set" \in AdminPcs /\ Resetting(a)
        /\ UNCHANGED << stock, event, opens, credited >>
    BY <1>8 DEF DelIssued, AdminPcs, Resetting
  <2> QED
    BY <1>3, <1>5, <1>7, <2>1 DEF LeaseInv, NoQty, Resetting
<1>9. ASSUME NEW a \in Admins, SetStock(a) PROVE LeaseInv'
  <2>1. /\ admin' = [admin EXCEPT ![a].pc = "invalidate"] /\ "invalidate" \in AdminPcs
        /\ stock' = TotalQty /\ credited' = credited + TotalQty
        /\ UNCHANGED << event, opens >> /\ Resetting(a)
    BY <1>3, <1>9 DEF SetStock, LeaseInv, NoQty, AdminPcs, Resetting
  <2>2. /\ admin' \in [Admins -> AdminState] /\ admin'[a].pc = "invalidate"
        /\ \A b \in Admins : admin'[b].row = admin[b].row
        /\ \A b \in Admins \ {a} : admin'[b] = admin[b]
    BY <1>7, <2>1
  <2>3. Typed' /\ NoQty'
    BY <1>1, <1>3, <2>1, <2>2 DEF LeaseInv, Typed, NoQty
  <2>4. opens <= 1 => opens = 1 /\ credited = 0
    BY <1>3, <2>1 DEF LeaseInv, Opening
  <2>5. Opening'
    BY <1>3, <2>1, <2>2, <2>4 DEF LeaseInv, Opening, Resetting
  <2>6. Counted'
    <3>1. /\ Cardinality(overran) \in Nat
          /\ Cardinality({}) = 0
      BY FS_CardinalityType, FS_EmptySet DEF LeaseInv, Typed
    <3>2. opens <= 1 => rows = {} /\ Granted = {} /\ Deciding = {}
      BY <2>4 DEF LeaseInv, Counted
    <3> QED
      BY <1>1, <1>2, <1>3, <2>1, <2>4, <3>1, <3>2 DEF Counted
  <2> QED
    BY <1>2, <2>3, <2>5, <2>6 DEF LeaseInv
<1>10. ASSUME NEW a \in Admins, NEW i \in Instances, Invalidate(a, i) PROVE LeaseInv'
  <2>1. /\ admin' = [admin EXCEPT ![a].pc = "commit"] /\ "commit" \in AdminPcs
        /\ UNCHANGED << stock, event, opens, credited >>
    BY <1>10 DEF Invalidate, AdminPcs, redisVars
  <2> QED
    BY <1>3, <1>5, <1>7, <2>1 DEF LeaseInv, NoQty, Resetting
<1>11. ASSUME NEW a \in Admins, Commit(a) \/ Rollback(a) PROVE LeaseInv'
  <2>1. /\ admin' = [admin EXCEPT ![a] = Idle]
        /\ UNCHANGED << stock, opens, credited >>
    BY <1>11 DEF Commit, Rollback, redisVars
  <2>2. event' \in EventRow /\ event'.issuedQty = 0
    <3>1. CASE event' = event
      BY <1>3, <3>1 DEF LeaseInv, NoQty
    <3>2. CASE event' = [status |-> admin[a].target, issuedQty |-> admin[a].row.issuedQty]
      BY <1>3, <3>2 DEF LeaseInv, NoQty, EventRow, AdminState
    <3> QED
      BY <1>11, <3>1, <3>2 DEF Commit, Rollback
  <2>3. /\ admin' \in [Admins -> AdminState]
        /\ \A b \in Admins : admin'[b] \in {admin[b], Idle}
    BY <1>3, <1>4, <2>1
  <2> QED
    BY <1>4, <1>5, <2>1, <2>2, <2>3 DEF LeaseInv, NoQty, Resetting
<1>12. ASSUME NEW i \in Instances, Drop(i) PROVE LeaseInv'
  <2>1. UNCHANGED << stock, event, admin, opens, credited >>
    BY <1>12 DEF Drop, redisVars
  <2> QED
    BY <1>3, <1>5, <2>1 DEF LeaseInv, NoQty, Resetting
<1> QED
  BY <1>6, <1>8, <1>9, <1>10, <1>11, <1>12 DEF AdminStep

-----------------------------------------------------------------------------
\* Every step keeps the invariant.
LEMMA LeaseInductive == LeaseInv /\ [Next]_vars => LeaseInv'
<1> SUFFICES ASSUME LeaseInv, [Next]_vars PROVE LeaseInv'
  OBVIOUS
<1>1. CASE UNCHANGED vars
  BY <1>1 DEF vars, redisVars, adminVars, issueVars, LeaseInv, Typed, NoQty, Opening, Resetting,
              Exclusive, Critical, Counted, Granted, Deciding, Entitled
<1> QED
  BY <1>1, RequestKeeps, ExpireKeeps, AdminKeeps DEF Next

\* It holds at the start.
LEMMA LeaseInitially == Init => LeaseInv
<1> SUFFICES ASSUME Init PROVE LeaseInv
  OBVIOUS
<1>1. /\ event = NewRow /\ admin = [a \in Admins |-> Idle] /\ stock = NoStock
      /\ req \in [Requests -> [pc : {"meta"}, user : Users, finding : {"save"}]]
      /\ lock = NoHolder /\ rows = {} /\ overran = {} /\ opens = 0 /\ credited = 0
  BY DEF Init, EventInit
<1>2. NewRow \in EventRow /\ NewRow.issuedQty = 0
  BY EventAssumption DEF NewRow, EventRow, Statuses
<1>3. Idle \in AdminState /\ Idle.row = NewRow /\ Idle.pc = "idle"
  BY <1>2 DEF Idle, AdminState, AdminPcs, Statuses
<1>4. \A r \in Requests : req[r] \in RequestState /\ req[r].pc = "meta"
  BY <1>1 DEF RequestState, Pending
<1>5. Typed
  <2>1. req \in [Requests -> RequestState]
    BY <1>1, <1>4
  <2> QED
    BY <1>1, <1>2, <1>3, <2>1, FS_EmptySet DEF Typed, NoStock
<1>6. NoQty /\ Opening /\ Exclusive
  BY <1>1, <1>2, <1>3, <1>4 DEF NoQty, Opening, Resetting, Exclusive, Critical
<1>7. Granted = {} /\ Deciding = {}
  BY <1>4 DEF Granted, Deciding, Entitled
<1>8. IsFiniteSet(Granted) /\ Counted
  BY <1>1, <1>7, FS_EmptySet, EventAssumption DEF Counted
<1> QED
  BY <1>5, <1>6, <1>8 DEF LeaseInv

\* The invariant holds in every reachable state.
THEOREM LeaseInvariance == Spec => []LeaseInv
  BY LeaseInitially, LeaseInductive, PTL DEF Spec

\* Two requests whose leases have not run out on them are never in the lock
\* together.
THEOREM LockExcludes == Spec => []MutualExclusion
<1>1. LeaseInv => MutualExclusion
  BY DEF LeaseInv, Exclusive, MutualExclusion
<1> QED
  BY <1>1, LeaseInvariance, PTL

\* In an event opened at most once, every lease that runs out on its holder
\* costs one coupon at the most.
THEOREM OverIssueBounded == Spec => []OverIssueByOverruns
<1>1. LeaseInv => OverIssueByOverruns
  <2> SUFFICES ASSUME LeaseInv, opens <= 1
               PROVE  Cardinality(rows) <= TotalQty + Cardinality(overran)
    BY DEF OverIssueByOverruns
  <2>1. /\ Cardinality(rows) \in Nat /\ Cardinality(overran) \in Nat
        /\ Cardinality(Granted) \in Nat /\ Cardinality(Deciding) \in Nat
        /\ stock \in Int /\ opens \in Nat /\ TotalQty \in Nat
    BY FS_CardinalityType, DecidingBounded, EventAssumption DEF LeaseInv, Typed
  <2>2. CASE credited = 0
    BY <2>1, <2>2, FS_EmptySet DEF LeaseInv, Counted
  <2>3. CASE credited = TotalQty
    BY <2>1, <2>3 DEF LeaseInv, Counted
  <2> QED
    BY <2>1, <2>2, <2>3 DEF LeaseInv, Opening
<1> QED
  BY <1>1, LeaseInvariance, PTL

-----------------------------------------------------------------------------
(* The first-come allocation.  In an event opened once, while no lease has  *)
(* run out on its holder, nobody registers between a request's look at the  *)
(* set and its own SADD (Unregistered), and the coupons granted, about to   *)
(* be granted and left are no more than there were (Balanced).              *)

\* Who has passed the membership test and has not registered yet.
Registering == { r \in Requests : req[r].pc = "sadd" }

Unregistered ==
    opens <= 1 /\ overran = {} =>
        \A r \in Requests : req[r].pc \in {"stock?", "decr", "sadd"} => req[r].user \notin issued

Balanced ==
    /\ opens <= 1 /\ credited = 0 => grants = << >>
    /\ opens <= 1 /\ credited = TotalQty =>
          Len(grants) + Cardinality(Registering) + stock <= TotalQty

\* The set in Redis is the set of those granted a coupon, and who is on the way
\* to his row is among them.
Registered ==
    /\ grants \in Seq(Users)
    /\ opens <= 1 => issued = Allocation!Winners
    /\ \A r \in Requests : Entitled(req[r]) /\ req[r].pc # "sadd" =>
                               req[r].user \in Allocation!Winners

AllocationInv == Unregistered /\ Balanced /\ Registered

LEMMA RegisteringFinite ==
  ASSUME LeaseInv
  PROVE  IsFiniteSet(Registering) /\ Cardinality(Registering) \in Nat
<1>1. Registering \subseteq Granted
  BY DEF Registering, Granted, Entitled
<1> QED
  BY <1>1, FS_Subset, FS_CardinalityType DEF LeaseInv

\* Appending a user adds him to the winners.
LEMMA WinnersGrow ==
  ASSUME grants \in Seq(Users), NEW u \in Users, grants' = Append(grants, u)
  PROVE  /\ grants' \in Seq(Users) /\ Len(grants') = Len(grants) + 1 /\ Len(grants) \in Nat
         /\ Allocation!Winners' = Allocation!Winners \union {u}
<1>1. /\ grants' \in Seq(Users) /\ Len(grants') = Len(grants) + 1
      /\ DOMAIN grants = 1..Len(grants) /\ DOMAIN grants' = 1..(Len(grants) + 1)
      /\ grants'[Len(grants) + 1] = u /\ \A i \in 1..Len(grants) : grants'[i] = grants[i]
      /\ Len(grants) \in Nat
  OBVIOUS
<1>2. 1..(Len(grants) + 1) = (1..Len(grants)) \union {Len(grants) + 1}
  BY <1>1
<1> QED
  BY <1>1, <1>2 DEF Allocation!Winners

\* A step that registers nobody and lets nobody come nearer to it.
LEMMA AllocationQuiet ==
  ASSUME LeaseInv, AllocationInv, UNCHANGED << grants, issued, stock, opens, credited >>,
         overran \subseteq overran',
         \A r \in Requests :
            /\ req'[r].user = req[r].user
            /\ req'[r].pc \in {"stock?", "decr", "sadd"} =>
                  req[r].pc \in {"stock?", "decr", "sadd"} \/ req[r].user \notin issued
            /\ req'[r].pc = "sadd" => req[r].pc = "sadd"
            /\ Entitled(req'[r]) => Entitled(req[r]) /\ (req[r].pc = "sadd" => req'[r].pc = "sadd")
  PROVE  AllocationInv'
<1>1. Unregistered'
  <2>1. overran' = {} => overran = {}
    OBVIOUS
  <2> QED
    BY <2>1 DEF AllocationInv, Unregistered
<1>2. Registering' \subseteq Registering
  BY DEF Registering
<1>3. /\ Cardinality(Registering') <= Cardinality(Registering)
      /\ Cardinality(Registering') \in Nat /\ Cardinality(Registering) \in Nat
  BY <1>2, RegisteringFinite, FS_Subset, FS_CardinalityType
<1>4. Balanced'
  <2>1. stock \in Int /\ TotalQty \in Nat /\ Len(grants) \in Nat
    BY EventAssumption DEF LeaseInv, Typed, AllocationInv, Registered
  <2> QED
    BY <1>3, <2>1 DEF AllocationInv, Balanced
<1>5. Registered'
  <2>1. Allocation!Winners' = Allocation!Winners
    BY DEF Allocation!Winners
  <2>2. ASSUME NEW r \in Requests, Entitled(req'[r]), req'[r].pc # "sadd"
        PROVE  req'[r].user \in Allocation!Winners
    BY <2>2 DEF AllocationInv, Registered
  <2> QED
    BY <2>1, <2>2 DEF AllocationInv, Registered, Entitled
<1> QED
  BY <1>1, <1>4, <1>5 DEF AllocationInv

\* DECR moves a coupon from the counter to a request.
LEMMA AllocationDecr ==
  ASSUME LeaseInv, AllocationInv, NEW r \in Requests, Decr(r)
  PROVE  AllocationInv'
<1>1. /\ req[r].pc = "decr" /\ stock' = stock - 1
      /\ UNCHANGED << grants, issued, opens, credited, overran >>
  BY DEF Decr, adminVars
<1>2. /\ req'[r].pc = "sadd" /\ req'[r].user = req[r].user
      /\ \A q \in Requests \ {r} : req'[q] = req[q]
  BY DEF Decr, Goto, LeaseInv, Typed, RequestState
<1>3. Unregistered'
  BY <1>1, <1>2 DEF AllocationInv, Unregistered
<1>4. /\ Cardinality(Registering') = Cardinality(Registering) + 1
      /\ Cardinality(Registering) \in Nat
  <2>1. Registering' = Registering \union {r} /\ r \notin Registering
    BY <1>1, <1>2 DEF Registering
  <2> QED
    BY <2>1, RegisteringFinite, FS_AddElement
<1>5. Balanced'
  <2>1. stock \in Int /\ TotalQty \in Nat /\ Len(grants) \in Nat
    BY EventAssumption DEF LeaseInv, Typed, AllocationInv, Registered
  <2> QED
    BY <1>1, <1>4, <2>1 DEF AllocationInv, Balanced
<1>6. Registered'
  <2>1. Allocation!Winners' = Allocation!Winners
    BY <1>1 DEF Allocation!Winners
  <2>2. ASSUME NEW q \in Requests, Entitled(req'[q]), req'[q].pc # "sadd"
        PROVE  req'[q].user \in Allocation!Winners
    BY <1>2, <2>2 DEF AllocationInv, Registered
  <2> QED
    BY <1>1, <2>1, <2>2 DEF AllocationInv, Registered, Entitled
<1> QED
  BY <1>3, <1>5, <1>6 DEF AllocationInv

\* SADD registers a user: nobody else has come as far as he has.
LEMMA AllocationSadd ==
  ASSUME LeaseInv, AllocationInv, NEW r \in Requests, Sadd(r)
  PROVE  AllocationInv'
<1> DEFINE u == req[r].user
<1>1. /\ req[r].pc = "sadd" /\ grants' = Append(grants, u) /\ issued' = issued \union {u}
      /\ UNCHANGED << stock, opens, credited, overran >>
  BY DEF Sadd, adminVars
<1>2. /\ req'[r].pc = "held?" /\ req'[r].user = u /\ u \in Users
      /\ \A q \in Requests \ {r} : req'[q] = req[q]
  BY DEF Sadd, Finally, LeaseInv, Typed, RequestState
<1>3. /\ grants' \in Seq(Users) /\ Len(grants') = Len(grants) + 1 /\ Len(grants) \in Nat
      /\ Allocation!Winners' = Allocation!Winners \union {u}
  BY <1>1, <1>2, WinnersGrow DEF AllocationInv, Registered
<1>4. Unregistered'
  <2> SUFFICES ASSUME opens <= 1, overran = {}, NEW q \in Requests,
                      req'[q].pc \in {"stock?", "decr", "sadd"}
               PROVE  FALSE
    BY <1>1 DEF Unregistered
  <2>1. q # r /\ req[q].pc \in Critical
    BY <1>2 DEF Critical
  <2>2. req[r].pc \in Critical
    BY <1>1 DEF Critical
  <2> QED
    BY <2>1, <2>2 DEF LeaseInv, Exclusive
<1>5. /\ Cardinality(Registering') = Cardinality(Registering) - 1
      /\ Cardinality(Registering) \in Nat
  <2>1. Registering' = Registering \ {r} /\ r \in Registering
    BY <1>1, <1>2 DEF Registering
  <2> QED
    BY <2>1, RegisteringFinite, FS_RemoveElement
<1>6. Balanced'
  <2>1. stock \in Int /\ TotalQty \in Nat
    BY EventAssumption DEF LeaseInv, Typed
  <2>2. r \in Granted
    BY <1>1 DEF Granted, Entitled
  <2>3. opens <= 1 => credited # 0
    BY <2>2 DEF LeaseInv, Counted
  <2> QED
    BY <1>1, <1>3, <1>5, <2>1, <2>3 DEF AllocationInv, Balanced
<1>7. Registered'
  <2>1. ASSUME NEW q \in Requests, Entitled(req'[q]), req'[q].pc # "sadd"
        PROVE  req'[q].user \in Allocation!Winners \union {u}
    BY <1>2, <2>1 DEF AllocationInv, Registered
  <2> QED
    BY <1>1, <1>3, <2>1 DEF AllocationInv, Registered, Entitled
<1> QED
  BY <1>4, <1>6, <1>7 DEF AllocationInv

\* A status change resets the set and the counter before the first coupon.
LEMMA AllocationAdmin ==
  ASSUME LeaseInv, AllocationInv, AdminStep, UNCHANGED issueVars
  PROVE  AllocationInv'
<1>0. UNCHANGED << req, lock, rows, grants, overran >>
  BY DEF issueVars
<1>same. Allocation!Winners' = Allocation!Winners /\ Registering' = Registering
  BY <1>0 DEF Allocation!Winners, Registering
<1>int. /\ stock \in Int /\ opens \in Nat /\ credited \in Nat /\ TotalQty \in Nat \ {0}
        /\ Len(grants) \in Nat /\ Cardinality(Registering) \in Nat
  BY EventAssumption, RegisteringFinite DEF LeaseInv, Typed, AllocationInv, Registered
<1>1. ASSUME UNCHANGED << issued, stock, credited >>, opens <= opens', opens' \in Nat
      PROVE  AllocationInv'
  BY <1>0, <1>1, <1>same, <1>int
     DEF AllocationInv, Unregistered, Balanced, Registered, Entitled
<1>2. ASSUME NEW a \in Admins, DelIssued(a) PROVE AllocationInv'
  <2>1. issued' = {} /\ UNCHANGED << stock, opens, credited >> /\ Resetting(a)
    BY <1>2 DEF DelIssued, Resetting
  <2>2. opens <= 1 => credited = 0
    BY <1>int, <2>1 DEF LeaseInv, Opening
  <2>3. opens <= 1 => Allocation!Winners = {}
    BY <2>2 DEF AllocationInv, Balanced, Allocation!Winners
  <2> QED
    BY <1>0, <1>same, <2>1, <2>3
       DEF AllocationInv, Unregistered, Balanced, Registered, Entitled
<1>3. ASSUME NEW a \in Admins, SetStock(a) PROVE AllocationInv'
  <2>1. /\ stock' = TotalQty /\ credited' = credited + TotalQty /\ Resetting(a)
        /\ UNCHANGED << issued, opens >>
    BY <1>3, <1>int DEF SetStock, LeaseInv, NoQty, Resetting
  <2>2. opens <= 1 => credited = 0
    BY <1>int, <2>1 DEF LeaseInv, Opening
  <2>3. opens <= 1 => grants = << >> /\ Registering = {}
    BY <2>2 DEF LeaseInv, Counted, Granted, Entitled, Registering, AllocationInv, Balanced
  <2>4. Cardinality({}) = 0 /\ Len(<< >>) = 0
    BY FS_EmptySet
  <2>5. /\ opens' = opens /\ grants' = grants /\ Registering' = Registering
        /\ credited' = credited + TotalQty
    BY <1>0, <1>same, <2>1
  <2>6. opens' <= 1 => /\ credited' = TotalQty
                       /\ Len(grants') = 0 /\ Cardinality(Registering') = 0
    <3>1. opens' <= 1 => opens <= 1
      BY <2>5, Zenon
    <3>2. opens <= 1 => credited' = TotalQty
      BY <1>int, <2>2, <2>5
    <3>3. opens <= 1 => Len(grants) = 0
      BY <2>3, <2>4, Zenon
    <3>4. opens <= 1 => Cardinality(Registering) = 0
      BY <2>3, <2>4, Zenon
    <3> QED
      BY <2>5, <3>1, <3>2, <3>3, <3>4, Zenon
  <2>7. Balanced'
    <3>1. opens' <= 1 => Len(grants') + Cardinality(Registering') + stock' <= TotalQty
      BY <1>int, <2>1, <2>6
    <3>2. ~(opens' <= 1 /\ credited' = 0)
      BY <1>int, <2>6
    <3> QED
      BY <3>1, <3>2 DEF Balanced
  <2> QED
    BY <1>0, <1>same, <2>1, <2>7 DEF AllocationInv, Unregistered, Registered, Entitled
<1>4. ASSUME NEW a \in Admins, NEW s \in Statuses, ReadEvent(a, s)
      PROVE  UNCHANGED << issued, stock, credited >> /\ opens <= opens' /\ opens' \in Nat
  BY <1>4, <1>int DEF ReadEvent, redisVars
<1>5. ASSUME UNCHANGED << issued, stock, credited, opens >> PROVE AllocationInv'
  BY <1>1, <1>5, <1>int
<1> QED
  BY <1>1, <1>2, <1>3, <1>4, <1>5 DEF AdminStep, Invalidate, Commit, Rollback, Drop, redisVars

\* Every step keeps what the refinement needs.
LEMMA AllocationStep == LeaseInv /\ AllocationInv /\ [Next]_vars => AllocationInv'
<1> SUFFICES ASSUME LeaseInv, AllocationInv, [Next]_vars PROVE AllocationInv'
  OBVIOUS
<1>0. Typed
  BY DEF LeaseInv
\* A step of one request that only goes on to another pc.
<1>1. ASSUME NEW r \in Requests, NEW pc \in Pending \union Answers, Goto(r, pc),
             UNCHANGED << grants, issued, stock, opens, credited, overran >>,
             pc \in {"stock?", "decr", "sadd"} =>
                req[r].pc \in {"stock?", "decr"} \/ req[r].user \notin issued,
             pc # "sadd", req[r].pc # "sadd" \/ pc = "ERROR",
             Entitled([req[r] EXCEPT !.pc = pc]) => Entitled(req[r])
      PROVE  AllocationInv'
  <2>1. req' = [req EXCEPT ![r] = [req[r] EXCEPT !.pc = pc]]
        /\ [req[r] EXCEPT !.pc = pc].pc = pc
        /\ [req[r] EXCEPT !.pc = pc].user = req[r].user
    BY <1>0, <1>1, StatesOK
  <2>2. /\ req'[r] = [req[r] EXCEPT !.pc = pc]
        /\ \A q \in Requests \ {r} : req'[q] = req[q]
    BY <1>0, <2>1 DEF Typed
  <2>3. pc = "ERROR" => ~Entitled(req'[r])
    BY <2>1, <2>2 DEF Entitled
  <2> QED
    BY <1>1, <2>1, <2>2, <2>3, AllocationQuiet
<1>2. ASSUME NEW r \in Requests, NEW finding \in {"DUPLICATE", "SOLD_OUT"}, Finally(r, finding),
             req[r].pc \in {"issued?", "stock?"},
             UNCHANGED << grants, issued, stock, opens, credited, overran >>
      PROVE  AllocationInv'
  <2>1. /\ req'[r].pc = "held?" /\ req'[r].user = req[r].user /\ req'[r].finding = finding
        /\ \A q \in Requests \ {r} : req'[q] = req[q]
    BY <1>0, <1>2 DEF Finally, Typed, RequestState
  <2>2. ~Entitled(req'[r])
    BY <2>1 DEF Entitled
  <2> QED
    BY <1>2, <2>1, <2>2, AllocationQuiet
<1> USE DEF Pending, Answers, Critical
<1>3. ASSUME NEW r \in Requests, NEW i \in Instances, NEW w \in BOOLEAN, CheckMeta(r, i, w)
      PROVE  AllocationInv'
  <2>1. \E pc \in {"lock", "NOT_OPEN"} : Goto(r, pc)
    BY <1>3 DEF CheckMeta
  <2>2. UNCHANGED << grants, issued, stock, opens, credited, overran >> /\ req[r].pc = "meta"
    BY <1>3 DEF CheckMeta, redisVars
  <2> QED
    BY <1>0, <1>1, <2>1, <2>2, StatesOK DEF Entitled
<1>4. ASSUME NEW r \in Requests, TryLock(r) \/ LockTimeout(r) \/ AskHeld(r) \/ Unlock(r)
      PROVE  AllocationInv'
  <2>1. /\ UNCHANGED << grants, issued, stock, opens, credited, overran >>
        /\ \/ req[r].pc = "lock" /\ \E pc \in {"issued?", "LOCK_TIMEOUT"} : Goto(r, pc)
           \/ /\ req[r].pc \in {"held?", "unlock"}
              /\ \E pc \in {"unlock", "ERROR", req[r].finding} : Goto(r, pc)
    BY <1>4 DEF TryLock, LockTimeout, AskHeld, Unlock, redisVars, adminVars
  <2>2. CASE req[r].pc = "lock" /\ \E pc \in {"issued?", "LOCK_TIMEOUT"} : Goto(r, pc)
    BY <1>0, <1>1, <2>1, <2>2, StatesOK DEF Entitled
  <2>3. ASSUME req[r].pc \in {"held?", "unlock"},
               NEW pc \in {"unlock", "ERROR", req[r].finding}, Goto(r, pc)
        PROVE  AllocationInv'
    <3>1. req[r].finding \in {"save", "DUPLICATE", "SOLD_OUT"}
      BY <1>0 DEF Typed, RequestState
    <3>2. pc \in Pending \union Answers /\ pc \notin {"stock?", "decr", "sadd"}
      BY <2>3, <3>1
    <3>3. Entitled([req[r] EXCEPT !.pc = pc]) => Entitled(req[r])
      BY <1>0, <2>3, <3>1, StatesOK DEF Entitled
    <3> QED
      BY <1>1, <2>1, <2>3, <3>2, <3>3
  <2> QED
    BY <2>1, <2>2, <2>3
<1>5. ASSUME NEW r \in Requests, IsIssued(r) \/ CurrentStock(r) PROVE AllocationInv'
  <2>1. /\ UNCHANGED << grants, issued, stock, opens, credited, overran >>
        /\ \/ /\ req[r].pc \in {"issued?", "stock?"}
              /\ Finally(r, "DUPLICATE") \/ Finally(r, "SOLD_OUT")
           \/ req[r].pc = "issued?" /\ req[r].user \notin issued /\ Goto(r, "stock?")
           \/ req[r].pc = "stock?" /\ Goto(r, "decr")
    BY <1>5 DEF IsIssued, CurrentStock, HasCoupon, redisVars, adminVars
  <2> QED
    BY <1>0, <1>1, <1>2, <2>1, StatesOK DEF Entitled
<1>6. ASSUME NEW r \in Requests, SaveRow(r) \/ Fail(r) PROVE AllocationInv'
  <2>1. /\ UNCHANGED << grants, issued, stock, opens, credited, overran >>
        /\ \/ req[r].pc = "save" /\ \E pc \in {"DUPLICATE", "CREATED"} : Goto(r, pc)
           \/ Goto(r, "ERROR")
    BY <1>6 DEF SaveRow, Fail, redisVars, adminVars
  <2> QED
    BY <1>0, <1>1, <2>1, StatesOK DEF Entitled
<1>7. CASE Expire
  <2>1. /\ UNCHANGED << req, grants, issued, stock, opens, credited >>
        /\ overran \subseteq overran'
    BY <1>7 DEF Expire, redisVars, adminVars
  <2> QED
    BY <2>1, AllocationQuiet
<1>8. CASE UNCHANGED vars
  BY <1>8, AllocationQuiet DEF vars, redisVars, adminVars, issueVars
<1> QED
  BY <1>3, <1>4, <1>5, <1>6, <1>7, <1>8, AllocationDecr, AllocationSadd, AllocationAdmin
     DEF Next, RequestStep, InLock

\* In an event opened once, while no lease has run out on its holder, every
\* step is one of the first-come allocation: SADD grants, the INSERT records.
THEOREM Refinement == Spec => ImplementsAllocation
<1>1. Init => Allocation!Init
  BY DEF Init, Allocation!Init
<1>2. Init => AllocationInv
  <2> SUFFICES ASSUME Init PROVE AllocationInv
    OBVIOUS
  <2>1. /\ grants = << >> /\ issued = {} /\ stock = NoStock /\ credited = 0
        /\ \A r \in Requests : req[r].pc = "meta"
    BY DEF Init, EventInit
  <2>2. Registering = {} /\ Allocation!Winners = {} /\ \A r \in Requests : ~Entitled(req[r])
    BY <2>1 DEF Registering, Allocation!Winners, Entitled
  <2> QED
    BY <2>1, <2>2, EventAssumption DEF AllocationInv, Unregistered, Balanced, Registered
<1>3. LeaseInv /\ AllocationInv /\ [Next]_vars
         => [opens' <= 1 /\ overran' = {} => Allocation!Next]_(Allocation!vars)
  <2> SUFFICES ASSUME LeaseInv, AllocationInv, [Next]_vars, opens' <= 1, overran' = {}
               PROVE  [Allocation!Next]_(Allocation!vars)
    OBVIOUS
  <2>1. ASSUME NEW r \in Requests, Sadd(r) PROVE Allocation!Next
    <3> DEFINE u == req[r].user
    <3>1. /\ req[r].pc = "sadd" /\ grants' = Append(grants, u)
          /\ UNCHANGED << rows, opens, overran >> /\ u \in Users
      BY <2>1 DEF Sadd, adminVars, LeaseInv, Typed, RequestState
    <3>2. u \notin Allocation!Winners
      BY <3>1 DEF AllocationInv, Unregistered, Registered
    <3>3. Len(grants) < TotalQty
      <4>1. r \in Registering /\ r \in Granted
        BY <3>1 DEF Registering, Granted, Entitled
      <4>2. opens \in Nat /\ stock \in Int /\ TotalQty \in Nat /\ Len(grants) \in Nat
        BY EventAssumption DEF LeaseInv, Typed, AllocationInv, Registered
      <4>3. credited = TotalQty
        <5>1. credited # 0
          BY <3>1, <4>1 DEF LeaseInv, Counted
        <5> QED
          BY <3>1, <4>2, <5>1 DEF LeaseInv, Opening
      <4>4. Cardinality(Registering) >= 1 /\ Cardinality(Registering) \in Nat
        <5>1. IsFiniteSet(Registering) /\ Cardinality(Registering) \in Nat
          BY RegisteringFinite
        <5>2. Cardinality(Registering) # 0
          BY <4>1, <5>1, FS_EmptySet
        <5> QED
          BY <5>1, <5>2
      <4>5. stock >= 0
        <5>1. Cardinality(Deciding) \in Nat /\ Cardinality(overran) = 0
          BY <3>1, DecidingBounded, FS_EmptySet DEF LeaseInv
        <5> QED
          BY <3>1, <4>2, <4>3, <5>1 DEF LeaseInv, Counted
      <4> QED
        BY <3>1, <4>2, <4>3, <4>4, <4>5 DEF AllocationInv, Balanced
    <3>4. Allocation!Grant(u)
      BY <3>1, <3>2, <3>3 DEF Allocation!Grant
    <3> QED
      BY <3>1, <3>4 DEF Allocation!Next
  <2>2. ASSUME NEW r \in Requests, SaveRow(r) PROVE Allocation!Next
    <3> DEFINE u == req[r].user
    <3>1. /\ req[r].pc = "save" /\ rows' = rows \union {u} /\ UNCHANGED grants /\ u \in Users
      BY <2>2 DEF SaveRow, LeaseInv, Typed, RequestState
    <3>2. u \in Allocation!Winners
      BY <3>1 DEF AllocationInv, Registered, Entitled
    <3>3. Allocation!Record(u)
      BY <3>1, <3>2 DEF Allocation!Record
    <3> QED
      BY <3>1, <3>3 DEF Allocation!Next
  <2>3. ASSUME UNCHANGED << rows, grants >> PROVE UNCHANGED Allocation!vars
    BY <2>3 DEF Allocation!vars
  <2> QED
    BY <2>1, <2>2, <2>3 DEF Next, RequestStep, CheckMeta, TryLock, LockTimeout, InLock, IsIssued,
       CurrentStock, Decr, AskHeld, Unlock, Fail, Expire, issueVars, vars
<1> QED
  BY <1>1, <1>2, <1>3, AllocationStep, LeaseInvariance, PTL DEF Spec, ImplementsAllocation

-----------------------------------------------------------------------------
(* How far the counter may go.                                              *)

\* What the argument does not need of TypeOK.
Around ==
    /\ stock <= TotalQty /\ issued \subseteq Users /\ grants \in Seq(Users)
    /\ cache \in [Instances -> Statuses \union {NotCached}]
    /\ changes \in Nat /\ everOpen \in BOOLEAN

\* Each DECR to come takes the counter below zero only if a lease was overrun.
Floor == stock - Cardinality(Deciding) >= NoStock - Cardinality(overran)

\* What the lock says of the numbers, in every state.
Numbers ==
    /\ stock \in Int /\ IsFiniteSet(Deciding) /\ IsFiniteSet(overran)
    /\ Cardinality(Deciding) \in Nat /\ Cardinality(overran) \in Nat
    /\ Cardinality(Deciding) <= Cardinality(overran) + 1

LEMMA NumbersOK == LeaseInv => Numbers
BY DecidingBounded DEF LeaseInv, Typed, Numbers

LEMMA NumbersOKNext == (LeaseInv => Numbers)'
BY NumbersOK, PTL

\* The counter comes below one by DECR only, and below one nobody is sent there.
LEMMA DownByDecr ==
  ASSUME LeaseInv, Next, stock' < 1
  PROVE  \/ \E r \in Requests : Decr(r)
         \/ /\ stock' = stock /\ Deciding' \subseteq Deciding
            /\ overran \subseteq overran'
<1>0. Typed /\ stock \in Int
  BY DEF LeaseInv, Typed
<1>1. ASSUME UNCHANGED << stock, overran >>,
             \A r \in Requests : req'[r].pc = "decr" => req[r].pc = "decr"
      PROVE  stock' = stock /\ Deciding' \subseteq Deciding /\ overran \subseteq overran'
  BY <1>1 DEF Deciding
<1>2. ASSUME NEW r \in Requests, NEW pc \in Pending \union Answers, Goto(r, pc), pc # "decr"
      PROVE  \A q \in Requests : req'[q].pc = "decr" => req[q].pc = "decr"
  <2>1. req'[r] = [req[r] EXCEPT !.pc = pc] /\ \A q \in Requests \ {r} : req'[q] = req[q]
    BY <1>0, <1>2 DEF Goto, Typed
  <2>2. req'[r].pc = pc
    BY <1>0, <2>1, StatesOK
  <2> QED
    BY <1>2, <2>1, <2>2
<1>3. ASSUME NEW r \in Requests, NEW finding \in {"save", "DUPLICATE", "SOLD_OUT"},
             Finally(r, finding)
      PROVE  \A q \in Requests : req'[q].pc = "decr" => req[q].pc = "decr"
  BY <1>0, <1>3 DEF Finally, Typed, RequestState
<1> USE DEF Pending, Answers, Critical
<1>4. ASSUME NEW r \in Requests, NEW i \in Instances, NEW w \in BOOLEAN, CheckMeta(r, i, w)
      PROVE  /\ UNCHANGED << stock, overran >>
             /\ \A q \in Requests : req'[q].pc = "decr" => req[q].pc = "decr"
  BY <1>2, <1>4 DEF CheckMeta, redisVars
<1>5. ASSUME NEW r \in Requests, TryLock(r) \/ LockTimeout(r) \/ SaveRow(r) \/ Fail(r)
      PROVE  /\ UNCHANGED << stock, overran >>
             /\ \A q \in Requests : req'[q].pc = "decr" => req[q].pc = "decr"
  BY <1>2, <1>5 DEF TryLock, LockTimeout, SaveRow, Fail, redisVars
<1>6. ASSUME NEW r \in Requests, AskHeld(r) \/ Unlock(r)
      PROVE  /\ UNCHANGED << stock, overran >>
             /\ \A q \in Requests : req'[q].pc = "decr" => req[q].pc = "decr"
  <2>1. req[r].finding \in {"save", "DUPLICATE", "SOLD_OUT"}
    BY <1>0, StatesOK
  <2> QED
    BY <1>2, <1>6, <2>1 DEF AskHeld, Unlock, redisVars
<1>7. ASSUME NEW r \in Requests, IsIssued(r) \/ CurrentStock(r)
      PROVE  /\ UNCHANGED << stock, overran >>
             /\ \A q \in Requests : req'[q].pc = "decr" => req[q].pc = "decr"
  <2>1. CurrentStock(r) => Finally(r, "SOLD_OUT") \/ stock >= 1
    BY <1>0 DEF CurrentStock, OutOfStock
  <2>2. UNCHANGED << stock, overran >>
    BY <1>7 DEF IsIssued, CurrentStock, redisVars
  <2>3. \/ Finally(r, "SOLD_OUT") \/ Finally(r, "DUPLICATE") \/ Goto(r, "stock?")
    BY <1>0, <1>7, <2>1, <2>2 DEF IsIssued
  <2> QED
    BY <1>2, <1>3, <2>2, <2>3
<1>8. ASSUME NEW r \in Requests, Sadd(r)
      PROVE  /\ UNCHANGED << stock, overran >>
             /\ \A q \in Requests : req'[q].pc = "decr" => req[q].pc = "decr"
  BY <1>3, <1>8 DEF Sadd
<1>9. CASE Expire
  BY <1>9 DEF Expire, redisVars, Deciding
<1>10. CASE AdminStep /\ UNCHANGED issueVars
  <2>1. UNCHANGED << req, overran >>
    BY <1>10 DEF issueVars
  <2>2. stock' = stock
    <3>1. ASSUME NEW a \in Admins, SetStock(a) PROVE FALSE
      <4>1. stock' = TotalQty
        BY <3>1, EventAssumption DEF SetStock, LeaseInv, NoQty
      <4> QED
        BY <4>1, EventAssumption
    <3> QED
      BY <1>10, <3>1 DEF AdminStep, ReadEvent, DelIssued, Invalidate, Commit, Rollback, Drop,
                         redisVars
  <2> QED
    BY <2>1, <2>2 DEF Deciding
<1> QED
  BY <1>1, <1>4, <1>5, <1>6, <1>7, <1>8, <1>9, <1>10 DEF Next, RequestStep, InLock

LEMMA FloorStep == LeaseInv /\ Floor /\ [Next]_vars => Floor'
<1> SUFFICES ASSUME LeaseInv, Floor, [Next]_vars PROVE Floor'
  OBVIOUS
<1>0. LeaseInv'
  BY LeaseInductive
<1>num. /\ stock \in Int /\ stock' \in Int
        /\ IsFiniteSet(Deciding) /\ IsFiniteSet(overran')
        /\ Cardinality(Deciding) \in Nat /\ Cardinality(overran) \in Nat
        /\ Cardinality(Deciding') \in Nat /\ Cardinality(overran') \in Nat
        /\ Cardinality(Deciding') <= Cardinality(overran') + 1
  BY <1>0, NumbersOK, NumbersOKNext DEF Numbers
<1>1. CASE stock' >= 1
  BY <1>1, <1>num DEF Floor, NoStock
<1>2. ASSUME NEW r \in Requests, Decr(r) PROVE Floor'
  <2>1. /\ req[r].pc = "decr" /\ req'[r].pc = "sadd" /\ stock' = stock - 1
        /\ overran' = overran /\ \A q \in Requests \ {r} : req'[q] = req[q]
    BY <1>2 DEF Decr, Goto, LeaseInv, Typed, RequestState
  <2>2. Deciding' = Deciding \ {r} /\ r \in Deciding
    BY <2>1 DEF Deciding
  <2>3. Cardinality(Deciding') = Cardinality(Deciding) - 1
    BY <1>num, <2>2, FS_RemoveElement
  <2> QED
    BY <1>num, <2>1, <2>3 DEF Floor, NoStock
<1>3. ASSUME stock' = stock, Deciding' \subseteq Deciding, overran \subseteq overran'
      PROVE  Floor'
  <2>1. /\ Cardinality(Deciding') <= Cardinality(Deciding)
        /\ Cardinality(overran) <= Cardinality(overran')
    BY <1>num, <1>3, FS_Subset
  <2> QED
    BY <1>num, <1>3, <2>1 DEF Floor, NoStock
<1>4. CASE UNCHANGED vars
  BY <1>3, <1>4 DEF vars, redisVars, issueVars, Deciding
<1> QED
  BY <1>num, <1>1, <1>2, <1>3, <1>4, DownByDecr

LEMMA AroundStep == LeaseInv /\ Around /\ [Next]_vars => Around'
<1> SUFFICES ASSUME LeaseInv, Around, [Next]_vars PROVE Around'
  OBVIOUS
<1> USE DEF Around
<1>0. stock \in Int /\ TotalQty \in Nat
  BY EventAssumption DEF LeaseInv, Typed
<1>1. ASSUME UNCHANGED << stock, issued, grants, cache, changes, everOpen >>
      PROVE  Around'
  BY <1>1
<1>2. ASSUME NEW r \in Requests, NEW i \in Instances, NEW w \in BOOLEAN, CheckMeta(r, i, w)
      PROVE  Around'
  <2>1. cache' \in [Instances -> Statuses \union {NotCached}]
    BY <1>2 DEF CheckMeta, Load, MetaOf, LeaseInv, Typed, EventRow
  <2> QED
    BY <1>2, <2>1 DEF CheckMeta, redisVars
<1>3. ASSUME NEW r \in Requests, Decr(r) PROVE Around'
  BY <1>0, <1>3 DEF Decr, adminVars
<1>4. ASSUME NEW r \in Requests, Sadd(r) PROVE Around'
  <2>1. req[r].user \in Users
    BY DEF LeaseInv, Typed, RequestState
  <2> QED
    BY <1>4, <2>1 DEF Sadd, adminVars
<1>5. ASSUME NEW r \in Requests,
             \/ TryLock(r) \/ LockTimeout(r) \/ IsIssued(r) \/ CurrentStock(r)
             \/ AskHeld(r) \/ Unlock(r) \/ SaveRow(r) \/ Fail(r)
      PROVE  Around'
  BY <1>1, <1>5 DEF TryLock, LockTimeout, IsIssued, CurrentStock, AskHeld, Unlock, SaveRow, Fail,
                    redisVars, adminVars
<1>6. CASE Expire
  BY <1>1, <1>6 DEF Expire, redisVars, adminVars
<1>7. ASSUME NEW a \in Admins, SetStock(a), UNCHANGED grants PROVE Around'
  <2>1. stock' = TotalQty
    BY <1>7, <1>0 DEF SetStock, LeaseInv, NoQty
  <2> QED
    BY <1>0, <1>7, <2>1 DEF SetStock
<1>8. ASSUME NEW a \in Admins, NEW s \in Statuses, ReadEvent(a, s), UNCHANGED grants PROVE Around'
  BY <1>8 DEF ReadEvent, redisVars
<1>9. ASSUME NEW a \in Admins, DelIssued(a), UNCHANGED grants PROVE Around'
  BY <1>9 DEF DelIssued
<1>10. ASSUME NEW a \in Admins, Commit(a) \/ Rollback(a), UNCHANGED grants PROVE Around'
  BY <1>10 DEF Commit, Rollback, redisVars
<1>11. ASSUME NEW i \in Instances, Drop(i) \/ \E a \in Admins : Invalidate(a, i), UNCHANGED grants
       PROVE  Around'
  BY <1>11 DEF Drop, Invalidate, redisVars
<1>12. CASE UNCHANGED vars
  BY <1>1, <1>12 DEF vars, redisVars, adminVars, issueVars
<1> QED
  BY <1>2, <1>3, <1>4, <1>5, <1>6, <1>7, <1>8, <1>9, <1>10, <1>11, <1>12
     DEF Next, RequestStep, InLock, AdminStep, issueVars

\* Type correctness: however often the event is opened, DECR takes the counter
\* no lower than one below NoStock for each lease that ran out on its holder.
THEOREM TypeCorrect == Spec => []TypeOK
<1>1. Init => Around /\ Floor
  <2> SUFFICES ASSUME Init PROVE Around /\ Floor
    OBVIOUS
  <2>1. /\ stock = -1 /\ issued = {} /\ grants = << >> /\ changes = 0
        /\ everOpen = FALSE /\ overran = {} /\ \A r \in Requests : req[r].pc = "meta"
        /\ cache \in [Instances -> Statuses \union {NotCached}]
    BY DEF Init, EventInit, NoStock
  <2>2. Cardinality(Deciding) = 0 /\ Cardinality(overran) = 0
    BY <2>1, FS_EmptySet DEF Deciding
  <2>3. stock <= TotalQty /\ grants \in Seq(Users)
    BY <2>1, EventAssumption
  <2>4. Floor
    BY <2>1, <2>2 DEF Floor, NoStock
  <2> QED
    BY <2>1, <2>3, <2>4 DEF Around
<1>2. LeaseInv /\ Around /\ Floor => TypeOK
  <2> SUFFICES ASSUME LeaseInv, Around, Floor PROVE TypeOK
    OBVIOUS
  <2>1. /\ stock \in Int /\ TotalQty \in Nat
        /\ Cardinality(Deciding) \in Nat /\ Cardinality(overran) \in Nat
    BY NumbersOK, EventAssumption DEF Numbers
  <2>2. stock \in (NoStock - Cardinality(overran))..TotalQty
    BY <2>1 DEF Floor, Around, NoStock
  <2> QED
    BY <2>2 DEF LeaseInv, Typed, Around, TypeOK, AdminTypeOK
<1> QED
  BY <1>1, <1>2, AroundStep, FloorStep, LeaseInvariance, PTL DEF Spec

=============================================================================
