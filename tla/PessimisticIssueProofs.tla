------------------------ MODULE PessimisticIssueProofs ------------------------
(***************************************************************************)
(* PessimisticIssue proved for any number of coupons, users, requests,     *)
(* instances and concurrent status changes.                                *)
(*                                                                          *)
(* The argument: at most one transaction holds the row of the event, and   *)
(* what it read under the lock is still the committed row when it writes   *)
(* it back (Locked); so a commit adds one row and one to the counter.      *)
(* Whatever row a status change has read, its counter is not beyond the    *)
(* rows of coupon_issue (Behind): so what it overwrites is never negative, *)
(* and the counter says SOLD_OUT only if the rows do.                      *)
(***************************************************************************)
EXTENDS PessimisticIssue, FiniteSetTheorems, TLAPS

\* The part of TypeOK the argument needs.
Typed ==
    /\ event \in EventRow
    /\ admin \in [Admins -> AdminState]
    /\ req \in [Requests -> RequestState]
    /\ rows \subseteq Users /\ IsFiniteSet(rows)
    /\ overwritten \in Nat

\* What a transaction that holds the row knows of it.
HolderKnows(r) ==
    /\ req[r].pc \in Holding =>
          req[r].row = event /\ event.status = "OPEN" /\ event.issuedQty < TotalQty
    /\ req[r].pc = "commit" => req[r].user \notin rows

Locked ==
    /\ \A r, q \in Requests : {req[r].pc, req[q].pc} \subseteq Holding => r = q
    /\ \A r \in Requests : HolderKnows(r)

Behind == \A a \in Admins : admin[a].row.issuedQty <= Cardinality(rows)

LockInv == Typed /\ Locked /\ Behind /\ CounterMatchesRows /\ SoldOutIsTrue

-----------------------------------------------------------------------------
\* A request goes on to another step, and nothing else happens.
LEMMA RequestMoves ==
  ASSUME Typed, NEW r \in Requests, NEW pc \in Pending \union Answers, Goto(r, pc)
  PROVE  /\ req' \in [Requests -> RequestState]
         /\ req'[r] = [req[r] EXCEPT !.pc = pc] /\ req'[r].pc = pc
         /\ req'[r].user = req[r].user /\ req'[r].row = req[r].row
         /\ \A q \in Requests \ {r} : req'[q] = req[q]
<1>1. req \in [Requests -> RequestState] /\ req' = [req EXCEPT ![r].pc = pc]
  BY DEF Typed, Goto
<1>2. req[r] \in RequestState /\ [req[r] EXCEPT !.pc = pc] \in RequestState
  BY <1>1 DEF RequestState
<1> QED
  BY <1>1, <1>2 DEF RequestState

\* A request that has the lock goes on, or one without it fails.
LEMMA PrivateStep ==
  ASSUME LockInv, NEW r \in Requests, NEW pc \in Pending \union Answers, Goto(r, pc),
         UNCHANGED << event, admin, rows, overwritten >>,
         pc \in Holding => /\ req[r].pc \in Holding
                           /\ pc = "commit" => req[r].user \notin rows,
         pc # "SOLD_OUT"
  PROVE  LockInv'
<1>1. /\ req' \in [Requests -> RequestState]
      /\ req'[r].pc = pc /\ req'[r].user = req[r].user /\ req'[r].row = req[r].row
      /\ \A q \in Requests \ {r} : req'[q] = req[q]
  BY RequestMoves DEF LockInv
<1>2. Typed'
  BY <1>1 DEF LockInv, Typed
<1>3. Locked'
  <2>1. \A q \in Requests : req'[q].pc \in Holding => req[q].pc \in Holding
    BY <1>1
  <2>2. ASSUME NEW q \in Requests PROVE HolderKnows(q)'
    <3>1. CASE q = r
      BY <1>1, <3>1 DEF LockInv, Locked, HolderKnows, Holding
    <3>2. CASE q # r
      BY <1>1, <3>2 DEF LockInv, Locked, HolderKnows
    <3> QED
      BY <3>1, <3>2
  <2>3. ASSUME NEW p \in Requests, NEW q \in Requests,
               {req[p].pc, req[q].pc}' \subseteq Holding'
        PROVE  p = q
    BY <2>1, <2>3 DEF LockInv, Locked, Holding
  <2> QED
    BY <2>2, <2>3 DEF Locked
<1>4. Behind' /\ CounterMatchesRows'
  BY DEF LockInv, Behind, CounterMatchesRows
<1>5. SoldOutIsTrue'
  BY <1>1 DEF LockInv, SoldOutIsTrue
<1> QED
  BY <1>2, <1>3, <1>4, <1>5 DEF LockInv

\* SELECT ... FOR UPDATE: nobody else has the row.
LEMMA LockRowKeeps ==
  ASSUME LockInv, NEW r \in Requests, NEW inWindow \in BOOLEAN, LockRow(r, inWindow)
  PROVE  LockInv'
<1> DEFINE pc == IF ~IsOpen(event, inWindow) THEN "NOT_OPEN"
                 ELSE IF IsSoldOut(event) THEN "SOLD_OUT" ELSE "insert"
<1>1. /\ req' = [req EXCEPT ![r].row = event, ![r].pc = pc]
      /\ UNCHANGED << event, admin, rows, overwritten >>
      /\ \A q \in Requests : req[q].pc \notin Holding
  BY DEF LockRow, RowFree, redisVars, adminVars
<1>2. pc \in Pending \union Answers
  BY DEF Pending, Answers
<1>3. /\ req' \in [Requests -> RequestState]
      /\ req'[r].pc = pc /\ req'[r].row = event
      /\ \A q \in Requests \ {r} : req'[q] = req[q]
  <2> HIDE DEF pc
  <2>1. event \in EventRow /\ req[r] \in RequestState
    BY DEF LockInv, Typed
  <2> QED
    BY <1>1, <1>2, <2>1 DEF LockInv, Typed, RequestState
<1>4. Typed'
  BY <1>1, <1>3 DEF LockInv, Typed
<1>5. event \in EventRow /\ event.issuedQty \in Nat /\ TotalQty \in Nat
  BY EventAssumption DEF LockInv, Typed, EventRow
<1>6. Locked'
  <2>1. \A q \in Requests \ {r} : req'[q].pc \notin Holding
    BY <1>1, <1>3
  <2>2. pc \in Holding => /\ pc = "insert" /\ event.status = "OPEN"
                          /\ event.issuedQty < TotalQty
    BY <1>5 DEF Holding, IsOpen, IsSoldOut
  <2>3. ASSUME NEW q \in Requests PROVE HolderKnows(q)'
    <3> HIDE DEF pc
    <3>1. CASE q = r
      BY <1>1, <1>3, <2>2, <3>1 DEF HolderKnows, Holding
    <3>2. CASE q # r
      BY <1>1, <2>1, <3>2 DEF HolderKnows, Holding
    <3> QED
      BY <3>1, <3>2
  <2> QED
    BY <2>1, <2>3 DEF Locked, Holding
<1>7. Behind' /\ CounterMatchesRows'
  BY <1>1 DEF LockInv, Behind, CounterMatchesRows
<1>8. SoldOutIsTrue'
  <2>1. pc = "SOLD_OUT" => event.issuedQty >= TotalQty
    BY DEF IsSoldOut
  <2>2. Cardinality(rows) >= event.issuedQty /\ Cardinality(rows) \in Nat
    BY <1>5, FS_CardinalityType DEF LockInv, Typed, CounterMatchesRows
  <2>3. pc = "SOLD_OUT" => Cardinality(rows) >= TotalQty
    BY <1>5, <2>1, <2>2
  <2> HIDE DEF pc
  <2> QED
    BY <1>1, <1>3, <2>3 DEF LockInv, SoldOutIsTrue
<1> QED
  BY <1>4, <1>6, <1>7, <1>8 DEF LockInv

\* The commit of an issue: one row and one more in the counter.
LEMMA CommittedFacts ==
  ASSUME LockInv, NEW r \in Requests, Committed(r)
  PROVE  /\ req[r].row = event /\ event.status = "OPEN" /\ event.issuedQty < TotalQty
         /\ req[r].user \in Users /\ req[r].user \notin rows
         /\ event' = [event EXCEPT !.issuedQty = event.issuedQty + 1]
         /\ event' \in EventRow /\ event'.status = "OPEN"
         /\ event'.issuedQty = event.issuedQty + 1
         /\ rows' = rows \union {req[r].user} /\ rows' \subseteq Users /\ IsFiniteSet(rows')
         /\ Cardinality(rows') = Cardinality(rows) + 1 /\ Cardinality(rows) \in Nat
         /\ UNCHANGED << admin, overwritten >>
<1>1. /\ req[r].pc = "commit" /\ req[r].pc \in Holding
      /\ event' = Written(req[r].row)
      /\ rows' = rows \union {req[r].user}
      /\ UNCHANGED << admin, overwritten >>
  BY DEF Committed, Holding
<1>2. /\ req[r].row = event /\ event.status = "OPEN" /\ event.issuedQty < TotalQty
      /\ req[r].user \notin rows
  BY <1>1 DEF LockInv, Locked, HolderKnows
<1>3. /\ event \in [status : Statuses, issuedQty : 0..TotalQty]
      /\ req[r].user \in Users /\ rows \subseteq Users /\ IsFiniteSet(rows)
  BY DEF LockInv, Typed, EventRow, RequestState
<1>4. /\ event' = [event EXCEPT !.issuedQty = event.issuedQty + 1]
      /\ event.issuedQty + 1 \in 0..TotalQty
  BY <1>1, <1>2, <1>3, EventAssumption DEF Written
<1>5. event' \in EventRow /\ event'.status = "OPEN" /\ event'.issuedQty = event.issuedQty + 1
  BY <1>2, <1>3, <1>4 DEF EventRow
<1>6. /\ IsFiniteSet(rows') /\ Cardinality(rows') = Cardinality(rows) + 1
      /\ Cardinality(rows) \in Nat
  BY <1>1, <1>2, <1>3, FS_AddElement, FS_CardinalityType
<1> QED
  BY <1>1, <1>2, <1>3, <1>4, <1>5, <1>6

\* ... after which the request is answered, or its client is not.
LEMMA CommitKeeps ==
  ASSUME LockInv, NEW r \in Requests, NEW pc \in {"CREATED", "ERROR"},
         Committed(r), Goto(r, pc)
  PROVE  LockInv'
<1>1. /\ event' \in EventRow /\ event'.issuedQty = event.issuedQty + 1
      /\ rows' = rows \union {req[r].user} /\ rows' \subseteq Users /\ IsFiniteSet(rows')
      /\ Cardinality(rows') = Cardinality(rows) + 1 /\ Cardinality(rows) \in Nat
      /\ UNCHANGED << admin, overwritten >>
  BY CommittedFacts
<1>2. /\ req' \in [Requests -> RequestState] /\ req'[r].pc = pc
      /\ \A q \in Requests \ {r} : req'[q] = req[q]
  BY RequestMoves DEF LockInv, Answers
<1>3. Typed'
  BY <1>1, <1>2 DEF LockInv, Typed
<1>4. req[r].pc \in Holding
  BY DEF Committed, Holding
<1>5. \A q \in Requests : req'[q].pc \notin Holding
  BY <1>2, <1>4 DEF LockInv, Locked, Holding
<1>6. Locked'
  BY <1>5 DEF Locked, HolderKnows, Holding
<1>7. Behind'
  <2>1. \A a \in Admins : admin[a].row.issuedQty \in Int
    BY DEF LockInv, Typed, AdminState, EventRow
  <2> QED
    BY <1>1, <2>1 DEF LockInv, Behind
<1>8. CounterMatchesRows'
  <2>1. event.issuedQty \in Nat /\ overwritten \in Nat
    BY EventAssumption DEF LockInv, Typed, EventRow
  <2> QED
    BY <1>1, <2>1 DEF LockInv, CounterMatchesRows
<1>9. SoldOutIsTrue'
  <2>1. \A q \in Requests : req'[q].pc = "SOLD_OUT" => req[q].pc = "SOLD_OUT"
    BY <1>2
  <2> QED
    BY <1>1, <2>1, EventAssumption DEF LockInv, SoldOutIsTrue
<1> QED
  BY <1>3, <1>6, <1>7, <1>8, <1>9 DEF LockInv

-----------------------------------------------------------------------------
\* A step of a status change that does not write to MySQL: it has read the row
\* now, or had read it before.
LEMMA AdminKeeps ==
  ASSUME LockInv, UNCHANGED << event, issueVars, overwritten >>,
         admin' \in [Admins -> AdminState],
         \A a \in Admins : admin'[a].row \in {admin[a].row, event, NewRow}
  PROVE  LockInv'
<1>1. UNCHANGED << req, rows >>
  BY DEF issueVars
<1>2. Typed' /\ Locked' /\ CounterMatchesRows' /\ SoldOutIsTrue'
  BY <1>1 DEF LockInv, Typed, Locked, HolderKnows, CounterMatchesRows, SoldOutIsTrue, Holding
<1>3. Behind'
  <2>1. event.issuedQty <= Cardinality(rows) /\ 0 <= Cardinality(rows)
    <3>1. event.issuedQty \in Nat /\ overwritten \in Nat
      BY EventAssumption DEF LockInv, Typed, EventRow
    <3> QED
      BY <3>1 DEF LockInv, CounterMatchesRows
  <2> QED
    BY <1>1, <2>1 DEF LockInv, Behind, NewRow
<1> QED
  BY <1>2, <1>3 DEF LockInv

\* The UPDATE of a status change: the row is free, or stays as it is.
LEMMA CommitStatusKeeps ==
  ASSUME LockInv, NEW a \in Admins, CommitStatus(a)
  PROVE  LockInv'
<1> DEFINE row == admin[a].row
<1>1. /\ admin[a].target # row.status => RowFree
      /\ event' = IF admin[a].target = row.status THEN event
                  ELSE [status |-> admin[a].target, issuedQty |-> row.issuedQty]
      /\ admin' = [admin EXCEPT ![a] = Idle]
      /\ overwritten' = overwritten + (event.issuedQty - event'.issuedQty)
      /\ UNCHANGED << req, rows >>
  BY DEF CommitStatus, Commit, issueVars
<1>2. /\ row \in EventRow /\ admin[a].target \in Statuses
      /\ event \in EventRow /\ overwritten \in Nat /\ IsFiniteSet(rows)
      /\ Cardinality(rows) \in Nat
  BY FS_CardinalityType DEF LockInv, Typed, AdminState
<1>3. /\ event.issuedQty \in Nat /\ row.issuedQty \in Nat
      /\ row.issuedQty <= Cardinality(rows)
      /\ Cardinality(rows) = event.issuedQty + overwritten
  BY <1>2, EventAssumption DEF LockInv, EventRow, Behind, CounterMatchesRows
<1>4. /\ event' \in EventRow /\ event'.issuedQty \in Nat
      /\ event'.issuedQty <= Cardinality(rows)
  <2>1. CASE admin[a].target = row.status
    BY <1>1, <1>2, <1>3, <2>1
  <2>2. CASE admin[a].target # row.status
    BY <1>1, <1>2, <1>3, <2>2 DEF EventRow
  <2> QED
    BY <2>1, <2>2
<1>5. overwritten' \in Nat /\ CounterMatchesRows'
  BY <1>1, <1>2, <1>3, <1>4 DEF CounterMatchesRows
<1>6. Idle \in AdminState
  BY EventAssumption DEF Idle, AdminState, AdminPcs, Statuses, NewRow, EventRow
<1>7. Typed'
  BY <1>1, <1>4, <1>5, <1>6 DEF LockInv, Typed
<1>8. Locked'
  <2>1. CASE event' = event
    BY <1>1, <2>1 DEF LockInv, Locked, HolderKnows, Holding
  <2>2. CASE event' # event
    <3>1. \A r \in Requests : req'[r].pc \notin Holding
      BY <1>1, <2>2 DEF RowFree
    <3> QED
      BY <3>1 DEF Locked, HolderKnows, Holding
  <2> QED
    BY <2>1, <2>2
<1>9. Behind' /\ SoldOutIsTrue'
  BY <1>1, <1>2 DEF LockInv, Typed, Behind, SoldOutIsTrue, Idle, NewRow
<1> QED
  BY <1>5, <1>7, <1>8, <1>9 DEF LockInv

\* The other steps of a status change.
LEMMA StatusKeeps == LockInv /\ StatusStep => LockInv'
<1> SUFFICES ASSUME LockInv, NEW a \in Admins,
                    \/ /\ \/ \E s \in Statuses : ReadEvent(a, s)
                          \/ DelIssued(a) \/ SetStock(a)
                          \/ \E i \in Instances : Invalidate(a, i)
                          \/ Rollback(a)
                       /\ UNCHANGED << issueVars, overwritten >>
                    \/ CommitStatus(a)
             PROVE  LockInv'
  BY DEF StatusStep
<1>1. admin \in [Admins -> AdminState] /\ admin[a] \in AdminState /\ event \in EventRow
  BY DEF LockInv, Typed
<1>2. Idle \in AdminState /\ Idle.row = NewRow
  BY EventAssumption DEF Idle, AdminState, AdminPcs, Statuses, NewRow, EventRow
<1>3. ASSUME NEW s \in Statuses, ReadEvent(a, s), UNCHANGED << issueVars, overwritten >>
      PROVE  LockInv'
  <2> DEFINE new == [pc |-> IF s = "OPEN" THEN "del" ELSE "invalidate",
                     target |-> s, row |-> event]
  <2>1. admin' = [admin EXCEPT ![a] = new] /\ UNCHANGED event
    BY <1>3 DEF ReadEvent
  <2>2. new \in AdminState /\ new.row = event
    BY <1>1 DEF AdminState, AdminPcs
  <2> HIDE DEF new
  <2> QED
    BY <1>1, <1>3, <2>1, <2>2, AdminKeeps
<1>4. ASSUME NEW pc \in AdminPcs, admin' = [admin EXCEPT ![a].pc = pc], UNCHANGED event,
             UNCHANGED << issueVars, overwritten >>
      PROVE  LockInv'
  <2>1. [admin[a] EXCEPT !.pc = pc] \in AdminState
    BY <1>1 DEF AdminState
  <2>2. admin' \in [Admins -> AdminState] /\ \A b \in Admins : admin'[b].row = admin[b].row
    BY <1>1, <1>4, <2>1 DEF AdminState
  <2> QED
    BY <1>4, <2>2, AdminKeeps
<1>5. ASSUME \/ DelIssued(a) \/ SetStock(a) \/ \E i \in Instances : Invalidate(a, i),
             UNCHANGED << issueVars, overwritten >>
      PROVE  LockInv'
  <2>1. \E pc \in AdminPcs : admin' = [admin EXCEPT ![a].pc = pc] /\ UNCHANGED event
    BY <1>5 DEF DelIssued, SetStock, Invalidate, AdminPcs
  <2> QED
    BY <1>4, <1>5, <2>1
<1>6. ASSUME Rollback(a), UNCHANGED << issueVars, overwritten >>
      PROVE  LockInv'
  <2>1. admin' = [admin EXCEPT ![a] = Idle] /\ UNCHANGED event
    BY <1>6 DEF Rollback
  <2>2. admin' \in [Admins -> AdminState]
        /\ \A b \in Admins : admin'[b].row \in {admin[b].row, NewRow}
    BY <1>1, <1>2, <2>1
  <2> QED
    BY <1>6, <2>1, <2>2, AdminKeeps
<1> QED
  BY <1>3, <1>5, <1>6, CommitStatusKeeps

-----------------------------------------------------------------------------
\* Every step keeps the invariant.
LEMMA LockInductive == LockInv /\ [Next]_vars => LockInv'
<1> SUFFICES ASSUME LockInv, [Next]_vars PROVE LockInv'
  OBVIOUS
<1>1. ASSUME NEW r \in Requests, Lock(r) PROVE LockInv'
  BY <1>1, LockRowKeeps DEF Lock
<1>2. ASSUME NEW r \in Requests, Insert(r) PROVE LockInv'
  <2> DEFINE pc == IF Taken(req[r].user) THEN "DUPLICATE" ELSE "commit"
  <2>1. /\ Goto(r, pc) /\ UNCHANGED << event, admin, rows, overwritten >>
        /\ req[r].pc = "insert"
    BY <1>2 DEF Insert, adminVars
  <2>2. /\ pc \in Pending \union Answers /\ pc # "SOLD_OUT"
        /\ pc = "commit" => req[r].user \notin rows
    BY DEF Pending, Answers, Taken
  <2>3. req[r].pc \in Holding
    BY <2>1 DEF Holding
  <2> HIDE DEF pc
  <2> QED
    BY <2>1, <2>2, <2>3, PrivateStep
<1>3. ASSUME NEW r \in Requests, CommitIssue(r) \/ CommitAnswerLost(r) PROVE LockInv'
  BY <1>3, CommitKeeps DEF CommitIssue, CommitAnswerLost
<1>4. ASSUME NEW r \in Requests, Fail(r) PROVE LockInv'
  <2>1. Goto(r, "ERROR") /\ UNCHANGED << event, admin, rows, overwritten >>
    BY <1>4 DEF Fail, adminVars
  <2>2. "ERROR" \in Pending \union Answers /\ "ERROR" \notin Holding /\ "ERROR" # "SOLD_OUT"
    BY DEF Pending, Answers, Holding
  <2> QED
    BY <2>1, <2>2, PrivateStep
<1>5. CASE StatusStep
  BY <1>5, StatusKeeps
<1>6. CASE UNCHANGED vars
  BY <1>6 DEF vars, adminVars, issueVars, LockInv, Typed, Locked, HolderKnows, Holding,
              Behind, CounterMatchesRows, SoldOutIsTrue
<1> QED
  BY <1>1, <1>2, <1>3, <1>4, <1>5, <1>6 DEF Next

\* It holds at the start.
LEMMA LockInitially == Init => LockInv
<1> SUFFICES ASSUME Init PROVE LockInv
  OBVIOUS
<1>1. /\ event = NewRow /\ admin = [a \in Admins |-> Idle]
      /\ req \in [Requests -> [pc : {"lock"}, user : Users, row : {NewRow}]]
      /\ rows = {} /\ overwritten = 0
  BY DEF Init, EventInit
<1>2. NewRow \in EventRow /\ NewRow.issuedQty = 0
  BY EventAssumption DEF NewRow, EventRow, Statuses
<1>3. Idle \in AdminState /\ Idle.row = NewRow
  BY <1>2 DEF Idle, AdminState, AdminPcs, Statuses
<1>4. IsFiniteSet(rows) /\ Cardinality(rows) = 0
  BY <1>1, FS_EmptySet
<1>5. \A r \in Requests : req[r] \in RequestState /\ req[r].pc = "lock"
  BY <1>1, <1>2 DEF RequestState, Pending
<1>6. req \in [Requests -> RequestState]
  BY <1>1, <1>5
<1>7. Typed
  BY <1>1, <1>2, <1>3, <1>4, <1>6 DEF Typed
<1>8. Locked
  BY <1>5 DEF Locked, HolderKnows, Holding
<1>9. Behind /\ CounterMatchesRows /\ SoldOutIsTrue
  BY <1>1, <1>2, <1>3, <1>4, <1>5 DEF Behind, CounterMatchesRows, SoldOutIsTrue
<1> QED
  BY <1>7, <1>8, <1>9 DEF LockInv

\* The invariant holds in every reachable state.
THEOREM LockInvariance == Spec => []LockInv
  BY LockInitially, LockInductive, PTL DEF Spec

\* However many requests, failures and status changes interleave, the counter
\* and the table agree but for what status changes have overwritten.
THEOREM CounterMatches == Spec => []CounterMatchesRows
<1>1. LockInv => CounterMatchesRows
  BY DEF LockInv
<1> QED
  BY <1>1, LockInvariance, PTL

\* The row lock prevents over-issue unless a status change undid a count.
THEOREM OverIssueFree == Spec => []NoOverIssue
<1>1. LockInv => NoOverIssue
  <2> SUFFICES ASSUME LockInv, overwritten = 0 PROVE Cardinality(rows) <= TotalQty
    BY DEF NoOverIssue
  <2>1. event.issuedQty \in 0..TotalQty
    BY DEF LockInv, Typed, EventRow
  <2> QED
    BY <2>1, EventAssumption DEF LockInv, CounterMatchesRows
<1> QED
  BY <1>1, LockInvariance, PTL

\* SOLD_OUT is only answered when every coupon has its row.
THEOREM SoldOutTruthful == Spec => []SoldOutIsTrue
<1>1. LockInv => SoldOutIsTrue
  BY DEF LockInv
<1> QED
  BY <1>1, LockInvariance, PTL

\* Rows only appear while the event is OPEN, and leave it so.
THEOREM OpenWhileIssuing == Spec => IssuedWhileOpen
<1>1. LockInv /\ [Next]_vars
         => [rows' # rows => event.status = "OPEN" /\ event'.status = "OPEN"]_vars
  <2> SUFFICES ASSUME LockInv, [Next]_vars, rows' # rows
               PROVE  event.status = "OPEN" /\ event'.status = "OPEN"
    OBVIOUS
  <2>1. PICK r \in Requests : Committed(r)
    BY DEF Next, Lock, LockRow, Insert, CommitIssue, CommitAnswerLost, Fail, StatusStep,
           CommitStatus, issueVars, vars
  <2> QED
    BY <2>1, CommittedFacts
<1> QED
  BY <1>1, LockInvariance, PTL DEF Spec, IssuedWhileOpen

-----------------------------------------------------------------------------
\* The winners are those with a row, each once.
GrantsAreRows ==
    grants \in Seq(Users) /\ Allocation!Winners = rows /\ Len(grants) = Cardinality(rows)

\* A transaction of an issue commits, or winners and rows stay what they are.
LEMMA CommitsOnly ==
  ASSUME [Next]_vars
  PROVE  (\E r \in Requests : Committed(r)) \/ UNCHANGED << rows, grants >>
BY DEF Next, Lock, LockRow, Insert, CommitIssue, CommitAnswerLost, Fail, StatusStep, CommitStatus,
       issueVars, vars

\* Every step keeps it.
LEMMA GrantsStep == LockInv /\ GrantsAreRows /\ [Next]_vars => GrantsAreRows'
<1> SUFFICES ASSUME LockInv, GrantsAreRows, [Next]_vars PROVE GrantsAreRows'
  OBVIOUS
<1>1. ASSUME NEW r \in Requests, Committed(r) PROVE GrantsAreRows'
  <2> DEFINE u == req[r].user
  <2>1. /\ u \in Users /\ u \notin rows /\ rows' = rows \union {u}
        /\ Cardinality(rows') = Cardinality(rows) + 1 /\ Cardinality(rows) \in Nat
    BY <1>1, CommittedFacts
  <2>2. grants' = Append(grants, u) /\ grants \in Seq(Users)
    BY <1>1 DEF Committed, GrantsAreRows
  <2> HIDE DEF u
  <2>3. /\ grants' \in Seq(Users) /\ Len(grants') = Len(grants) + 1
        /\ DOMAIN grants = 1..Len(grants) /\ DOMAIN grants' = 1..(Len(grants) + 1)
        /\ grants'[Len(grants) + 1] = u /\ \A i \in 1..Len(grants) : grants'[i] = grants[i]
        /\ Len(grants) \in Nat
    BY <2>1, <2>2
  <2>4. { grants'[i] : i \in DOMAIN grants' } = { grants[i] : i \in DOMAIN grants } \union {u}
    <3>1. 1..(Len(grants) + 1) = (1..Len(grants)) \union {Len(grants) + 1}
      BY <2>3
    <3> QED
      BY <2>3, <3>1
  <2>5. Allocation!Winners' = rows'
    BY <2>1, <2>4 DEF GrantsAreRows, Allocation!Winners
  <2> QED
    BY <2>1, <2>3, <2>5 DEF GrantsAreRows
<1>2. ASSUME UNCHANGED << rows, grants >> PROVE GrantsAreRows'
  BY <1>2 DEF GrantsAreRows, Allocation!Winners
<1> QED
  BY <1>1, <1>2, CommitsOnly

\* While no status change has undone a count, every step is one of the
\* first-come allocation: the commit of an issue decides and records.
THEOREM Refinement == Spec => ImplementsAllocation
<1>1. Init => Allocation!Init
  BY DEF Init, Allocation!Init
<1>2. Init => GrantsAreRows
  BY FS_EmptySet DEF Init, GrantsAreRows, Allocation!Winners
<1>3. LockInv /\ GrantsAreRows /\ [Next]_vars
         => [overwritten' = 0 => Allocation!Next]_(Allocation!vars)
  <2> SUFFICES ASSUME LockInv, GrantsAreRows, [Next]_vars, overwritten' = 0
               PROVE  [Allocation!Next]_(Allocation!vars)
    OBVIOUS
  <2>1. ASSUME NEW r \in Requests, Committed(r) PROVE Allocation!Next
    <3> DEFINE u == req[r].user
    <3>1. /\ u \in Users /\ u \notin rows /\ rows' = rows \union {u}
          /\ event.issuedQty < TotalQty /\ overwritten' = overwritten
      BY <2>1, CommittedFacts
    <3>2. grants' = Append(grants, u)
      BY <2>1 DEF Committed
    <3>3. Len(grants) < TotalQty
      <4>1. event.issuedQty \in Nat
        BY EventAssumption DEF LockInv, Typed, EventRow
      <4> QED
        BY <3>1, <4>1 DEF LockInv, CounterMatchesRows, GrantsAreRows
    <3>4. Allocation!Issue(u)
      BY <3>1, <3>2, <3>3 DEF Allocation!Issue, GrantsAreRows
    <3> QED
      BY <3>1, <3>4 DEF Allocation!Next
  <2>2. ASSUME UNCHANGED << rows, grants >> PROVE UNCHANGED Allocation!vars
    BY <2>2 DEF Allocation!vars
  <2> QED
    BY <2>1, <2>2, CommitsOnly
<1> QED
  BY <1>1, <1>2, <1>3, GrantsStep, LockInvariance, PTL DEF Spec, ImplementsAllocation

-----------------------------------------------------------------------------
\* The part of TypeOK the argument does not need: what the requests leave alone.
Around ==
    /\ stock \in NoStock..TotalQty
    /\ cache \in [Instances -> Statuses \union {NotCached}]
    /\ opens \in Nat /\ changes \in Nat /\ credited \in Nat
    /\ everOpen \in BOOLEAN

LEMMA AroundStep == LockInv /\ Around /\ [Next]_vars => Around'
<1> SUFFICES ASSUME LockInv, Around, [Next]_vars PROVE Around'
  OBVIOUS
<1> USE DEF Around
<1>1. ASSUME UNCHANGED << stock, cache, opens, changes, credited, everOpen >>
      PROVE  Around'
  BY <1>1
<1>2. ASSUME NEW r \in Requests,
             Lock(r) \/ Insert(r) \/ CommitIssue(r) \/ CommitAnswerLost(r) \/ Fail(r)
      PROVE  Around'
  BY <1>1, <1>2 DEF Lock, LockRow, Insert, CommitIssue, CommitAnswerLost, Committed, Fail,
                    redisVars, adminVars
<1>3. ASSUME NEW a \in Admins, NEW s \in Statuses, ReadEvent(a, s) PROVE Around'
  BY <1>3 DEF ReadEvent, redisVars
<1>4. ASSUME NEW a \in Admins, DelIssued(a) \/ Rollback(a) PROVE Around'
  BY <1>1, <1>4 DEF DelIssued, Rollback, redisVars
<1>5. ASSUME NEW a \in Admins, SetStock(a) PROVE Around'
  <2>1. TotalQty - admin[a].row.issuedQty \in 0..TotalQty
    BY EventAssumption DEF LockInv, Typed, AdminState, EventRow
  <2> QED
    BY <1>5, <2>1, EventAssumption DEF SetStock, NoStock
<1>6. ASSUME NEW a \in Admins, NEW i \in Instances, Invalidate(a, i) PROVE Around'
  BY <1>6 DEF Invalidate, redisVars
<1>7. ASSUME NEW a \in Admins, CommitStatus(a) PROVE Around'
  BY <1>7 DEF CommitStatus, Commit, redisVars
<1>8. CASE UNCHANGED vars
  BY <1>1, <1>8 DEF vars, redisVars, adminVars
<1> QED
  BY <1>2, <1>3, <1>4, <1>5, <1>6, <1>7, <1>8 DEF Next, StatusStep

\* Type correctness: the counter of the event, whatever overwrites it, and the
\* counter in Redis, whatever sets it, stay between zero and total_qty.
THEOREM TypeCorrect == Spec => []TypeOK
<1>1. Init => Around
  <2> SUFFICES ASSUME Init PROVE Around
    OBVIOUS
  <2>1. stock \in NoStock..TotalQty
    BY EventAssumption DEF Init, EventInit, NoStock
  <2>2. cache \in [Instances -> Statuses \union {NotCached}]
    BY DEF Init, EventInit
  <2>3. 0 \in Nat /\ FALSE \in BOOLEAN
    OBVIOUS
  <2> QED
    BY <2>1, <2>2, <2>3, Zenon DEF Init, EventInit, Around
<1>2. Init => GrantsAreRows
  BY FS_EmptySet DEF Init, GrantsAreRows, Allocation!Winners
<1>3. LockInv /\ GrantsAreRows /\ Around => TypeOK
  BY DEF LockInv, Typed, GrantsAreRows, Around, TypeOK, EventTypeOK, AdminTypeOK
<1> QED
  BY <1>1, <1>2, <1>3, AroundStep, GrantsStep, LockInvariance, PTL DEF Spec

=============================================================================
