--------------------------- MODULE PessimisticIssue ---------------------------
(***************************************************************************)
(* Issuing with a row lock (strategy 1): one MySQL transaction locks the   *)
(* row of the event (SELECT ... FOR UPDATE), looks at it, inserts the row  *)
(* of coupon_issue and writes the event back with issued_qty + 1.          *)
(* changeStatus reads the same row without a lock and writes all of its    *)
(* columns back, once it gets the lock.                                    *)
(***************************************************************************)
EXTENDS EventAdmin, FiniteSets, Sequences

CONSTANTS
    Users,      \* people
    Requests    \* HTTP requests; several may come from one person

VARIABLES
    req,          \* every request: where it is, who sent it, the row it locked
    rows,         \* coupon_issue, the committed rows: users
    grants,       \* history: the users whose issue was committed, in that order
    overwritten   \* history: increments of issued_qty that a status change undid

issueVars == << req, rows, grants >>
vars == << redisVars, adminVars, issueVars, overwritten >>

Answers == {"CREATED", "NOT_OPEN", "SOLD_OUT", "DUPLICATE", "ERROR"}
Pending == {"lock", "insert", "commit"}

RequestState == [pc : Pending \union Answers, user : Users, row : EventRow]

Init ==
    /\ EventInit
    /\ req \in [Requests -> [pc : {"lock"}, user : Users, row : {NewRow}]]
    /\ rows = {} /\ grants = << >> /\ overwritten = 0

Goto(r, pc) == req' = [req EXCEPT ![r].pc = pc]

-----------------------------------------------------------------------------
(* The lock of the row.                                                     *)

\* Faulty: the rollback after a duplicate does not release the lock.
Holding_AfterDuplicate == {"insert", "commit", "DUPLICATE"}

\* Where a transaction holds the lock.
Holding == {"insert", "commit"}

\* Faulty: a plain SELECT, and an UPDATE that waits for nobody.
RowFree_Always == TRUE

RowFree == \A r \in Requests : req[r].pc \notin Holding

-----------------------------------------------------------------------------
(* A request.                                                               *)

\* CouponEvent.isOpen; inWindow says whether "now" is between the two dates.
IsOpen(row, inWindow) == row.status = "OPEN" /\ inWindow

\* Faulty: one coupon is kept back, or one too many is given.
IsSoldOut_OneEarly(row) == row.issuedQty + 1 >= TotalQty
IsSoldOut_OneLate(row)  == row.issuedQty > TotalQty

IsSoldOut(row) == row.issuedQty >= TotalQty

\* findByIdForUpdate reads the row as it was last committed; both rejections
\* roll back and release it.
LockRow(r, inWindow) ==
    /\ req[r].pc = "lock"
    /\ RowFree
    /\ req' = [req EXCEPT ![r].row = event,
                          ![r].pc = IF ~IsOpen(event, inWindow) THEN "NOT_OPEN"
                                    ELSE IF IsSoldOut(event) THEN "SOLD_OUT" ELSE "insert"]
    /\ UNCHANGED << redisVars, adminVars, rows, grants, overwritten >>

Taken(u) == u \in rows

\* saveAndFlush.
Insert(r) ==
    /\ req[r].pc = "insert"
    /\ Goto(r, IF Taken(req[r].user) THEN "DUPLICATE" ELSE "commit")
    /\ UNCHANGED << redisVars, adminVars, rows, grants, overwritten >>

\* Faulty: increaseIssuedQty is forgotten.
Written_SameQty(row) == row

\* increaseIssuedQty, and Hibernate writes every column.
Written(row) == [row EXCEPT !.issuedQty = @ + 1]

Committed(r) ==
    /\ req[r].pc = "commit"
    /\ event' = Written(req[r].row)
    /\ rows' = rows \union {req[r].user}
    /\ grants' = Append(grants, req[r].user)
    /\ UNCHANGED << redisVars, cache, admin, opens, changes, credited, everOpen,
                    overwritten >>

CommitIssue(r) == Committed(r) /\ Goto(r, "CREATED")

\* The transaction is committed, and the client never hears of it.
CommitAnswerLost(r) == Committed(r) /\ Goto(r, "ERROR")

\* No connection, a lock wait timeout, a failed call, a dead process: rolled back.
Fail(r) ==
    /\ req[r].pc \in Pending
    /\ Goto(r, "ERROR")
    /\ UNCHANGED << redisVars, adminVars, rows, grants, overwritten >>

-----------------------------------------------------------------------------
\* The UPDATE of changeStatus waits for the lock; if the status is what it was
\* there is none.
CommitStatus(a) ==
    /\ admin[a].target # admin[a].row.status => RowFree
    /\ Commit(a)
    /\ overwritten' = overwritten + (event.issuedQty - event'.issuedQty)
    /\ UNCHANGED issueVars

StatusStep ==
    \E a \in Admins :
        \/ /\ \/ \E s \in Statuses : ReadEvent(a, s)
              \/ DelIssued(a) \/ SetStock(a)
              \/ \E i \in Instances : Invalidate(a, i)
              \/ Rollback(a)
           /\ UNCHANGED << issueVars, overwritten >>
        \/ CommitStatus(a)

Lock(r) == \E inWindow \in BOOLEAN : LockRow(r, inWindow)

Next ==
    \/ \E r \in Requests : Lock(r) \/ Insert(r) \/ CommitIssue(r) \/ CommitAnswerLost(r) \/ Fail(r)
    \/ StatusStep

\* InnoDB serves those who wait for a lock in turn, and a transaction that has
\* it goes on.
Fairness ==
    \A r \in Requests : SF_vars(Lock(r)) /\ WF_vars(Insert(r)) /\ WF_vars(CommitIssue(r))

Spec == Init /\ [][Next]_vars /\ Fairness

-----------------------------------------------------------------------------
(* Properties.                                                              *)

TypeOK ==
    /\ EventTypeOK
    /\ req \in [Requests -> RequestState]
    /\ rows \subseteq Users /\ grants \in Seq(Users)
    /\ overwritten \in Nat

\* The counter and the table agree, whoever fails or is interrupted where,
\* but for the increments that a status change has overwritten.
CounterMatchesRows == Cardinality(rows) = event.issuedQty + overwritten

\* The lock prevents over-issue, as long as no status change undid a count.
NoOverIssue == overwritten = 0 => Cardinality(rows) <= TotalQty

\* While no status change has undone a count, this strategy is the first-come
\* allocation, too: a commit decides and records in one step, everything else
\* changes neither the winners nor the ledger.
Allocation == INSTANCE CouponAllocation WITH winners <- grants, recorded <- rows
ImplementsAllocation ==
    Allocation!Init /\ [][overwritten' = 0 => Allocation!Next]_(Allocation!vars)

\* Nobody is sent away while there are coupons.
SoldOutIsTrue ==
    (\E r \in Requests : req[r].pc = "SOLD_OUT") => Cardinality(rows) >= TotalQty

\* A coupon is only recorded while the event is OPEN, and recording it does
\* not undo a status change: the status cannot change between the check and
\* the commit.
IssuedWhileOpen == [][rows' # rows => event.status = "OPEN" /\ event'.status = "OPEN"]_vars

\* The lock is always released: every request is answered.
Answered == \A r \in Requests : <>(req[r].pc \in Answers)

\* PessimisticLockIssueStrategyTest.java:30 calls "no over-issue" the core
\* invariant of the project.
NeverOverIssued == Cardinality(rows) <= TotalQty

=============================================================================
