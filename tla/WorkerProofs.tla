----------------------------- MODULE WorkerProofs ------------------------------
(***************************************************************************)
(* Both worker deployments proved for any number of processes, entries,    *)
(* messages, crashes, failures, deletions of the stream and rebalances,    *)
(* and for any batch size.                                                  *)
(*                                                                          *)
(* NothingLost is not inductive alone: an acknowledgement must be known to *)
(* come after the rows (RecordedBeforeAck), and that needs to know that    *)
(* the row fallback has written the part of the batch that is no longer to *)
(* do (RowsDone).                                                           *)
(*                                                                          *)
(* Nor is CommittedIsSettled: what a listener commits is its position, so  *)
(* everything up to the position that is not in its batch must be settled  *)
(* whoever owns the partition, and the batch must be settled by the time   *)
(* it is acknowledged (ListenerOK).                                         *)
(***************************************************************************)
EXTENDS KafkaWorker, TLAPS

-----------------------------------------------------------------------------
(* The stream workers.                                                      *)

\* The fallback has dealt with what it has taken off its list.
RowsDone ==
    \A w \in Workers :
        worker[w].pc = "rows" => UserIn(worker[w].batch \ worker[w].todo) \subseteq rows

IInv == TypeOK /\ NothingLost /\ RecordedBeforeAck /\ RowsDone

\* TypeOK in its two halves: the group and the tables, the processes.
GroupOK ==
    /\ log \in Seq(Users)
    /\ cut \in 0..Len(log)
    /\ delivered \in {NoGroup} \union (cut..Len(log))
    /\ pel \subseteq (cut + 1)..delivered /\ stale \subseteq pel
    /\ rows \subseteq Users
    /\ fired \subseteq 1..Len(log)
    /\ budget \in [crashes : Nat, faults : Nat, deletes : Nat]

ProcessOK ==
    /\ worker \in [Workers -> WorkerState]
    /\ \A w \in Workers : worker[w].todo \subseteq worker[w].batch
                       /\ worker[w].batch \subseteq 1..Len(log)

-----------------------------------------------------------------------------
(* What the moves of a process do to its state.                             *)

\* A move to another point of the loop keeps the process well formed.
LEMMA GotoOK ==
  ASSUME ProcessOK, NEW w \in Workers, NEW pc \in Pcs, Goto(w, pc), log' = log
  PROVE  /\ ProcessOK'
         /\ worker'[w] = [worker[w] EXCEPT !.pc = pc]
         /\ \A v \in Workers \ {w} : worker'[v] = worker[v]
  BY DEF ProcessOK, Goto, WorkerState

\* So does a new list of entries still to write.
LEMMA EditOK ==
  ASSUME ProcessOK, NEW w \in Workers, NEW pc \in Pcs, NEW todo \in SUBSET worker[w].batch,
         worker' = [worker EXCEPT ![w].pc = pc, ![w].todo = todo], log' = log
  PROVE  ProcessOK'
<1>1. /\ worker'[w] = [worker[w] EXCEPT !.pc = pc, !.todo = todo]
      /\ \A v \in Workers \ {w} : worker'[v] = worker[v]
      /\ DOMAIN worker' = Workers /\ worker' = [v \in Workers |-> worker'[v]]
  BY DEF ProcessOK
<1>2. todo \in SUBSET Nat /\ worker[w] \in WorkerState
  BY DEF ProcessOK, WorkerState
<1>3. worker'[w] \in WorkerState
  BY <1>1, <1>2 DEF WorkerState
<1>4. worker' \in [Workers -> WorkerState]
  BY <1>1, <1>3 DEF ProcessOK
<1>5. worker'[w].todo = todo /\ worker'[w].batch = worker[w].batch
  BY <1>1, <1>2 DEF WorkerState
<1> QED
  BY <1>1, <1>4, <1>5 DEF ProcessOK

\* So does the end of a batch, after which the loop holds no entry.
LEMMA ReturnOK ==
  ASSUME ProcessOK, NEW w \in Workers, Return(w), log' = log
  PROVE  /\ ProcessOK'
         /\ worker'[w].pc \in {"cycle", "read"}
         /\ \A v \in Workers \ {w} : worker'[v] = worker[v]
  BY DEF ProcessOK, Return, WorkerState, Pcs

\* So does taking a batch of entries that are in the log.
LEMMA TakeOK ==
  ASSUME ProcessOK, log \in Seq(Users), NEW w \in Workers, NEW ids \in SUBSET (1..Len(log)),
         NEW pc \in Pcs, NEW back \in {"cycle", "read"},
         Take(w, ids, pc, back), log' = log
  PROVE  /\ ProcessOK'
         /\ worker'[w].pc = pc /\ worker'[w].batch = ids
         /\ \A v \in Workers \ {w} : worker'[v] = worker[v]
<1>1. ids \in SUBSET Nat
  OBVIOUS
<1> QED
  BY <1>1 DEF ProcessOK, Take, WorkerState

-----------------------------------------------------------------------------
\* The type invariant is inductive by itself: only Delete, the reads and an
\* acknowledgement change what the group owes, and only Add the log.
LEMMA TypeStep == TypeOK /\ [Next]_vars => TypeOK'
<1> SUFFICES ASSUME GroupOK, ProcessOK, [Next]_vars PROVE GroupOK' /\ ProcessOK'
  BY DEF TypeOK, GroupOK, ProcessOK
<1>log. log \in Seq(Users) /\ Len(log) \in Nat /\ cut \in Nat
  BY DEF GroupOK
<1>pel. /\ pel \subseteq 1..Len(log)
        /\ delivered = NoGroup => pel = {}
  BY <1>log DEF GroupOK, NoGroup
<1>new. ASSUME CreateGroup, log' = log, cut' = cut, pel' = pel
        PROVE  delivered' \in {NoGroup} \union (cut..Len(log))
                /\ pel \subseteq (cut + 1)..delivered'
  BY <1>new, <1>log, <1>pel DEF CreateGroup, GroupStart, GroupOK
<1>1. ASSUME NEW u \in Users, Add(u) PROVE GroupOK' /\ ProcessOK'
  <2>1. log' \in Seq(Users) /\ Len(log') = Len(log) + 1
    BY <1>1, <1>log DEF Add
  <2> QED
    BY <1>1, <2>1, <1>log DEF Add, GroupOK, ProcessOK
<1>2. ASSUME Delete PROVE GroupOK' /\ ProcessOK'
  BY <1>2, <1>log DEF Delete, GroupOK, ProcessOK, NoGroup
<1>3. ASSUME NEW i \in pel, Idle(i) PROVE GroupOK' /\ ProcessOK'
  BY <1>3 DEF Idle, GroupOK, ProcessOK
<1>4. ASSUME NEW w \in Workers, Crash(w) PROVE GroupOK' /\ ProcessOK'
  <2>1. Down \in WorkerState /\ Down.todo = {} /\ Down.batch = {}
    BY WorkerAssumption DEF Down, WorkerState, Pcs
  <2>2. ProcessOK'
    BY <1>4, <2>1 DEF Crash, ProcessOK, streamVars
  <2> QED
    BY <1>4, <2>2 DEF Crash, GroupOK, streamVars
<1>5. ASSUME NEW w \in Workers, Start(w) PROVE GroupOK' /\ ProcessOK'
  <2>1. ProcessOK'
    BY <1>5, GotoOK DEF Start, Pcs
  <2> QED
    BY <1>5, <1>new, <2>1 DEF Start, GroupOK
<1>6. ASSUME NEW w \in Workers, NextCycle(w) PROVE GroupOK' /\ ProcessOK'
  <2>1. (worker[w].cycle + 1) % ReclaimEvery \in 0..(ReclaimEvery - 1)
    BY WorkerAssumption DEF ProcessOK, WorkerState
  <2>2. ProcessOK'
    BY <1>6, <2>1 DEF NextCycle, ProcessOK, WorkerState, Pcs, streamVars
  <2> QED
    BY <1>6, <2>2 DEF NextCycle, GroupOK, streamVars
<1>7. ASSUME NEW w \in Workers, Scan(w) PROVE GroupOK' /\ ProcessOK'
  <2>1. Reclaimable \in SUBSET (1..Len(log))
    BY <1>pel DEF Reclaimable, GroupOK
  <2>2. ProcessOK'
    BY <1>7, <2>1, <1>log, GotoOK, TakeOK DEF Scan, Pcs, streamVars
  <2> QED
    BY <1>7, <2>2 DEF Scan, GroupOK, streamVars
<1>8. ASSUME NEW w \in Workers, Claim(w) PROVE GroupOK' /\ ProcessOK'
  <2>1. worker[w].batch \intersect stale \in SUBSET (1..Len(log))
    BY DEF ProcessOK
  <2>2. ProcessOK'
    BY <1>8, <2>1, <1>log, ReturnOK, TakeOK DEF Claim, Pcs
  <2> QED
    BY <1>8, <2>2 DEF Claim, GroupOK
<1>9. ASSUME NEW w \in Workers, Read(w) PROVE GroupOK' /\ ProcessOK'
  <2>0. delivered \in cut..Len(log) /\ delivered < Len(log)
    BY <1>9 DEF Read, GroupOK
  <2>1. ReadTo \in (delivered + 1)..Len(log) /\ delivered \in cut..Len(log)
    BY <2>0, <1>log, WorkerAssumption DEF ReadTo
  <2>2. (delivered + 1)..ReadTo \in SUBSET (1..Len(log))
    BY <2>1, <1>log
  <2>3. ProcessOK'
    BY <1>9, <2>2, <1>log, TakeOK DEF Read, Pcs
  <2>4. pel \union ((delivered + 1)..ReadTo) \subseteq (cut + 1)..ReadTo
    BY <2>1, <1>log DEF GroupOK
  <2> QED
    BY <1>9, <2>1, <2>3, <2>4, <1>log DEF Read, GroupOK
<1>10. ASSUME NEW w \in Workers, ReadNothing(w) PROVE GroupOK' /\ ProcessOK'
  BY <1>10, GotoOK DEF ReadNothing, GroupOK, Pcs, streamVars
<1>11. ASSUME NEW w \in Workers, ReadNoGroup(w) PROVE GroupOK' /\ ProcessOK'
  <2>1. ProcessOK'
    BY <1>11, GotoOK DEF ReadNoGroup, Pcs
  <2> QED
    BY <1>11, <1>new, <2>1 DEF ReadNoGroup, GroupOK
<1>12. ASSUME NEW w \in Workers, WriteBatch(w) PROVE GroupOK' /\ ProcessOK'
  <2>1. UserIn(worker[w].batch) \subseteq Users
    BY <1>log DEF UserIn, ProcessOK
  <2> QED
    BY <1>12, <2>1, GotoOK DEF WriteBatch, GroupOK, Pcs, streamVars
<1>13. ASSUME NEW w \in Workers, RollbackBatch(w) PROVE GroupOK' /\ ProcessOK'
  <2>1. ProcessOK'
    BY <1>13, EditOK DEF RollbackBatch, Pcs, streamVars
  <2> QED
    BY <1>13, <2>1 DEF RollbackBatch, GroupOK, streamVars
<1>14. ASSUME NEW w \in Workers, NEW i \in worker[w].todo, WriteRow(w, i)
       PROVE GroupOK' /\ ProcessOK'
  <2>1. log[i] \in Users
    BY <1>log DEF ProcessOK
  <2>2. ProcessOK'
    <3> DEFINE todo == worker[w].todo \ {i}
               pc   == IF worker[w].todo = {i} THEN "ack" ELSE "rows"
    <3>1. worker' = [worker EXCEPT ![w].pc = pc, ![w].todo = todo]
      BY <1>14 DEF WriteRow
    <3>2. pc \in Pcs /\ todo \in SUBSET worker[w].batch
      BY DEF Pcs, ProcessOK
    <3>3. log' = log
      BY <1>14 DEF WriteRow, streamVars
    <3> HIDE DEF todo, pc
    <3> QED
      BY <3>1, <3>2, <3>3, EditOK
  <2> QED
    BY <1>14, <2>1, <2>2 DEF WriteRow, GroupOK, streamVars
<1>15. ASSUME NEW w \in Workers, Ack(w) PROVE GroupOK' /\ ProcessOK'
  <2>1. ProcessOK'
    BY <1>15, GotoOK, ReturnOK DEF Ack, Pcs
  <2> QED
    BY <1>15, <2>1 DEF Ack, GroupOK
<1>16. ASSUME NEW w \in Workers, Fire(w) PROVE GroupOK' /\ ProcessOK'
  <2>1. ProcessOK'
    BY <1>16, ReturnOK DEF Fire, streamVars
  <2> QED
    BY <1>16, <2>1 DEF Fire, GroupOK, ProcessOK, streamVars
<1>17. ASSUME NEW w \in Workers, Fault(w) PROVE GroupOK' /\ ProcessOK'
  <2>1. ProcessOK'
    BY <1>17, GotoOK, ReturnOK DEF Fault, Pcs, streamVars
  <2> QED
    BY <1>17, <2>1 DEF Fault, GroupOK, streamVars
<1>18. ASSUME NEW w \in Workers, ReadLost(w) PROVE GroupOK' /\ ProcessOK'
  <2>0. delivered \in cut..Len(log) /\ delivered < Len(log)
    BY <1>18 DEF ReadLost, GroupOK
  <2>1. ReadTo \in (delivered + 1)..Len(log) /\ delivered \in cut..Len(log)
    BY <2>0, <1>log, WorkerAssumption DEF ReadTo
  <2>2. ProcessOK'
    BY <1>18, GotoOK DEF ReadLost, Pcs
  <2>3. pel \union ((delivered + 1)..ReadTo) \subseteq (cut + 1)..ReadTo
    BY <2>1, <1>log DEF GroupOK
  <2>4. delivered' = ReadTo /\ pel' = pel \union ((delivered + 1)..ReadTo)
        /\ UNCHANGED << log, cut, stale, rows, fired >>
    BY <1>18 DEF ReadLost
  <2>5. delivered' \in cut..Len(log)
        /\ pel' \subseteq (cut + 1)..delivered' /\ stale' \subseteq pel'
    BY <2>1, <2>3, <2>4, <1>log DEF GroupOK
  <2>6. budget' \in [crashes : Nat, faults : Nat, deletes : Nat]
    BY <1>18 DEF ReadLost, GroupOK
  <2> QED
    BY <2>2, <2>4, <2>5, <2>6 DEF GroupOK
<1>19. ASSUME NEW w \in Workers, AnswerLost(w) PROVE GroupOK' /\ ProcessOK'
  <2>1. ProcessOK'
    BY <1>19, ReturnOK DEF AnswerLost
  <2>2. UserIn(worker[w].batch) \subseteq Users /\ \A i \in worker[w].todo : log[i] \in Users
    BY <1>log DEF UserIn, ProcessOK
  <2>3. rows' \subseteq Users /\ pel' \subseteq pel /\ stale' \subseteq pel'
    BY <1>19, <2>2 DEF AnswerLost, GroupOK
  <2> QED
    BY <1>19, <2>1, <2>3 DEF AnswerLost, GroupOK
<1>20. CASE UNCHANGED vars
  BY <1>20 DEF vars, streamVars, GroupOK, ProcessOK
<1> QED
  BY <1>1, <1>2, <1>3, <1>4, <1>5, <1>6, <1>7, <1>8, <1>9, <1>10, <1>11, <1>12, <1>13, <1>14,
     <1>15, <1>16, <1>17, <1>18, <1>19, <1>20 DEF Next, Step

-----------------------------------------------------------------------------
\* A step of process w, seen from the table: it only grows, so what the other
\* processes may rely on stands, and w has to answer for itself.
LEMMA OneMoves ==
  ASSUME RecordedBeforeAck, RowsDone, NEW w \in Workers,
         \A v \in Workers \ {w} : worker'[v] = worker[v],
         rows \subseteq rows', log' = log,
         worker'[w].pc \in {"ack", "fire"} => UserIn(worker[w].batch)' \subseteq rows',
         worker'[w].pc = "rows" => UserIn(worker[w].batch \ worker[w].todo)' \subseteq rows'
  PROVE  RecordedBeforeAck' /\ RowsDone'
  BY DEF RecordedBeforeAck, RowsDone, UserIn

\* IInv is inductive: an entry leaves the pending list only at an
\* acknowledgement, and by then its row is there.
LEMMA Inductive == IInv /\ [Next]_vars => IInv'
<1> SUFFICES ASSUME IInv, [Next]_vars
             PROVE  NothingLost' /\ RecordedBeforeAck' /\ RowsDone'
  BY TypeStep DEF IInv
<1>inv. TypeOK /\ NothingLost /\ RecordedBeforeAck /\ RowsDone
  BY DEF IInv
<1>log. log \in Seq(Users) /\ Len(log) \in Nat /\ cut \in 0..Len(log)
  BY <1>inv DEF TypeOK
<1>parts. GroupOK /\ ProcessOK
  BY <1>inv DEF TypeOK, GroupOK, ProcessOK
\* A process goes elsewhere, or gives its batch back, and touches nothing.
<1>goto. ASSUME NEW w \in Workers, NEW pc \in Pcs \ {"ack", "fire", "rows"},
                Goto(w, pc), UNCHANGED << log, rows >>
         PROVE  RecordedBeforeAck' /\ RowsDone'
  <2>1. worker'[w].pc = pc /\ \A v \in Workers \ {w} : worker'[v] = worker[v]
    BY <1>goto, <1>parts DEF Goto, ProcessOK, WorkerState
  <2>2. worker'[w].pc \notin {"ack", "fire", "rows"}
    BY <2>1
  <2> QED
    BY <1>goto, <2>1, <2>2, <1>inv, OneMoves
<1>return. ASSUME NEW w \in Workers, Return(w), log' = log, rows \subseteq rows'
           PROVE  RecordedBeforeAck' /\ RowsDone'
  <2>1. /\ worker'[w].pc \notin {"ack", "fire", "rows"}
        /\ \A v \in Workers \ {w} : worker'[v] = worker[v]
    BY <1>return, <1>parts, ReturnOK
  <2> QED
    BY <1>return, <2>1, <1>inv, OneMoves
<1>take. ASSUME NEW w \in Workers, NEW ids \in SUBSET (1..Len(log)),
                NEW pc \in {"claim", "write"}, NEW back \in {"cycle", "read"},
                Take(w, ids, pc, back), UNCHANGED << log, rows >>
         PROVE  RecordedBeforeAck' /\ RowsDone'
  <2>1. pc \in Pcs /\ pc \notin {"ack", "fire", "rows"}
    BY DEF Pcs
  <2>2. /\ worker'[w].pc \notin {"ack", "fire", "rows"}
        /\ \A v \in Workers \ {w} : worker'[v] = worker[v]
    BY <1>take, <2>1, <1>parts DEF Take, ProcessOK
  <2> QED
    BY <1>take, <2>2, <1>inv, OneMoves
<1>same. ASSUME UNCHANGED << log, cut, delivered, pel >>, rows \subseteq rows'
         PROVE  NothingLost'
  BY <1>same, <1>inv DEF NothingLost
<1>new. ASSUME CreateGroup, UNCHANGED << log, cut, pel, rows >>
        PROVE  NothingLost'
  BY <1>new, <1>inv, <1>log DEF CreateGroup, GroupStart, NothingLost
<1>read. ASSUME delivered # NoGroup, delivered < Len(log), delivered' = ReadTo,
                pel' = pel \union ((delivered + 1)..ReadTo), UNCHANGED << log, cut, rows >>
         PROVE  NothingLost'
  <2>1. ReadTo \in Int /\ delivered \in Int /\ cut \in Int
    BY <1>inv, <1>log, WorkerAssumption DEF TypeOK, ReadTo, NoGroup
  <2> QED
    BY <1>read, <1>inv, <2>1 DEF NothingLost
<1>1. ASSUME NEW u \in Users, Add(u)
      PROVE  NothingLost' /\ RecordedBeforeAck' /\ RowsDone'
  <2>1. \A i \in 1..Len(log) : log'[i] = log[i]
    BY <1>1, <1>log DEF Add
  <2>2. delivered \in {NoGroup} \union (cut..Len(log))
        /\ \A w \in Workers : worker[w].batch \subseteq 1..Len(log)
    BY <1>inv DEF TypeOK
  <2>3. (cut + 1)..delivered \subseteq 1..Len(log)
    BY <2>2, <1>log DEF NoGroup
  <2>4. NothingLost'
    BY <1>1, <2>1, <2>3, <1>inv DEF Add, NothingLost
  <2>5. \A ids \in SUBSET (1..Len(log)) : { log'[i] : i \in ids } = UserIn(ids)
    BY <2>1 DEF UserIn
  <2>6. RecordedBeforeAck'
    BY <1>1, <2>2, <2>5, <1>inv DEF Add, RecordedBeforeAck, UserIn
  <2>7. RowsDone'
    BY <1>1, <2>2, <2>5, <1>inv DEF Add, RowsDone, UserIn
  <2> QED
    BY <2>4, <2>6, <2>7
<1>2. ASSUME Delete PROVE NothingLost' /\ RecordedBeforeAck' /\ RowsDone'
  BY <1>2, <1>log, <1>inv DEF Delete, NoGroup, NothingLost, RecordedBeforeAck, RowsDone, UserIn
<1>3. ASSUME NEW i \in pel, Idle(i) PROVE NothingLost' /\ RecordedBeforeAck' /\ RowsDone'
  BY <1>3, <1>inv DEF Idle, NothingLost, RecordedBeforeAck, RowsDone, UserIn
<1>4. ASSUME NEW w \in Workers, Crash(w)
      PROVE  NothingLost' /\ RecordedBeforeAck' /\ RowsDone'
  <2>1. worker'[w] = Down /\ \A v \in Workers \ {w} : worker'[v] = worker[v]
    BY <1>4, <1>parts DEF Crash, ProcessOK
  <2> QED
    BY <1>4, <2>1, <1>same, <1>inv, OneMoves DEF Crash, streamVars, Down
<1>5. ASSUME NEW w \in Workers, Start(w)
      PROVE  NothingLost' /\ RecordedBeforeAck' /\ RowsDone'
  BY <1>5, <1>goto, <1>new DEF Start, Pcs
<1>6. ASSUME NEW w \in Workers, NextCycle(w)
      PROVE  NothingLost' /\ RecordedBeforeAck' /\ RowsDone'
  <2>1. worker'[w].pc \in {"scan", "read"} /\ \A v \in Workers \ {w} : worker'[v] = worker[v]
    BY <1>6, <1>parts DEF NextCycle, ProcessOK, WorkerState
  <2> QED
    BY <1>6, <2>1, <1>same, <1>inv, OneMoves DEF NextCycle, streamVars
<1>7. ASSUME NEW w \in Workers, Scan(w)
      PROVE  NothingLost' /\ RecordedBeforeAck' /\ RowsDone'
  <2>1. Reclaimable \in SUBSET (1..Len(log))
    <3>1. pel \subseteq 1..Len(log) /\ stale \subseteq pel
      BY <1>inv, <1>log DEF TypeOK, NoGroup
    <3> QED
      BY <3>1 DEF Reclaimable
  <2> QED
    BY <1>7, <2>1, <1>goto, <1>take, <1>same DEF Scan, Pcs, streamVars
<1>8. ASSUME NEW w \in Workers, Claim(w)
      PROVE  NothingLost' /\ RecordedBeforeAck' /\ RowsDone'
  <2>1. worker[w].batch \intersect stale \in SUBSET (1..Len(log))
    BY <1>parts DEF ProcessOK
  <2> QED
    BY <1>8, <2>1, <1>return, <1>take, <1>same DEF Claim
<1>9. ASSUME NEW w \in Workers, Read(w)
      PROVE  NothingLost' /\ RecordedBeforeAck' /\ RowsDone'
  <2>1. (delivered + 1)..ReadTo \in SUBSET (1..Len(log))
    BY <1>9, <1>inv, <1>log, WorkerAssumption DEF Read, ReadTo, TypeOK, NoGroup
  <2> QED
    BY <1>9, <2>1, <1>take, <1>read DEF Read
<1>10. ASSUME NEW w \in Workers, ReadNothing(w)
       PROVE  NothingLost' /\ RecordedBeforeAck' /\ RowsDone'
  BY <1>10, <1>goto, <1>same DEF ReadNothing, streamVars, Pcs
<1>11. ASSUME NEW w \in Workers, ReadNoGroup(w)
       PROVE  NothingLost' /\ RecordedBeforeAck' /\ RowsDone'
  BY <1>11, <1>goto, <1>new DEF ReadNoGroup, Pcs
<1>12. ASSUME NEW w \in Workers, WriteBatch(w)
       PROVE  NothingLost' /\ RecordedBeforeAck' /\ RowsDone'
  <2>1. /\ worker'[w].pc = "ack" /\ worker'[w].batch = worker[w].batch
        /\ \A v \in Workers \ {w} : worker'[v] = worker[v]
    BY <1>12, <1>parts DEF WriteBatch, Goto, ProcessOK, WorkerState
  <2>2. RecordedBeforeAck' /\ RowsDone'
    BY <1>12, <2>1, <1>inv, OneMoves DEF WriteBatch, streamVars, UserIn
  <2> QED
    BY <1>12, <2>2, <1>same DEF WriteBatch, streamVars
<1>13. ASSUME NEW w \in Workers, RollbackBatch(w)
       PROVE  NothingLost' /\ RecordedBeforeAck' /\ RowsDone'
  <2>1. /\ worker'[w].pc = "rows" /\ worker'[w].todo = worker'[w].batch
        /\ \A v \in Workers \ {w} : worker'[v] = worker[v]
    BY <1>13, <1>parts DEF RollbackBatch, ProcessOK, WorkerState
  <2> QED
    BY <1>13, <2>1, <1>same, <1>inv, OneMoves DEF RollbackBatch, streamVars, UserIn
<1>14. ASSUME NEW w \in Workers, NEW i \in worker[w].todo, WriteRow(w, i)
       PROVE  NothingLost' /\ RecordedBeforeAck' /\ RowsDone'
  <2>1. /\ worker'[w].pc = (IF worker[w].todo = {i} THEN "ack" ELSE "rows")
        /\ worker'[w].todo = worker[w].todo \ {i} /\ worker'[w].batch = worker[w].batch
        /\ \A v \in Workers \ {w} : worker'[v] = worker[v]
    BY <1>14, <1>parts DEF WriteRow, ProcessOK, WorkerState
  <2>2. UserIn(worker[w].batch \ worker[w].todo) \subseteq rows
    BY <1>14, <1>inv DEF WriteRow, RowsDone
  <2>3. UserIn(worker[w].batch \ (worker[w].todo \ {i})) \subseteq rows \union {log[i]}
    BY <2>2 DEF UserIn
  <2>4. rows' = rows \union {log[i]} /\ UNCHANGED streamVars
    BY <1>14 DEF WriteRow
  <2>5. UserIn(worker[w].batch \ worker[w].todo)' \subseteq rows'
    BY <2>1, <2>3, <2>4 DEF UserIn, streamVars
  <2>6. worker'[w].pc = "ack" => worker'[w].batch \ worker'[w].todo = worker'[w].batch
    BY <2>1
  <2>7. worker'[w].pc \in {"ack", "fire"} => UserIn(worker[w].batch)' \subseteq rows'
    BY <2>1, <2>5, <2>6 DEF UserIn
  <2>8. RecordedBeforeAck' /\ RowsDone'
    BY <2>1, <2>4, <2>5, <2>7, <1>inv, OneMoves DEF streamVars
  <2> QED
    BY <2>4, <2>8, <1>same DEF streamVars
<1>15. ASSUME NEW w \in Workers, Ack(w)
       PROVE  NothingLost' /\ RecordedBeforeAck' /\ RowsDone'
  <2>1. UserIn(worker[w].batch) \subseteq rows
    BY <1>15, <1>inv DEF Ack, RecordedBeforeAck
  <2>2. NothingLost'
    BY <1>15, <2>1, <1>inv DEF Ack, NothingLost, UserIn
  <2>3. CASE NotifyEnabled
    <3>1. Goto(w, "fire") /\ UNCHANGED << log, rows >>
      BY <1>15, <2>3 DEF Ack
    <3>2. /\ worker'[w].pc = "fire" /\ worker'[w].batch = worker[w].batch
          /\ \A v \in Workers \ {w} : worker'[v] = worker[v]
      BY <3>1, <1>parts DEF Goto, ProcessOK, WorkerState
    <3> QED
      BY <3>1, <3>2, <2>1, <2>2, <1>inv, OneMoves DEF UserIn
  <2>4. CASE ~NotifyEnabled
    BY <1>15, <2>2, <2>4, <1>return DEF Ack
  <2> QED
    BY <2>3, <2>4
<1>16. ASSUME NEW w \in Workers, Fire(w)
       PROVE  NothingLost' /\ RecordedBeforeAck' /\ RowsDone'
  BY <1>16, <1>return, <1>same DEF Fire, streamVars
<1>17. ASSUME NEW w \in Workers, Fault(w)
       PROVE  NothingLost' /\ RecordedBeforeAck' /\ RowsDone'
  BY <1>17, <1>return, <1>goto, <1>same DEF Fault, streamVars, Pcs
<1>18. ASSUME NEW w \in Workers, ReadLost(w)
       PROVE  NothingLost' /\ RecordedBeforeAck' /\ RowsDone'
  BY <1>18, <1>goto, <1>read DEF ReadLost, Pcs
<1>19. ASSUME NEW w \in Workers, AnswerLost(w)
       PROVE  NothingLost' /\ RecordedBeforeAck' /\ RowsDone'
  <2>1. Return(w) /\ rows \subseteq rows' /\ UNCHANGED << log, cut, delivered >>
    BY <1>19 DEF AnswerLost
  <2>2. NothingLost'
    <3>1. CASE pel' = pel
      BY <2>1, <3>1, <1>same
    <3>2. CASE worker[w].pc = "ack" /\ pel' = pel \ worker[w].batch
      <4>1. UserIn(worker[w].batch) \subseteq rows
        BY <3>2, <1>inv DEF RecordedBeforeAck
      <4> QED
        BY <2>1, <3>2, <4>1, <1>inv DEF NothingLost, UserIn
    <3> QED
      BY <1>19, <3>1, <3>2 DEF AnswerLost
  <2> QED
    BY <2>1, <2>2, <1>return
<1>20. CASE UNCHANGED vars
  BY <1>20, <1>inv DEF vars, streamVars, NothingLost, RecordedBeforeAck, RowsDone, UserIn
<1> QED
  BY <1>1, <1>2, <1>3, <1>4, <1>5, <1>6, <1>7, <1>8, <1>9, <1>10, <1>11, <1>12, <1>13, <1>14,
     <1>15, <1>16, <1>17, <1>18, <1>19, <1>20 DEF Next, Step

\* No group, no rows, every process down.
LEMMA Initially == Init => IInv
<1> SUFFICES ASSUME Init PROVE IInv
  OBVIOUS
<1>1. Down \in WorkerState /\ Down.todo = {} /\ Down.batch = {} /\ Down.pc = "down"
  BY WorkerAssumption DEF Down, WorkerState, Pcs
<1>2. TypeOK
  <2>1. log = << >> /\ log \in Seq(Users) /\ Len(log) = 0
    BY DEF Init
  <2> QED
    BY <2>1, <1>1, WorkerAssumption DEF Init, TypeOK, NoGroup
<1>3. NothingLost /\ RecordedBeforeAck /\ RowsDone
  BY <1>1 DEF Init, NothingLost, RecordedBeforeAck, RowsDone, NoGroup
<1> QED
  BY <1>2, <1>3 DEF IInv

-----------------------------------------------------------------------------
\* The strengthened invariant holds in every reachable state.
THEOREM Invariance == Spec => []IInv
  BY Initially, Inductive, PTL DEF Spec

\* The worker never reads past the end of the stream, never holds an entry
\* that was not added, and the group never owes what it has not delivered.
THEOREM TypeCorrect == Spec => []TypeOK
<1>1. IInv => TypeOK
  BY DEF IInv
<1> QED
  BY <1>1, Invariance, PTL

\* No crash, failed call or deletion of the stream, at any point of the loop,
\* loses an entry the group has handed out: it is pending or in the table.
THEOREM Lossless == Spec => []NothingLost
<1>1. IInv => NothingLost
  BY DEF IInv
<1> QED
  BY <1>1, Invariance, PTL

\* XACK and the notifications come after the rows, also when the batch had to
\* be written row by row.
THEOREM RecordedFirst == Spec => []RecordedBeforeAck
<1>1. IInv => RecordedBeforeAck
  BY DEF IInv
<1> QED
  BY <1>1, Invariance, PTL

\* The entries notified for stay recorded: only Fire adds any, and those are
\* a batch that was acknowledged.
LEMMA NotifiedStep == IInv /\ NotifiedAreRecorded /\ [Next]_vars => NotifiedAreRecorded'
<1> SUFFICES ASSUME IInv, NotifiedAreRecorded, [Next]_vars PROVE NotifiedAreRecorded'
  OBVIOUS
<1>inv. TypeOK /\ RecordedBeforeAck
  BY DEF IInv
<1>1. ASSUME NEW u \in Users, Add(u) PROVE NotifiedAreRecorded'
  <2>1. fired \subseteq 1..Len(log) /\ \A i \in 1..Len(log) : log'[i] = log[i]
    BY <1>1, <1>inv DEF Add, TypeOK
  <2> QED
    BY <1>1, <2>1 DEF Add, NotifiedAreRecorded, UserIn
<1>2. ASSUME NEW w \in Workers, Fire(w) PROVE NotifiedAreRecorded'
  <2>1. UserIn(worker[w].batch) \subseteq rows
    BY <1>2, <1>inv DEF Fire, RecordedBeforeAck
  <2> QED
    BY <1>2, <2>1 DEF Fire, streamVars, NotifiedAreRecorded, UserIn
<1>3. ASSUME UNCHANGED << log, fired >>, rows \subseteq rows' PROVE NotifiedAreRecorded'
  BY <1>3 DEF NotifiedAreRecorded, UserIn
<1>4. ASSUME Delete \/ UNCHANGED vars \/ \E i \in pel : Idle(i) PROVE NotifiedAreRecorded'
  BY <1>3, <1>4 DEF Delete, Idle, vars, streamVars
<1>5. ASSUME NEW w \in Workers,
             \/ Start(w) \/ Crash(w) \/ Fault(w) \/ AnswerLost(w) \/ ReadLost(w)
             \/ NextCycle(w) \/ Scan(w) \/ Claim(w)
      PROVE NotifiedAreRecorded'
  BY <1>3, <1>5 DEF Start, Crash, Fault, AnswerLost, ReadLost, NextCycle, Scan, Claim,
     CreateGroup, streamVars
<1>6. ASSUME NEW w \in Workers,
             \/ Read(w) \/ ReadNothing(w) \/ ReadNoGroup(w) \/ WriteBatch(w)
             \/ RollbackBatch(w) \/ Ack(w) \/ \E i \in worker[w].todo : WriteRow(w, i)
      PROVE NotifiedAreRecorded'
  BY <1>3, <1>6 DEF Read, ReadNothing, ReadNoGroup, WriteBatch, RollbackBatch, WriteRow, Ack,
     CreateGroup, streamVars
<1> QED
  BY <1>1, <1>2, <1>4, <1>5, <1>6 DEF Next, Step

\* Nobody is told of a coupon that is not in coupon_issue.
THEOREM NotifiedLast == Spec => []NotifiedAreRecorded
<1>1. Init => NotifiedAreRecorded
  BY DEF Init, NotifiedAreRecorded, UserIn
<1> QED
  BY <1>1, Invariance, NotifiedStep, PTL DEF Spec

-----------------------------------------------------------------------------
(* The Kafka workers, and either deployment: in mode "stream" the invariant *)
(* is the one above.                                                        *)

TopicOK ==
    /\ log \in Seq(Users) /\ rows \subseteq Users
    /\ unreadable \subseteq 1..Len(log)
    /\ committed \in {NoOffset} \union (0..Len(log))
    /\ budget \in [crashes : Nat, faults : Nat, deletes : Nat]

\* A listener's state is well formed, and what it is past is settled.
ListenerOK(c) ==
    /\ c \in ConsumerState
    /\ c.pos <= Len(log) /\ c.batch \subseteq 1..c.pos
    /\ c.todo \subseteq c.batch \ unreadable
    /\ c.pc \in {"down", "poll"} => c.batch = {}
    /\ \A i \in (1..c.pos) \ c.batch : Settled(i)
    /\ c.pc = "rows" => \A i \in c.batch \ c.todo : Settled(i)
    /\ c.pc = "ack" => \A i \in c.batch : Settled(i)

ListenersOK ==
    /\ DOMAIN consumer = Workers /\ consumer = [w \in Workers |-> consumer[w]]
    /\ \A w \in Workers : ListenerOK(consumer[w])

\* The consumer group of the stream does not exist.
NoStream ==
    /\ cut = 0 /\ delivered = NoGroup /\ pel = {} /\ stale = {} /\ fired = {}
    /\ worker = [w \in Workers |-> Down]

KafkaInv == NoStream /\ TopicOK /\ ListenersOK /\ CommittedIsSettled

WorkersInv ==
    /\ mode \in {"stream", "kafka"}
    /\ mode = "stream" => IInv /\ NotifiedAreRecorded /\ committed = NoOffset
    /\ mode = "kafka" => KafkaInv

-----------------------------------------------------------------------------
(* What is settled stays settled.                                          *)

\* The topic, the table and the records of what was given up only grow.
Grows ==
    /\ Len(log') \in Nat /\ Len(log) <= Len(log')
    /\ \A i \in 1..Len(log) : log'[i] = log[i]
    /\ rows \subseteq rows' /\ unreadable \subseteq unreadable' /\ skipped \subseteq skipped'
    /\ \A i \in 1..Len(log) : i \in unreadable' => i \in unreadable

\* The log is never rewritten, so neither is what became of an offset.
LEMMA SettledStays ==
  ASSUME TopicOK, Grows
  PROVE  \A i \in 1..Len(log) : Settled(i) => Settled(i)'
  BY DEF Grows, Settled

\* So a listener that does not move stays well formed.
LEMMA ListenerStays ==
  ASSUME TopicOK, Grows, NEW c, ListenerOK(c)
  PROVE  /\ c \in ConsumerState
         /\ c.pos <= Len(log') /\ c.batch \subseteq 1..c.pos
         /\ c.todo \subseteq c.batch \ unreadable'
         /\ c.pc \in {"down", "poll"} => c.batch = {}
         /\ \A i \in (1..c.pos) \ c.batch : Settled(i)'
         /\ c.pc = "rows" => \A i \in c.batch \ c.todo : Settled(i)'
         /\ c.pc = "ack" => \A i \in c.batch : Settled(i)'
<1>1. c.pos \in Nat /\ Len(log) \in Nat /\ c.pos <= Len(log) /\ c.batch \subseteq 1..c.pos
  BY DEF ListenerOK, ConsumerState, TopicOK
<1>2. (1..c.pos) \subseteq 1..Len(log)
  BY <1>1
<1>3. c.pos <= Len(log')
  BY <1>1 DEF Grows
<1>4. c.todo \subseteq c.batch \ unreadable'
  BY <1>1, <1>2 DEF ListenerOK, Grows
<1> QED
  BY <1>1, <1>2, <1>3, <1>4, SettledStays DEF ListenerOK

\* A step of one listener: the others stay as they are.
LEMMA OneListener ==
  ASSUME TopicOK, Grows, ListenersOK, NEW w \in Workers, NEW c,
         consumer' = [consumer EXCEPT ![w] = c], ListenerOK(consumer[w])'
  PROVE  ListenersOK'
<1>1. /\ DOMAIN consumer' = Workers /\ consumer' = [v \in Workers |-> consumer'[v]]
      /\ \A v \in Workers \ {w} : consumer'[v] = consumer[v]
  BY DEF ListenersOK
<1>2. ASSUME NEW v \in Workers \ {w} PROVE ListenerOK(consumer[v])'
  <2>1. ListenerOK(consumer[v]) /\ consumer'[v] = consumer[v]
    BY <1>1 DEF ListenersOK
  <2> QED
    BY <2>1, ListenerStays DEF ListenerOK
<1> QED
  BY <1>1, <1>2 DEF ListenersOK

-----------------------------------------------------------------------------
\* A message is added: it is beyond every position.
LEMMA PublishKeeps ==
  ASSUME KafkaInv, NEW u \in Users, Publish(u)
  PROVE  KafkaInv'
<1>1. /\ log \in Seq(Users) /\ Len(log) \in Nat /\ log' = Append(log, u)
      /\ UNCHANGED << cut, delivered, pel, stale, rows, fired, worker, budget >>
      /\ UNCHANGED << owner, committed, skipped, consumer, spent >>
      /\ \/ unreadable' = unreadable
         \/ unreadable' = unreadable \union {Len(log) + 1}
  BY DEF KafkaInv, TopicOK, Publish, Add
<1>2. /\ log' \in Seq(Users) /\ Len(log') = Len(log) + 1
      /\ \A i \in 1..Len(log) : log'[i] = log[i]
  BY <1>1
<1>3. unreadable \subseteq 1..Len(log)
  BY DEF KafkaInv, TopicOK
<1>4. Grows
  BY <1>1, <1>2, <1>3 DEF Grows
<1>5. TopicOK'
  <2>1. unreadable' \subseteq 1..Len(log')
    <3>1. 1..Len(log) \subseteq 1..Len(log') /\ Len(log) + 1 \in 1..Len(log')
      BY <1>1, <1>2
    <3> QED
      BY <1>1, <1>3, <3>1
  <2>2. committed' \in {NoOffset} \union (0..Len(log'))
    BY <1>1, <1>2 DEF KafkaInv, TopicOK
  <2> QED
    BY <1>1, <1>2, <2>1, <2>2 DEF KafkaInv, TopicOK
<1>6. ListenersOK'
  BY <1>1, <1>4, ListenerStays DEF KafkaInv, ListenersOK, ListenerOK
<1>7. CommittedIsSettled'
  <2>1. 1..committed \subseteq 1..Len(log)
    BY <1>1 DEF KafkaInv, TopicOK, NoOffset
  <2> QED
    BY <1>1, <1>4, <2>1, SettledStays DEF KafkaInv, CommittedIsSettled
<1> QED
  BY <1>1, <1>5, <1>6, <1>7 DEF KafkaInv, NoStream

\* A step of a listener that leaves the log alone preserves the invariant if it
\* leaves that listener well formed and commits only what is settled.
LEMMA ListenerKeeps ==
  ASSUME KafkaInv, UNCHANGED streamOnly, UNCHANGED << log, unreadable >>,
         rows \subseteq rows', rows' \subseteq Users,
         skipped \subseteq skipped', budget' \in [crashes : Nat, faults : Nat, deletes : Nat],
         NEW w \in Workers, NEW c, consumer' = [consumer EXCEPT ![w] = c],
         ListenerOK(consumer[w])',
         \/ committed' = committed
         \/ committed' \in 0..Len(log) /\ \A i \in 1..committed' : Settled(i)'
  PROVE  KafkaInv'
<1>1. Grows
  BY DEF KafkaInv, TopicOK, Grows
<1>2. TopicOK'
  BY DEF KafkaInv, TopicOK
<1>3. ListenersOK'
  BY <1>1, OneListener DEF KafkaInv
<1>4. CommittedIsSettled'
  <2>1. CASE committed' = committed
    <3>1. 1..committed \subseteq 1..Len(log)
      BY DEF KafkaInv, TopicOK, NoOffset
    <3> QED
      BY <1>1, <2>1, <3>1, SettledStays DEF KafkaInv, CommittedIsSettled
  <2> QED
    BY <2>1 DEF CommittedIsSettled
<1> QED
  BY <1>2, <1>3, <1>4 DEF KafkaInv, NoStream, streamOnly

\* Each step of a listener.
LEMMA KafkaStepKeeps ==
  ASSUME KafkaInv, KafkaStep, UNCHANGED streamOnly
  PROVE  KafkaInv'
<1>typ. /\ log \in Seq(Users) /\ Len(log) \in Nat /\ rows \subseteq Users
        /\ budget \in [crashes : Nat, faults : Nat, deletes : Nat]
        /\ unreadable \subseteq 1..Len(log) /\ committed \in {NoOffset} \union (0..Len(log))
  BY DEF KafkaInv, TopicOK
<1>users. \A ids \in SUBSET (1..Len(log)) : UserIn(ids) \subseteq Users
  BY <1>typ DEF UserIn
<1>con. \A v \in Workers : /\ ListenerOK(consumer[v]) /\ v \in DOMAIN consumer
                           /\ consumer[v].batch \subseteq 1..Len(log)
                           /\ consumer[v].pos \in 0..Len(log)
  BY <1>typ DEF KafkaInv, ListenersOK, ListenerOK, ConsumerState
<1>1. ASSUME NEW w \in Workers, StartListener(w) PROVE KafkaInv'
  <2>1. /\ consumer' = [consumer EXCEPT ![w] = [consumer[w] EXCEPT !.pc = "poll"]]
        /\ UNCHANGED << log, rows, budget, unreadable, owner, committed, skipped, spent >>
    BY <1>1, <1>con DEF StartListener, ConsumerGoto
  <2>2. ListenerOK(consumer[w])'
    BY <1>1, <2>1, <1>con DEF StartListener, ListenerOK, ConsumerState, Settled
  <2> QED
    BY <2>1, <2>2, <1>typ, ListenerKeeps
<1>2. ASSUME NEW w \in Workers, Assign(w) PROVE KafkaInv'
  <2> DEFINE from == IF committed = NoOffset THEN FirstOffset ELSE committed
  <2>1. /\ consumer' = [consumer EXCEPT ![w] = [consumer[w] EXCEPT !.pos = from]]
        /\ UNCHANGED << log, rows, budget, unreadable, committed, skipped >>
        /\ consumer[w].pc = "poll"
    BY <1>2, <1>con DEF Assign
  <2>2. from \in 0..Len(log) /\ \A i \in 1..from : Settled(i)
    BY <1>typ DEF FirstOffset, NoOffset, KafkaInv, CommittedIsSettled
  <2>3. ListenerOK(consumer[w])'
    <3> HIDE DEF from
    <3> QED
      BY <2>1, <2>2, <1>con DEF ListenerOK, ConsumerState, Settled
  <2> QED
    BY <2>1, <2>3, <1>typ, ListenerKeeps
<1>3. ASSUME NEW w \in Workers, Poll(w) PROVE KafkaInv'
  <2> DEFINE from == consumer[w].pos
             to == IF from + BatchSize < Len(log) THEN from + BatchSize ELSE Len(log)
             c == [pc |-> "write", pos |-> to, batch |-> (from + 1)..to,
                   todo |-> {}, tries |-> 0]
  <2>1. /\ consumer' = [consumer EXCEPT ![w] = c] /\ consumer[w].pc = "poll"
        /\ UNCHANGED << log, rows, budget, unreadable, owner, committed, skipped, spent >>
    BY <1>3 DEF Poll
  <2>2. from \in Nat /\ to \in Nat /\ from <= to /\ to <= Len(log)
    BY <1>3, <1>con, <1>typ, WorkerAssumption DEF Poll
  <2>3. \A i \in 1..from : Settled(i)
    BY <2>1, <1>con DEF ListenerOK
  <2>4. ListenerOK(c)
    <3> HIDE DEF from, to
    <3>1. (from + 1)..to \in SUBSET Nat
      BY <2>2
    <3>2. c \in ConsumerState
      BY <2>2, <3>1 DEF ConsumerState
    <3>3. \A i \in (1..to) \ ((from + 1)..to) : Settled(i)
      BY <2>2, <2>3
    <3> QED
      BY <2>2, <3>2, <3>3 DEF ListenerOK
  <2>5. ListenerOK(consumer[w])'
    BY <2>1, <2>4, <1>con DEF ListenerOK, Settled
  <2> QED
    BY <2>1, <2>5, <1>typ, ListenerKeeps
<1>4. ASSUME NEW w \in Workers, PollNothing(w) PROVE KafkaInv'
  BY <1>4 DEF PollNothing, kafkaVars, streamOnly, KafkaInv, NoStream, TopicOK, ListenersOK,
     ListenerOK, CommittedIsSettled, Settled
<1>5. ASSUME NEW w \in Workers, ListenerWrites(w) PROVE KafkaInv'
  <2>1. /\ consumer' = [consumer EXCEPT ![w] = [consumer[w] EXCEPT !.pc = "ack"]]
        /\ rows' = rows \union UserIn(Parsed(w))
        /\ UNCHANGED << log, budget, unreadable, owner, committed, skipped, spent >>
    BY <1>5, <1>con DEF ListenerWrites, ConsumerGoto
  <2>2. rows' \subseteq Users
    BY <2>1, <1>con, <1>typ, <1>users DEF Parsed
  <2>3. \A i \in consumer[w].batch : Settled(i)'
    BY <2>1 DEF Settled, UserIn, Parsed
  <2>4. ListenerOK(consumer[w])'
    BY <2>1, <2>3, <1>con DEF ListenerOK, ConsumerState, Settled
  <2> QED
    BY <2>1, <2>2, <2>4, <1>typ, ListenerKeeps
<1>6. ASSUME NEW w \in Workers, ListenerRollsBack(w) PROVE KafkaInv'
  <2>1. /\ consumer' = [consumer EXCEPT ![w] =
                           [consumer[w] EXCEPT !.pc = "rows", !.todo = Parsed(w)]]
        /\ UNCHANGED << log, rows, budget, unreadable, owner, committed, skipped, spent >>
    BY <1>6, <1>con DEF ListenerRollsBack
  <2>2. /\ Parsed(w) \in SUBSET Nat /\ Parsed(w) \subseteq consumer[w].batch \ unreadable
        /\ \A i \in consumer[w].batch \ Parsed(w) : Settled(i)
    BY <1>con DEF Parsed, Settled, ListenerOK, ConsumerState
  <2>3. ListenerOK(consumer[w])'
    BY <2>1, <2>2, <1>con DEF ListenerOK, ConsumerState, Settled
  <2> QED
    BY <2>1, <2>3, <1>typ, ListenerKeeps
<1>7. ASSUME NEW w \in Workers, NEW i \in consumer[w].todo, ListenerWritesRow(w, i)
      PROVE KafkaInv'
  <2> DEFINE c == consumer[w]
             pc == IF c.todo = {i} THEN "ack" ELSE "rows"
  <2>1. /\ consumer' = [consumer EXCEPT ![w] = [c EXCEPT !.todo = c.todo \ {i}, !.pc = pc]]
        /\ c.pc = "rows" /\ rows' = rows \union {log[i]}
        /\ UNCHANGED << log, budget, unreadable, owner, committed, skipped, spent >>
    BY <1>7, <1>con DEF ListenerWritesRow
  <2>2. i \in c.batch /\ i \in 1..Len(log) /\ log[i] \in Users
    BY <1>con, <1>typ DEF ListenerOK
  <2>3. rows' \subseteq Users
    BY <2>1, <2>2, <1>typ
  <2>4. /\ \A j \in c.batch \ (c.todo \ {i}) : Settled(j)'
        /\ c.todo = {i} => \A j \in c.batch : Settled(j)'
    BY <2>1, <1>con DEF ListenerOK, Settled
  <2>5. ListenerOK(consumer[w])'
    BY <2>1, <2>4, <1>con DEF ListenerOK, ConsumerState, Settled
  <2> QED
    BY <2>1, <2>3, <2>5, <1>typ, ListenerKeeps
<1>idle. ASSUME NEW c, c \in ConsumerState, c.pos <= Len(log), \A i \in 1..c.pos : Settled(i),
                NEW d, d = [pc |-> "poll", pos |-> c.pos, batch |-> {}, todo |-> {}, tries |-> 0]
         PROVE  ListenerOK(d)
  BY <1>idle DEF ListenerOK, ConsumerState
<1>8. ASSUME NEW w \in Workers, Acknowledge(w) PROVE KafkaInv'
  <2> DEFINE d == [pc |-> "poll", pos |-> consumer[w].pos, batch |-> {}, todo |-> {},
                   tries |-> 0]
  <2>1. /\ consumer[w].pc = "ack" /\ consumer' = [consumer EXCEPT ![w] = d]
        /\ UNCHANGED << log, rows, budget, unreadable, owner, skipped, spent >>
        /\ committed' = committed \/ committed' = consumer[w].pos
    BY <1>8, <1>con DEF Acknowledge, NextPoll
  <2>2. \A i \in 1..consumer[w].pos : Settled(i)
    BY <2>1, <1>con DEF ListenerOK
  <2>3. ListenerOK(d)
    BY <2>2, <1>con, <1>idle DEF ListenerOK
  <2>4. ListenerOK(consumer[w])'
    BY <2>1, <2>3, <1>con DEF ListenerOK, Settled
  <2>5. \/ committed' = committed
        \/ committed' \in 0..Len(log) /\ \A i \in 1..committed' : Settled(i)'
    BY <2>1, <2>2, <1>con DEF Settled
  <2> QED
    BY <2>1, <2>4, <2>5, <1>typ, ListenerKeeps
<1>9. ASSUME NEW w \in Workers, ListenerFails(w) PROVE KafkaInv'
  <2> DEFINE c == consumer[w]
  <2>0. PICK done \in SUBSET (1..Len(log)) : rows' = rows \union UserIn(done)
    <3>1. Parsed(w) \subseteq 1..Len(log) /\ \A i \in c.todo : i \in 1..Len(log)
      BY <1>con DEF Parsed, ListenerOK
    <3> QED
      BY <1>9, <3>1 DEF ListenerFails
  <2>1. /\ rows \subseteq rows' /\ rows' \subseteq Users
        /\ UNCHANGED << log, budget, unreadable, owner >>
    BY <1>9, <2>0, <1>typ, <1>users DEF ListenerFails
  <2>2. ASSUME consumer' = [consumer EXCEPT ![w].pc = "write", ![w].todo = {},
                                            ![w].tries = c.tries + 1],
               UNCHANGED << committed, skipped >>, c.pc \in {"write", "rows"}
        PROVE  KafkaInv'
    <3>1. consumer' = [consumer EXCEPT ![w] =
                          [c EXCEPT !.pc = "write", !.todo = {}, !.tries = c.tries + 1]]
      BY <2>2, <1>con
    <3>2. ListenerOK(consumer[w])'
      BY <2>1, <2>2, <3>1, <1>con DEF ListenerOK, ConsumerState, Settled
    <3> QED
      BY <2>1, <2>2, <3>1, <3>2, <1>typ, ListenerKeeps
  <2>3. ASSUME NextPoll(w), skipped' = skipped \union c.batch,
               committed' = committed \/ committed' = c.pos
        PROVE  KafkaInv'
    <3> DEFINE d == [pc |-> "poll", pos |-> c.pos, batch |-> {}, todo |-> {}, tries |-> 0]
    <3>1. consumer' = [consumer EXCEPT ![w] = d]
      BY <2>3, <1>con DEF NextPoll
    <3>2. \A i \in 1..c.pos : Settled(i)'
      BY <2>1, <2>3, <1>con DEF ListenerOK, Settled
    <3>3. ListenerOK(consumer[w])'
      BY <2>1, <3>1, <3>2, <1>con DEF ListenerOK, ConsumerState
    <3>4. \/ committed' = committed
          \/ committed' \in 0..Len(log) /\ \A i \in 1..committed' : Settled(i)'
      BY <2>3, <3>2, <1>con
    <3> QED
      BY <2>1, <2>3, <3>1, <3>3, <3>4, <1>typ, ListenerKeeps
  <2> QED
    BY <1>9, <2>2, <2>3 DEF ListenerFails
<1>10. ASSUME NEW w \in Workers, StopListener(w) PROVE KafkaInv'
  <2>1. /\ consumer' = [consumer EXCEPT ![w] = Stopped]
        /\ budget' \in [crashes : Nat, faults : Nat, deletes : Nat]
        /\ UNCHANGED << log, rows, unreadable, committed, skipped, spent >>
    BY <1>10, <1>typ DEF StopListener
  <2>2. ListenerOK(consumer[w])'
    BY <2>1, <1>con, <1>typ DEF ListenerOK, ConsumerState, Stopped
  <2> QED
    BY <2>1, <2>2, <1>typ, ListenerKeeps
<1> QED
  BY <1>1, <1>2, <1>3, <1>4, <1>5, <1>6, <1>7, <1>8, <1>9, <1>10 DEF KafkaStep, ListenerStep

-----------------------------------------------------------------------------
\* One inductive step of a deployment: of its own worker, or of the producer.
LEMMA WorkersInductive == WorkersInv /\ [WorkersNext]_workerVars => WorkersInv'
<1> SUFFICES ASSUME WorkersInv, [WorkersNext]_workerVars PROVE WorkersInv'
  OBVIOUS
<1>1. CASE InStream(Next)
  <2>1. /\ mode = "stream" /\ Next /\ mode' = "stream" /\ committed' = committed
        /\ IInv /\ NotifiedAreRecorded /\ committed = NoOffset
    BY <1>1 DEF InStream, kafkaVars, WorkersInv
  <2> QED
    BY <2>1, Inductive, NotifiedStep DEF WorkersInv
<1>2. CASE InKafka(KafkaStep)
  BY <1>2, KafkaStepKeeps DEF InKafka, WorkersInv
<1>3. CASE \E u \in Users : mode = "kafka" /\ Publish(u) /\ UNCHANGED mode
  BY <1>3, PublishKeeps DEF WorkersInv
<1>4. CASE UNCHANGED workerVars
  <2>1. CASE mode = "stream"
    BY <1>4, <2>1, Inductive, NotifiedStep DEF WorkersInv, workerVars, kafkaVars
  <2>2. CASE mode = "kafka"
    BY <1>4, <2>2 DEF WorkersInv, workerVars, kafkaVars, vars, streamVars, KafkaInv, NoStream,
       TopicOK, ListenersOK, ListenerOK, CommittedIsSettled, Settled
  <2> QED
    BY <2>1, <2>2 DEF WorkersInv
<1> QED
  BY <1>1, <1>2, <1>3, <1>4 DEF WorkersNext

\* No group, an empty topic, every listener down.
LEMMA WorkersInitially == WorkersInit => WorkersInv
<1> SUFFICES ASSUME WorkersInit PROVE WorkersInv
  OBVIOUS
<1>1. IInv /\ NotifiedAreRecorded
  BY Initially DEF WorkersInit, Init, NotifiedAreRecorded, UserIn
<1>2. log = << >> /\ log \in Seq(Users) /\ Len(log) = 0
  BY DEF WorkersInit, Init
<1>3. TopicOK /\ NoStream /\ CommittedIsSettled
  BY <1>2, WorkerAssumption
     DEF WorkersInit, Init, TopicOK, NoStream, NoOffset, CommittedIsSettled
<1>4. \A w \in Workers : ListenerOK(consumer[w])
  BY <1>2 DEF WorkersInit, ListenerOK, ConsumerState, Stopped
<1> QED
  BY <1>1, <1>3, <1>4 DEF WorkersInit, WorkersInv, KafkaInv, ListenersOK

\* The strengthened invariant holds in every reachable state.
THEOREM WorkersInvariance == WorkersSpec => []WorkersInv
  BY WorkersInitially, WorkersInductive, PTL DEF WorkersSpec

\* No message of the topic is ever passed over: what the group has committed is
\* in coupon_issue, could not be parsed, or was skipped after all its attempts.
\* So an acknowledgement that follows a crash or a rebalance may be lost, but
\* none comes too early, however the partition moves.
THEOREM CommittedSettled == WorkersSpec => []CommittedIsSettled
<1>1. WorkersInv => CommittedIsSettled
  BY DEF WorkersInv, KafkaInv, CommittedIsSettled, NoOffset
<1> QED
  BY <1>1, WorkersInvariance, PTL

\* The promises of the stream worker hold in a deployment of either mode: in
\* mode "kafka" there is no consumer group, and the stream worker is not there.
THEOREM StreamSafe ==
  WorkersSpec => [](TypeOK /\ NothingLost /\ RecordedBeforeAck /\ NotifiedAreRecorded)
<1>1. KafkaInv => NothingLost /\ RecordedBeforeAck /\ NotifiedAreRecorded
  BY DEF KafkaInv, NoStream, NoGroup, Down, NothingLost, RecordedBeforeAck,
     NotifiedAreRecorded, UserIn
<1>2. KafkaInv => TypeOK
  <2>1. Down \in WorkerState /\ Down.todo = {} /\ Down.batch = {}
    BY WorkerAssumption DEF Down, WorkerState, Pcs
  <2> QED
    BY <2>1 DEF KafkaInv, NoStream, TopicOK, NoGroup, TypeOK
<1>3. WorkersInv => TypeOK /\ NothingLost /\ RecordedBeforeAck /\ NotifiedAreRecorded
  BY <1>1, <1>2 DEF WorkersInv, IInv
<1> QED
  BY <1>3, WorkersInvariance, PTL

-----------------------------------------------------------------------------
(* Where the rows come from.                                                *)

\* Every row stands for an entry that somebody put on the stream or the topic,
\* and that could be read.
RecordedWereSent == rows \subseteq UserIn(1..Len(log) \ unreadable)

\* A step keeps it that leaves the entries there are alone and takes its rows from
\* what it has of them.
LEMMA SentStays ==
  ASSUME RecordedWereSent, log \in Seq(Users), Len(log') \in Nat, Len(log) <= Len(log'),
         \A i \in 1..Len(log) : log'[i] = log[i],
         \A i \in 1..Len(log) : i \in unreadable' => i \in unreadable,
         NEW ids \in SUBSET (1..Len(log) \ unreadable), rows' \subseteq rows \union UserIn(ids)
  PROVE  RecordedWereSent'
<1>1. 1..Len(log) \subseteq 1..Len(log')
  OBVIOUS
<1>2. \A i \in 1..Len(log) \ unreadable :
        i \in 1..Len(log') \ unreadable' /\ log'[i] = log[i]
  BY <1>1
<1> QED
  BY <1>2 DEF RecordedWereSent, UserIn

\* A stream worker writes rows of the batch it was handed, or of what is left of it.
LEMMA SentStreamStep ==
  ASSUME TypeOK, RecordedWereSent, unreadable = {}, UNCHANGED unreadable, Next
  PROVE  RecordedWereSent'
<1>1. /\ log \in Seq(Users) /\ Len(log) \in Nat
      /\ \A w \in Workers : /\ worker[w].batch \subseteq 1..Len(log)
                            /\ worker[w].todo \subseteq 1..Len(log)
  BY DEF TypeOK
<1>2. ASSUME UNCHANGED log, NEW ids \in SUBSET (1..Len(log)),
             rows' \subseteq rows \union UserIn(ids)
      PROVE  RecordedWereSent'
  <2>1. Len(log') \in Nat /\ Len(log) <= Len(log')
    BY <1>1, <1>2
  <2>2. /\ \A i \in 1..Len(log) : log'[i] = log[i]
        /\ \A i \in 1..Len(log) : i \in unreadable' => i \in unreadable
    BY <1>2
  <2>3. ids \in SUBSET (1..Len(log) \ unreadable)
    BY <1>2
  <2> QED
    BY <1>1, <1>2, <2>1, <2>2, <2>3, SentStays, Zenon
<1>3. ASSUME NEW w \in Workers, Step(w) \/ AnswerLost(w) PROVE RecordedWereSent'
  <2>1. /\ UNCHANGED log
        /\ \/ UNCHANGED rows
           \/ rows' = rows \union UserIn(worker[w].batch)
           \/ \E i \in worker[w].todo : rows' = rows \union {log[i]}
    BY <1>3 DEF Step, NextCycle, Scan, Claim, Read, ReadNothing, ReadNoGroup, WriteBatch,
       RollbackBatch, WriteRow, Ack, Fire, AnswerLost, streamVars
  <2>2. CASE rows' = rows \union UserIn(worker[w].batch)
    BY <1>1, <1>2, <2>1, <2>2
  <2>3. ASSUME NEW i \in worker[w].todo, rows' = rows \union {log[i]}
        PROVE  RecordedWereSent'
    <3>1. rows' \subseteq rows \union UserIn(worker[w].todo)
      BY <2>3 DEF UserIn
    <3> QED
      BY <1>1, <1>2, <2>1, <3>1
  <2>4. CASE UNCHANGED rows
    BY <1>2, <2>1, <2>4
  <2> QED
    BY <2>1, <2>2, <2>3, <2>4
<1>4. ASSUME NEW u \in Users, Add(u) PROVE RecordedWereSent'
  <2>1. /\ Len(log') = Len(log) + 1 /\ rows' \subseteq rows \union UserIn({})
        /\ \A i \in 1..Len(log) : log'[i] = log[i]
    BY <1>1, <1>4 DEF Add
  <2>2. {} \in SUBSET (1..Len(log) \ unreadable)
    OBVIOUS
  <2>3. Len(log') \in Nat /\ Len(log) <= Len(log')
    BY <1>1, <2>1
  <2>4. \A i \in 1..Len(log) : i \in unreadable' => i \in unreadable
    OBVIOUS
  <2> QED
    BY <1>1, <2>1, <2>2, <2>3, <2>4, SentStays, Zenon
<1>5. ASSUME \/ Delete
             \/ \E i \in pel : Idle(i)
             \/ \E w \in Workers : Start(w) \/ Crash(w) \/ Fault(w) \/ ReadLost(w)
      PROVE  RecordedWereSent'
  <2>1. UNCHANGED << log, rows >>
    BY <1>5 DEF Delete, Idle, Start, Crash, Fault, ReadLost, streamVars
  <2> QED
    BY <2>1 DEF RecordedWereSent, UserIn
<1> QED
  BY <1>3, <1>4, <1>5 DEF Next

\* A listener writes rows of what it could parse, even if it fails afterwards.
LEMMA SentKafkaStep ==
  ASSUME KafkaInv, RecordedWereSent, KafkaStep
  PROVE  RecordedWereSent'
<1>1. /\ log \in Seq(Users) /\ Len(log) \in Nat
      /\ \A w \in Workers : /\ consumer[w].batch \subseteq 1..Len(log)
                            /\ consumer[w].todo \subseteq Parsed(w)
  BY DEF KafkaInv, TopicOK, ListenersOK, ListenerOK, ConsumerState, Parsed
<1>2. ASSUME NEW w \in Workers
      PROVE  Parsed(w) \in SUBSET (1..Len(log) \ unreadable)
  BY <1>1, <1>2 DEF Parsed
<1>3. UNCHANGED << log, unreadable >>
  BY DEF KafkaStep, StartListener, Assign, ListenerStep, ListenerFails, StopListener, Poll,
     PollNothing, ListenerWrites, ListenerRollsBack, ListenerWritesRow, Acknowledge, kafkaVars
<1>4. ASSUME NEW ids \in SUBSET (1..Len(log) \ unreadable),
             rows' \subseteq rows \union UserIn(ids)
      PROVE  RecordedWereSent'
  <2>1. Len(log') \in Nat /\ Len(log) <= Len(log')
    BY <1>1, <1>3
  <2>2. /\ \A i \in 1..Len(log) : log'[i] = log[i]
        /\ \A i \in 1..Len(log) : i \in unreadable' => i \in unreadable
    BY <1>3
  <2> QED
    BY <1>1, <1>4, <2>1, <2>2, SentStays, Zenon
<1>5. CASE UNCHANGED rows
  BY <1>3, <1>5 DEF RecordedWereSent, UserIn
<1>6. ASSUME NEW w \in Workers, ListenerWrites(w) PROVE RecordedWereSent'
  BY <1>2, <1>4, <1>6 DEF ListenerWrites
<1>7. ASSUME NEW w \in Workers, NEW i \in consumer[w].todo, ListenerWritesRow(w, i)
      PROVE  RecordedWereSent'
  <2>1. rows' \subseteq rows \union UserIn(Parsed(w))
    BY <1>1, <1>7 DEF ListenerWritesRow, UserIn
  <2> QED
    BY <1>2, <1>4, <2>1
<1>8. ASSUME NEW w \in Workers, ListenerFails(w) PROVE RecordedWereSent'
  <2>1. PICK done \in {{}} \union (IF consumer[w].pc = "rows" THEN {{i} : i \in consumer[w].todo}
                                   ELSE IF Conflict(Parsed(w)) THEN {} ELSE {Parsed(w)}) :
           rows' = rows \union UserIn(done)
    BY <1>8 DEF ListenerFails
  <2>2. done \subseteq Parsed(w)
    BY <1>1, <2>1
  <2> QED
    BY <1>2, <1>4, <2>1, <2>2
<1>9. ASSUME NEW w \in Workers,
             StartListener(w) \/ Assign(w) \/ Poll(w) \/ PollNothing(w)
                \/ ListenerRollsBack(w) \/ Acknowledge(w) \/ StopListener(w)
      PROVE  UNCHANGED rows
  BY <1>9 DEF StartListener, Assign, Poll, PollNothing, ListenerRollsBack, Acknowledge,
     StopListener
<1> QED
  BY <1>5, <1>6, <1>7, <1>8, <1>9 DEF KafkaStep, ListenerStep

\* Nobody is in coupon_issue whom the issuing side did not hand over, in either
\* mode, whatever crashes, is retried or delivered twice.
THEOREM NothingInvented == WorkersSpec => []RecordedWereSent
<1> DEFINE Sent == RecordedWereSent /\ (mode = "stream" => unreadable = {})
<1>1. WorkersInit => Sent
  BY DEF WorkersInit, Init, RecordedWereSent
<1>2. WorkersInv /\ Sent /\ [WorkersNext]_workerVars => Sent'
  <2> SUFFICES ASSUME WorkersInv, Sent, [WorkersNext]_workerVars PROVE Sent'
    OBVIOUS
  <2>1. CASE InStream(Next)
    <3>1. /\ mode = "stream" /\ Next /\ TypeOK /\ unreadable = {} /\ UNCHANGED unreadable
      BY <2>1 DEF InStream, kafkaVars, WorkersInv, IInv
    <3> QED
      BY <3>1, SentStreamStep
  <2>2. CASE InKafka(KafkaStep)
    BY <2>2, SentKafkaStep DEF InKafka, WorkersInv
  <2>3. ASSUME NEW u \in Users, mode = "kafka", Publish(u), UNCHANGED mode PROVE Sent'
    <3>1. /\ log \in Seq(Users) /\ Len(log) \in Nat /\ log' = Append(log, u) /\ rows' = rows
          /\ \/ unreadable' = unreadable
             \/ unreadable' = unreadable \union {Len(log) + 1}
      BY <2>3 DEF WorkersInv, KafkaInv, TopicOK, Publish, Add
    <3>2. /\ Len(log') = Len(log) + 1 /\ Len(log) + 1 \notin 1..Len(log)
          /\ \A i \in 1..Len(log) : log'[i] = log[i]
      BY <3>1
    <3>3. \A i \in 1..Len(log) : i \in unreadable' => i \in unreadable
      BY <3>1, <3>2
    <3>4. {} \in SUBSET (1..Len(log) \ unreadable) /\ rows' \subseteq rows \union UserIn({})
      BY <3>1
    <3>5. Len(log') \in Nat /\ Len(log) <= Len(log')
      BY <3>1, <3>2
    <3>6. RecordedWereSent'
      BY <3>1, <3>2, <3>3, <3>4, <3>5, SentStays, Zenon
    <3> QED
      BY <2>3, <3>6
  <2>4. CASE UNCHANGED workerVars
    BY <2>4 DEF workerVars, vars, streamVars, kafkaVars, RecordedWereSent, UserIn
  <2> QED
    BY <2>1, <2>2, <2>3, <2>4 DEF WorkersNext
<1>3. Sent => RecordedWereSent
  OBVIOUS
<1> QED
  BY <1>1, <1>2, <1>3, WorkersInvariance, PTL DEF WorkersSpec

================================================================================
