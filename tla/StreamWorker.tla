----------------------------- MODULE StreamWorker -----------------------------
(***************************************************************************)
(* The worker side of record mode "stream": IssueStreamWorker reads        *)
(* stream:issue through the consumer group "workers", IssueRecordWriter    *)
(* puts a batch into coupon_issue, and only then is the batch acknowledged *)
(* and its notifications are fired.  All worker processes share the        *)
(* consumer name "w1"; what one leaves pending (it died, MySQL or Redis    *)
(* failed) any of them takes over once it has been idle for a minute.      *)
(*                                                                          *)
(* An entry is known by its position in log, everything the Lua script has *)
(* ever added; DEL stream:issue removes those up to cut.                   *)
(***************************************************************************)
EXTENDS Integers, Sequences, FiniteSets

CONSTANTS
    Users,          \* who gets a coupon
    Workers,        \* worker processes
    BatchSize,      \* COUNT of XREADGROUP (100)
    PendingWindow,  \* COUNT of XPENDING (100)
    ReclaimEvery,   \* loop cycles between two looks at XPENDING (15)
    NotifyEnabled,  \* coupon.notify.enabled
    MaxEntries,     \* bound: entries added to the stream
    MaxCrashes,     \* bound: worker processes killed
    MaxFaults,      \* bound: failed calls to MySQL or Redis
    MaxDeletes      \* bound: DEL stream:issue

ASSUME WorkerAssumption ==
    /\ BatchSize \in Nat \ {0} /\ PendingWindow \in Nat \ {0}
    /\ ReclaimEvery \in Nat \ {0}
    /\ NotifyEnabled \in BOOLEAN
    /\ MaxEntries \in Nat /\ MaxCrashes \in Nat /\ MaxFaults \in Nat /\ MaxDeletes \in Nat

NoGroup == -1

VARIABLES
    log,        \* users of all entries ever added, in XADD order
    cut,        \* entries up to this one went with a DEL of the stream
    delivered,  \* the group's last-delivered id, NoGroup if it does not exist
    pel,        \* delivered and not acknowledged
    stale,      \* those of pel that have been idle for over 60 s
    rows,       \* coupon_issue: users with a row (uk_event_user)
    fired,      \* entries whose notification was handed to the WebClient
    worker,     \* the loop of each process
    budget      \* the crashes, faults and deletes still to come

streamVars == << log, cut, delivered, pel, stale >>
vars == << streamVars, rows, fired, worker, budget >>

Pcs == {"down", "cycle", "scan", "claim", "read", "write", "rows", "ack", "fire"}

WorkerState == [pc : Pcs, cycle : 0..(ReclaimEvery - 1), batch : SUBSET Nat,
                todo : SUBSET Nat, back : {"cycle", "read"}]

Down == [pc |-> "down", cycle |-> 0, batch |-> {}, todo |-> {}, back |-> "cycle"]

Init ==
    /\ log = << >> /\ cut = 0
    /\ delivered = NoGroup /\ pel = {} /\ stale = {}
    /\ rows = {} /\ fired = {}
    /\ worker = [w \in Workers |-> Down]
    /\ budget = [crashes |-> MaxCrashes, faults |-> MaxFaults, deletes |-> MaxDeletes]

UserIn(ids) == { log[i] : i \in ids }

Goto(w, pc) == worker' = [worker EXCEPT ![w].pc = pc]

\* The batch is finished or given up: nothing of it stays in memory.
Return(w) ==
    worker' = [worker EXCEPT ![w] =
                  [pc |-> @.back, cycle |-> @.cycle, batch |-> {}, todo |-> {}, back |-> "cycle"]]

Take(w, ids, pc, back) ==
    worker' = [worker EXCEPT ![w] =
                  [pc |-> pc, cycle |-> @.cycle, batch |-> ids, todo |-> {}, back |-> back]]

-----------------------------------------------------------------------------
(* The rest of the world.                                                   *)

\* The Lua script's XADD.
Add(u) ==
    /\ Len(log) < MaxEntries
    /\ log' = Append(log, u)
    /\ UNCHANGED << cut, delivered, pel, stale, rows, fired, worker, budget >>

\* DEL stream:issue takes the consumer group with it.
Delete ==
    /\ budget.deletes > 0
    /\ budget' = [budget EXCEPT !.deletes = @ - 1]
    /\ cut' = Len(log)
    /\ delivered' = NoGroup /\ pel' = {} /\ stale' = {}
    /\ UNCHANGED << log, rows, fired, worker >>

\* A pending entry has been idle for RECLAIM_MIN_IDLE.
Idle(i) ==
    /\ i \in pel \ stale
    /\ stale' = stale \union {i}
    /\ UNCHANGED << log, cut, delivered, pel, rows, fired, worker, budget >>

\* A process is killed (or stopped: shutdownNow interrupts the loop).
Crash(w) ==
    /\ worker[w].pc # "down"
    /\ budget.crashes > 0
    /\ budget' = [budget EXCEPT !.crashes = @ - 1]
    /\ worker' = [worker EXCEPT ![w] = Down]
    /\ UNCHANGED << streamVars, rows, fired >>

-----------------------------------------------------------------------------
(* The loop of one worker.                                                  *)

\* Faulty: a new group starts at the end of the stream ($).
GroupStart_Latest == Len(log)

\* createGroupFromBeginning: from 0, that is before the oldest entry left.
GroupStart == cut

CreateGroup == delivered' = IF delivered = NoGroup THEN GroupStart ELSE delivered

Start(w) ==
    /\ worker[w].pc = "down"
    /\ CreateGroup
    /\ Goto(w, "cycle")
    /\ UNCHANGED << log, cut, pel, stale, rows, fired, budget >>

NextCycle(w) ==
    LET c == (worker[w].cycle + 1) % ReclaimEvery
    IN  /\ worker[w].pc = "cycle"
        /\ worker' = [worker EXCEPT ![w].cycle = c,
                                    ![w].pc = IF c = 0 THEN "scan" ELSE "read"]
        /\ UNCHANGED << streamVars, rows, fired, budget >>

\* Faulty: nothing ever looks old enough.
Reclaimable_None == {}

\* XPENDING - + 100: the oldest of the whole group, of those the idle ones.
Reclaimable ==
    { i \in stale : Cardinality({ j \in pel : j < i }) < PendingWindow }

Scan(w) ==
    /\ worker[w].pc = "scan"
    /\ IF Reclaimable = {} THEN Goto(w, "read")
                           ELSE Take(w, Reclaimable, "claim", "read")
    /\ UNCHANGED << streamVars, rows, fired, budget >>

\* XCLAIM: what is still pending and still idle by then; it is idle no more.
Claim(w) ==
    LET claimed == worker[w].batch \intersect stale
    IN  /\ worker[w].pc = "claim"
        /\ stale' = stale \ claimed
        /\ IF claimed = {} THEN Return(w) ELSE Take(w, claimed, "write", "read")
        /\ UNCHANGED << log, cut, delivered, pel, rows, fired, budget >>

\* Faulty: the range is not cut at the end of the stream.
ReadTo_PastEnd == delivered + BatchSize

\* XREADGROUP COUNT 100 with id >: up to the last entry this read returns.
ReadTo == IF delivered + BatchSize < Len(log) THEN delivered + BatchSize ELSE Len(log)

Read(w) ==
    /\ worker[w].pc = "read"
    /\ delivered # NoGroup /\ delivered < Len(log)
    /\ delivered' = ReadTo
    /\ pel' = pel \union ((delivered + 1)..ReadTo)
    /\ Take(w, (delivered + 1)..ReadTo, "write", "cycle")
    /\ UNCHANGED << log, cut, stale, rows, fired, budget >>

ReadNothing(w) ==
    /\ worker[w].pc = "read"
    /\ delivered = Len(log)
    /\ Goto(w, "cycle")
    /\ UNCHANGED << streamVars, rows, fired, budget >>

\* NOGROUP: the group is created again and the loop goes on.
ReadNoGroup(w) ==
    /\ worker[w].pc = "read"
    /\ delivered = NoGroup
    /\ CreateGroup
    /\ Goto(w, "cycle")
    /\ UNCHANGED << log, cut, pel, stale, rows, fired, budget >>

\* IssueRecordWriter.writeBatch, the transaction over the whole batch ...
Conflict(ids) ==
    \/ UserIn(ids) \intersect rows # {}
    \/ \E i, j \in ids : i # j /\ log[i] = log[j]

WriteBatch(w) ==
    /\ worker[w].pc = "write"
    /\ ~Conflict(worker[w].batch)
    /\ rows' = rows \union UserIn(worker[w].batch)
    /\ Goto(w, "ack")
    /\ UNCHANGED << streamVars, fired, budget >>

\* Faulty: a batch with a duplicate counts as written before.
RollbackBatch_AsWritten(w) ==
    /\ worker[w].pc = "write"
    /\ Conflict(worker[w].batch)
    /\ Goto(w, "ack")
    /\ UNCHANGED << streamVars, rows, fired, budget >>

\* ... which a duplicate rolls back, and then ...
RollbackBatch(w) ==
    /\ worker[w].pc = "write"
    /\ Conflict(worker[w].batch)
    /\ worker' = [worker EXCEPT ![w].pc = "rows", ![w].todo = worker[w].batch]
    /\ UNCHANGED << streamVars, rows, fired, budget >>

\* ... one transaction per row, in batch order, duplicates ignored.
WriteRow(w, i) ==
    LET todo == worker[w].todo
    IN  /\ worker[w].pc = "rows"
        /\ i \in todo /\ \A j \in todo : i <= j
        /\ rows' = rows \union {log[i]}
        /\ worker' = [worker EXCEPT ![w].todo = todo \ {i},
                                    ![w].pc = IF todo = {i} THEN "ack" ELSE "rows"]
        /\ UNCHANGED << streamVars, fired, budget >>

\* XACK, and then the notifications.
Ack(w) ==
    /\ worker[w].pc = "ack"
    /\ pel' = pel \ worker[w].batch
    /\ stale' = stale \ worker[w].batch
    /\ IF NotifyEnabled THEN Goto(w, "fire") ELSE Return(w)
    /\ UNCHANGED << log, cut, delivered, rows, fired, budget >>

Fire(w) ==
    /\ worker[w].pc = "fire"
    /\ fired' = fired \union worker[w].batch
    /\ Return(w)
    /\ UNCHANGED << streamVars, rows, budget >>

\* A call to MySQL or Redis fails: the exception ends the batch (not the
\* loop), and what is pending stays pending.
Fault(w) ==
    /\ worker[w].pc \in {"scan", "claim", "write", "rows", "ack"}
    /\ budget.faults > 0
    /\ budget' = [budget EXCEPT !.faults = @ - 1]
    /\ IF worker[w].pc = "scan" THEN Goto(w, "read") ELSE Return(w)
    /\ UNCHANGED << streamVars, rows, fired >>

\* The same, but the call has taken effect: only its answer is lost.
AnswerLost(w) ==
    /\ budget.faults > 0
    /\ budget' = [budget EXCEPT !.faults = @ - 1]
    /\ \/ /\ worker[w].pc = "claim"
          /\ stale' = stale \ worker[w].batch
          /\ UNCHANGED << pel, rows >>
       \/ /\ worker[w].pc = "write" /\ ~Conflict(worker[w].batch)
          /\ rows' = rows \union UserIn(worker[w].batch)
          /\ UNCHANGED << pel, stale >>
       \/ \E i \in worker[w].todo :
             /\ worker[w].pc = "rows" /\ \A j \in worker[w].todo : i <= j
             /\ rows' = rows \union {log[i]}
             /\ UNCHANGED << pel, stale >>
       \/ /\ worker[w].pc = "ack"
          /\ pel' = pel \ worker[w].batch
          /\ stale' = stale \ worker[w].batch
          /\ UNCHANGED rows
    /\ Return(w)
    /\ UNCHANGED << log, cut, delivered, fired >>

\* The answer to XREADGROUP is lost on the way.
ReadLost(w) ==
    /\ worker[w].pc = "read"
    /\ delivered # NoGroup /\ delivered < Len(log)
    /\ budget.faults > 0
    /\ budget' = [budget EXCEPT !.faults = @ - 1]
    /\ delivered' = ReadTo
    /\ pel' = pel \union ((delivered + 1)..ReadTo)
    /\ Goto(w, "cycle")
    /\ UNCHANGED << log, cut, stale, rows, fired >>

Step(w) ==
    \/ NextCycle(w) \/ Scan(w) \/ Claim(w)
    \/ Read(w) \/ ReadNothing(w) \/ ReadNoGroup(w)
    \/ WriteBatch(w) \/ RollbackBatch(w)
    \/ \E i \in worker[w].todo : WriteRow(w, i)
    \/ Ack(w) \/ Fire(w)

Next ==
    \/ \E u \in Users : Add(u)
    \/ Delete
    \/ \E i \in pel : Idle(i)
    \/ \E w \in Workers : Start(w) \/ Step(w) \/ Crash(w)
                           \/ Fault(w) \/ AnswerLost(w) \/ ReadLost(w)

\* A process that is up keeps looping, one that is down is started again by
\* its orchestrator, and a minute passes.
Fairness ==
    /\ \A w \in Workers : WF_vars(Start(w)) /\ WF_vars(Step(w))
    /\ \A i \in 1..MaxEntries : WF_vars(Idle(i))

Spec == Init /\ [][Next]_vars /\ Fairness

-----------------------------------------------------------------------------
(* Properties.                                                              *)

TypeOK ==
    /\ log \in Seq(Users)
    /\ cut \in 0..Len(log)
    /\ delivered \in {NoGroup} \union (cut..Len(log))
    /\ pel \subseteq (cut + 1)..delivered /\ stale \subseteq pel
    /\ rows \subseteq Users
    /\ fired \subseteq 1..Len(log)
    /\ worker \in [Workers -> WorkerState]
    /\ \A w \in Workers : worker[w].todo \subseteq worker[w].batch
                       /\ worker[w].batch \subseteq 1..Len(log)
    /\ budget \in [crashes : Nat, faults : Nat, deletes : Nat]

\* Every entry the group has handed out, if the stream still exists, is in
\* coupon_issue or will be offered again: no crash between XREADGROUP, the
\* transaction, the row fallback and XACK loses an issue, and nor does a group
\* that has to be created anew (it starts at 0).
NothingLost ==
    \A i \in (cut + 1)..delivered : i \in pel \/ log[i] \in rows

\* A process only acknowledges what is in the table, although the row
\* fallback writes a batch in parts and any part of it may fail.
RecordedBeforeAck ==
    \A w \in Workers :
        worker[w].pc \in {"ack", "fire"} => UserIn(worker[w].batch) \subseteq rows

\* Nobody is told of a coupon that is not in the table.
NotifiedAreRecorded == UserIn(fired) \subseteq rows

\* The group ends up with nothing pending and every entry of the stream in
\* the table, whatever crashed on the way: stale entries are taken over.
Drained ==
    <>[](/\ delivered = Len(log) /\ pel = {}
         /\ \A i \in (cut + 1)..Len(log) : log[i] \in rows)

=============================================================================
