------------------------------ MODULE KafkaWorker ------------------------------
(***************************************************************************)
(* The worker side of a deployment, by coupon.record.mode: IssueStreamWorker *)
(* (module StreamWorker) unless the mode is "kafka", in which case           *)
(* KafkaIssueWorker consumes the topic coupon.issue instead.  Both write     *)
(* through IssueRecordWriter.                                                *)
(*                                                                           *)
(* In mode "kafka" log is the topic, which has one partition; an entry is    *)
(* known by its offset (from 1).  The listener container hands a batch to    *)
(* onMessages, which records it and then commits the offset.  A batch that   *)
(* fails Attempts times is skipped by the container's error handler.         *)
(***************************************************************************)
EXTENDS StreamWorker

CONSTANTS
    Attempts,       \* deliveries of a failing batch before it is skipped (10)
    NoOwner,        \* the partition is assigned to nobody
    MaxRebalances,  \* bound: the partition is taken from a living process
    MaxFailures     \* bound: calls to MySQL that fail in a listener

ASSUME KafkaAssumption ==
    /\ Attempts \in Nat \ {0}
    /\ NoOwner \notin Workers
    /\ MaxRebalances \in Nat /\ MaxFailures \in Nat

NoOffset == -1      \* the group has never committed

VARIABLES
    mode,           \* coupon.record.mode of the deployment
    unreadable,     \* offsets whose message cannot be parsed
    owner,          \* the process the partition is assigned to
    committed,      \* the group's committed offset
    skipped,        \* history: offsets the error handler gave up
    consumer,       \* the listener of each process
    spent           \* the rebalances and failures so far

kafkaVars == << unreadable, owner, committed, skipped, consumer, spent >>
workerVars == << vars, mode, kafkaVars >>

\* What mode "kafka" leaves alone of StreamWorker.
streamOnly == << cut, delivered, pel, stale, fired, worker >>

ConsumerState == [pc : {"down", "poll", "write", "rows", "ack"}, pos : Nat,
                  batch : SUBSET Nat, todo : SUBSET Nat, tries : Nat]

Stopped == [pc |-> "down", pos |-> 0, batch |-> {}, todo |-> {}, tries |-> 0]

WorkersInit ==
    /\ Init
    /\ mode \in {"stream", "kafka"}
    /\ unreadable = {} /\ skipped = {}
    /\ spent = [rebalances |-> 0, failures |-> 0]
    /\ owner = NoOwner /\ committed = NoOffset
    /\ consumer = [w \in Workers |-> Stopped]

ConsumerGoto(w, pc) == consumer' = [consumer EXCEPT ![w].pc = pc]

\* The batch is over: nothing of it stays in memory, the position stands.
NextPoll(w) ==
    consumer' = [consumer EXCEPT ![w] =
                    [pc |-> "poll", pos |-> @.pos, batch |-> {}, todo |-> {}, tries |-> 0]]

\* Lines that cannot be parsed are left out of the batch.
Parsed(w) == consumer[w].batch \ unreadable

-----------------------------------------------------------------------------
\* The producer's side; nothing keeps foreign or broken messages off a topic.
Publish(u) ==
    /\ Add(u)
    /\ \E broken \in BOOLEAN :
          unreadable' = IF broken THEN unreadable \union {Len(log) + 1} ELSE unreadable
    /\ UNCHANGED << owner, committed, skipped, consumer, spent >>

StartListener(w) ==
    /\ consumer[w].pc = "down"
    /\ ConsumerGoto(w, "poll")
    /\ UNCHANGED << log, rows, budget, unreadable, owner, committed, skipped, spent >>

\* Faulty: auto-offset-reset is the default, latest.
FirstOffset_Latest == Len(log)

\* auto-offset-reset: earliest
FirstOffset == 0

\* A process that polls is given the partition: nobody has it, or the group
\* rebalances while its owner is still busy with a batch.
Assign(w) ==
    /\ consumer[w].pc = "poll" /\ owner # w
    /\ IF owner = NoOwner
         THEN UNCHANGED spent
         ELSE /\ spent.rebalances < MaxRebalances
              /\ spent' = [spent EXCEPT !.rebalances = @ + 1]
    /\ owner' = w
    /\ consumer' = [consumer EXCEPT ![w].pos =
                       IF committed = NoOffset THEN FirstOffset ELSE committed]
    /\ UNCHANGED << log, rows, budget, unreadable, committed, skipped >>

Poll(w) ==
    LET from == consumer[w].pos
        to   == IF from + BatchSize < Len(log) THEN from + BatchSize ELSE Len(log)
    IN  /\ consumer[w].pc = "poll" /\ owner = w
        /\ from < Len(log)
        /\ consumer' = [consumer EXCEPT ![w] =
               [pc |-> "write", pos |-> to, batch |-> (from + 1)..to, todo |-> {}, tries |-> 0]]
        /\ UNCHANGED << log, rows, budget, unreadable, owner, committed, skipped, spent >>

PollNothing(w) ==
    /\ consumer[w].pc = "poll" /\ owner = w
    /\ consumer[w].pos = Len(log)
    /\ UNCHANGED << log, rows, budget, kafkaVars >>

\* IssueRecordWriter.writeBatch: the transaction over the batch, or its rollback ...
ListenerWrites(w) ==
    /\ consumer[w].pc = "write"
    /\ ~Conflict(Parsed(w))
    /\ rows' = rows \union UserIn(Parsed(w))
    /\ ConsumerGoto(w, "ack")
    /\ UNCHANGED << log, budget, unreadable, owner, committed, skipped, spent >>

ListenerRollsBack(w) ==
    /\ consumer[w].pc = "write"
    /\ Conflict(Parsed(w))
    /\ consumer' = [consumer EXCEPT ![w].pc = "rows", ![w].todo = Parsed(w)]
    /\ UNCHANGED << log, rows, budget, unreadable, owner, committed, skipped, spent >>

\* ... and then row by row, duplicates ignored.
ListenerWritesRow(w, i) ==
    LET todo == consumer[w].todo
    IN  /\ consumer[w].pc = "rows"
        /\ i \in todo /\ \A j \in todo : i <= j
        /\ rows' = rows \union {log[i]}
        /\ consumer' = [consumer EXCEPT ![w].todo = todo \ {i},
                                        ![w].pc = IF todo = {i} THEN "ack" ELSE "rows"]
        /\ UNCHANGED << log, budget, unreadable, owner, committed, skipped, spent >>

\* ack.acknowledge(): rejected if the partition has meanwhile been given away.
Acknowledge(w) ==
    /\ consumer[w].pc = "ack"
    /\ committed' = IF owner = w THEN consumer[w].pos ELSE committed
    /\ NextPoll(w)
    /\ UNCHANGED << log, rows, budget, unreadable, owner, skipped, spent >>

\* Faulty: the batch counts as recorded although a call failed.
ListenerFails_Swallowed(w) ==
    /\ consumer[w].pc \in {"write", "rows"}
    /\ spent.failures < MaxFailures
    /\ spent' = [spent EXCEPT !.failures = @ + 1]
    /\ ConsumerGoto(w, "ack")
    /\ UNCHANGED << log, rows, budget, unreadable, owner, committed, skipped >>

\* A call to MySQL fails, perhaps after it took effect: the exception leaves
\* onMessages without an acknowledgement, and the container delivers the batch
\* again, until Attempts are used up; then it is skipped, with a commit or not.
ListenerFails(w) ==
    LET tries == consumer[w].tries + 1
    IN  /\ consumer[w].pc \in {"write", "rows"}
        /\ spent.failures < MaxFailures
        /\ spent' = [spent EXCEPT !.failures = @ + 1]
        /\ \E done \in {{}} \union (IF consumer[w].pc = "rows" THEN {{i} : i \in consumer[w].todo}
                                    ELSE IF Conflict(Parsed(w)) THEN {} ELSE {Parsed(w)}) :
              rows' = rows \union UserIn(done)
        /\ IF tries < Attempts
             THEN /\ consumer' = [consumer EXCEPT ![w].pc = "write", ![w].todo = {},
                                                  ![w].tries = tries]
                  /\ UNCHANGED << committed, skipped >>
             ELSE /\ NextPoll(w)
                  /\ skipped' = skipped \union consumer[w].batch
                  /\ \/ UNCHANGED committed
                     \/ committed' = IF owner = w THEN consumer[w].pos ELSE committed
        /\ UNCHANGED << log, budget, unreadable, owner >>

StopListener(w) ==
    /\ consumer[w].pc # "down"
    /\ budget.crashes > 0
    /\ budget' = [budget EXCEPT !.crashes = @ - 1]
    /\ consumer' = [consumer EXCEPT ![w] = Stopped]
    /\ owner' = IF owner = w THEN NoOwner ELSE owner
    /\ UNCHANGED << log, rows, unreadable, committed, skipped, spent >>

ListenerStep(w) ==
    \/ Poll(w) \/ PollNothing(w)
    \/ ListenerWrites(w) \/ ListenerRollsBack(w)
    \/ \E i \in consumer[w].todo : ListenerWritesRow(w, i)
    \/ Acknowledge(w)

KafkaStep ==
    \/ \E w \in Workers : \/ StartListener(w) \/ Assign(w) \/ ListenerStep(w)
                          \/ ListenerFails(w) \/ StopListener(w)

\* A deployment has one of the two workers; the other's state is never touched.
InStream(A) == mode = "stream" /\ A /\ UNCHANGED << mode, kafkaVars >>
InKafka(A)  == mode = "kafka" /\ A /\ UNCHANGED << mode, streamOnly >>

WorkersNext ==
    \/ InStream(Next)
    \/ InKafka(KafkaStep)
    \/ \E u \in Users : mode = "kafka" /\ Publish(u) /\ UNCHANGED mode

\* A process that is down is started again, a living one is given a free
\* partition, its container polls, and a batch it has goes on.
KafkaFairness ==
    /\ \A w \in Workers : /\ WF_workerVars(InKafka(StartListener(w)))
                          /\ WF_workerVars(InKafka(ListenerStep(w)))
    /\ WF_workerVars(InKafka(owner = NoOwner /\ \E w \in Workers : Assign(w)))

StreamFairness ==
    /\ \A w \in Workers : /\ WF_workerVars(InStream(Start(w)))
                          /\ WF_workerVars(InStream(Step(w)))
    /\ \A i \in 1..MaxEntries : WF_workerVars(InStream(Idle(i)))

WorkersSpec ==
    WorkersInit /\ [][WorkersNext]_workerVars /\ StreamFairness /\ KafkaFairness

-----------------------------------------------------------------------------
(* Properties.                                                              *)

KafkaTypeOK ==
    /\ log \in Seq(Users) /\ rows \subseteq Users
    /\ budget \in [crashes : Nat, faults : Nat, deletes : Nat]
    /\ mode \in {"stream", "kafka"}
    /\ unreadable \subseteq 1..Len(log) /\ skipped \subseteq 1..Len(log)
    /\ owner \in Workers \union {NoOwner}
    /\ committed \in {NoOffset} \union (0..Len(log))
    /\ consumer \in [Workers -> ConsumerState]
    /\ \A w \in Workers : /\ consumer[w].pos <= Len(log)
                          /\ consumer[w].batch \subseteq 1..consumer[w].pos
                          /\ consumer[w].todo \subseteq Parsed(w)
    /\ spent \in [rebalances : Nat, failures : Nat]

\* What became of an offset the group will not be given again.
Settled(i) == log[i] \in rows \/ i \in unreadable \/ i \in skipped

\* A committed offset is never a lost issue: every message up to it is in
\* coupon_issue, could not be parsed, or was skipped by the error handler after
\* all its attempts, whatever crashed, failed or was rebalanced between the
\* INSERT and ack.acknowledge(), and wherever a new group began.
CommittedIsSettled == \A i \in 1..committed : Settled(i)

\* Either worker gets through its backlog: the group ends up with nothing
\* pending and every entry of the stream in the table, and every message of the
\* topic is settled, whatever crashed on the way.
BacklogDrained ==
    /\ mode = "stream" => Drained
    /\ mode = "kafka" => <>[](\A i \in 1..Len(log) : Settled(i))

=============================================================================
