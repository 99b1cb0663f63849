------------------------------ MODULE NotifyRetry ------------------------------
(***************************************************************************)
(* What IssueStreamWorker does about the notification of an issue from the *)
(* XACK of its entry on.  fireNotify posts on a WebClient thread, a few    *)
(* times; then the issue goes to the delay queue notify:retry (a ZSET of   *)
(* event:user:attempt), which the retry loop of any worker process serves. *)
(* Every HTTP, Redis and MySQL call is a step of its own, since the        *)
(* WebClient threads, the loops and the processes' deaths interleave there.*)
(*                                                                         *)
(* A Redis that restarts (docker-compose.yml:30: snapshots, and no append- *)
(* only file) comes back with the queue of its last snapshot or with none. *)
(***************************************************************************)
EXTENDS Naturals, FiniteSets

CONSTANTS
    Coupons,      \* issues (event and user)
    Chains,       \* acknowledgements of an entry and what follows them
    Workers,      \* worker processes
    InlinePosts,  \* POSTs of one fireNotify: the first and two retries (3)
    MaxAttempts,  \* MAX_ATTEMPTS (5)
    PageSize,     \* members fetched at once from the queue (10)
    NoMember,     \* what a loop holds that has claimed nothing
    MaxCrashes,   \* bound: processes killed
    MaxFaults,    \* bound: failed calls to MySQL or Redis
    MaxRestarts   \* bound: restarts of Redis

ASSUME NotifyAssumption ==
    /\ InlinePosts \in Nat \ {0} /\ MaxAttempts \in Nat \ {0} /\ PageSize \in Nat \ {0}
    /\ MaxCrashes \in Nat /\ MaxFaults \in Nat /\ MaxRestarts \in Nat
    /\ IsFiniteSet(Chains)

Member == [coupon : Coupons, attempt : 1..MaxAttempts]

ASSUME NoMemberAssumption == NoMember \notin Member

Marks == {"PENDING", "RETRYING", "SENT", "FAILED_PERMANENT"}

VARIABLES
    chain,      \* every chain: where it is, for whom, in which process
    loop,       \* every retry loop: where it is, the page it fetched, its member
    queue,      \* notify:retry
    due,        \* the members of queue whose score has passed
    mark,       \* coupon_issue.notify_status
    delivered,  \* the coupons the external API has accepted a POST for
    failures,   \* history: POSTs that failed, per coupon, up to AllPosts
    lost,       \* history: coupons some thread dropped without a word
    budget,     \* the crashes, faults and restarts of Redis still to come
    saved,      \* the queue in the last snapshot of Redis
    restored    \* history: coupons with a member that was gone and came back from it

notifyVars == << chain, loop, queue, due, mark, delivered, failures, lost, budget >>
snapshotVars == << saved, restored >>
vars == << notifyVars, snapshotVars >>

ChainPcs == {"unused", "acked", "post", "sent", "zadd", "mark", "done"}
InMemory == {"acked", "post", "zadd"}
LoopPcs  == {"down", "poll", "zrem", "post", "sent", "failed", "zadd", "mark"}

Unused == [pc |-> "unused", left |-> InlinePosts]
Down   == [pc |-> "down", page |-> {}, member |-> NoMember]

Init ==
    /\ chain \in [Chains -> [pc : {"unused"}, left : {InlinePosts}, coupon : Coupons, by : Workers]]
    /\ loop = [w \in Workers |-> Down]
    /\ queue = {} /\ due = {}
    /\ mark = [c \in Coupons |-> "PENDING"]
    /\ delivered = {} /\ lost = {}
    /\ failures = [c \in Coupons |-> 0]
    /\ budget = [crashes |-> MaxCrashes, faults |-> MaxFaults, restarts |-> MaxRestarts]
    /\ saved = {} /\ restored = {}

-----------------------------------------------------------------------------
(* What both threads do.                                                    *)

Fault == budget.faults > 0 /\ budget' = [budget EXCEPT !.faults = @ - 1]

\* The POSTs that must fail before an issue is given up.
AllPosts == InlinePosts + MaxAttempts

\* A POST: it may be accepted and still fail here (timeout, lost answer).
PostSucceeds(c) == delivered' = delivered \union {c} /\ UNCHANGED failures

PostFails(c) ==
    /\ delivered' \in {delivered, delivered \union {c}}
    /\ failures' = [failures EXCEPT ![c] = IF @ < AllPosts THEN @ + 1 ELSE @]

\* markNotify: it logs a failure and goes on.
Mark(c, status) ==
    \/ /\ mark' = [mark EXCEPT ![c] = status]
       /\ lost' = IF mark[c] = "FAILED_PERMANENT" /\ status = "RETRYING"
                  THEN lost \union {c} ELSE lost
       /\ UNCHANGED budget
    \/ /\ Fault /\ UNCHANGED mark
       /\ lost' = IF status = "FAILED_PERMANENT" THEN lost \union {c} ELSE lost

\* scheduleRetry, first half: ZADD with a new score.
Enqueue(c, n) ==
    /\ queue' = queue \union {[coupon |-> c, attempt |-> n]}
    /\ due' = due \ {[coupon |-> c, attempt |-> n]}

-----------------------------------------------------------------------------
(* processBatch after the commit, fireNotify and its callbacks.             *)

ChainTo(ch, pc) == chain' = [chain EXCEPT ![ch].pc = pc]

\* processBatch acknowledges the entry (StreamWorker's Ack) ...
Acked(ch) ==
    /\ chain[ch].pc = "unused"
    /\ loop[chain[ch].by].pc # "down"
    /\ ChainTo(ch, "acked")
    /\ UNCHANGED << loop, queue, due, mark, delivered, failures, lost, budget >>

\* ... it may get an exception for an XACK that took effect ...
AckAnswerLost(ch) ==
    /\ chain[ch].pc = "unused"
    /\ loop[chain[ch].by].pc # "down"
    /\ Fault
    /\ lost' = lost \union {chain[ch].coupon}
    /\ ChainTo(ch, "done")
    /\ UNCHANGED << loop, queue, due, mark, delivered, failures >>

\* ... and goes through the batch.
FireNotify(ch) ==
    /\ chain[ch].pc = "acked"
    /\ ChainTo(ch, "post")
    /\ UNCHANGED << loop, queue, due, mark, delivered, failures, lost, budget >>

InlineOk(ch) ==
    /\ chain[ch].pc = "post"
    /\ PostSucceeds(chain[ch].coupon)
    /\ ChainTo(ch, "sent")
    /\ UNCHANGED << loop, queue, due, mark, lost, budget >>

\* Retry.backoff(2, 500 ms), then the error callback.
InlineFails(ch) ==
    /\ chain[ch].pc = "post"
    /\ PostFails(chain[ch].coupon)
    /\ chain' = [chain EXCEPT ![ch].left = @ - 1,
                              ![ch].pc = IF chain[ch].left = 1 THEN "zadd" ELSE "post"]
    /\ UNCHANGED << loop, queue, due, mark, lost, budget >>

ChainSent(ch) ==
    /\ chain[ch].pc = "sent"
    /\ Mark(chain[ch].coupon, "SENT")
    /\ ChainTo(ch, "done")
    /\ UNCHANGED << loop, queue, due, delivered, failures >>

ChainZadd(ch) ==
    /\ chain[ch].pc = "zadd"
    /\ Enqueue(chain[ch].coupon, 1)
    /\ ChainTo(ch, "mark")
    /\ UNCHANGED << loop, mark, delivered, failures, lost, budget >>

\* The exception of the ZADD ends the callback, and nobody hears of it.
ChainZaddFails(ch) ==
    /\ chain[ch].pc = "zadd"
    /\ Fault
    /\ \/ UNCHANGED << queue, due >> /\ lost' = lost \union {chain[ch].coupon}
       \/ Enqueue(chain[ch].coupon, 1) /\ UNCHANGED lost
    /\ ChainTo(ch, "done")
    /\ UNCHANGED << loop, mark, delivered, failures >>

ChainMark(ch) ==
    /\ chain[ch].pc = "mark"
    /\ Mark(chain[ch].coupon, "RETRYING")
    /\ ChainTo(ch, "done")
    /\ UNCHANGED << loop, queue, due, delivered, failures >>

-----------------------------------------------------------------------------
(* The retry loop.                                                          *)

LoopTo(w, pc) == loop' = [loop EXCEPT ![w].pc = pc]

\* On to what is left of the page, or to the next page.
Proceed(w, page) ==
    loop' = [loop EXCEPT ![w] = [pc |-> IF page = {} THEN "poll" ELSE "zrem",
                                 page |-> page, member |-> NoMember]]

Start(w) ==
    /\ loop[w].pc = "down"
    /\ LoopTo(w, "poll")
    /\ UNCHANGED << chain, queue, due, mark, delivered, failures, lost, budget >>

\* ZRANGEBYSCORE 0 now LIMIT 0 10.
Poll(w) ==
    /\ loop[w].pc = "poll"
    /\ \E page \in SUBSET due :
          /\ page # {}
          /\ Cardinality(page) <= PageSize
          /\ Cardinality(page) = PageSize \/ page = due
          /\ loop' = [loop EXCEPT ![w].page = page, ![w].pc = "zrem"]
    /\ UNCHANGED << chain, queue, due, mark, delivered, failures, lost, budget >>

\* Nothing is due: a second of sleep.
PollNothing(w) == loop[w].pc = "poll" /\ due = {} /\ UNCHANGED notifyVars

\* Faulty: the count ZREM returns is not looked at.
Claimed_Always(m) == TRUE

\* Faulty: the test of the count the wrong way round.
Claimed_Inverted(m) == m \notin queue

\* ZREM returned 1.
Claimed(m) == m \in queue

Zrem(w, m) ==
    LET page == loop[w].page \ {m}
    IN  /\ loop[w].pc = "zrem" /\ m \in loop[w].page
        /\ queue' = queue \ {m} /\ due' = due \ {m}
        /\ IF Claimed(m)
           THEN loop' = [loop EXCEPT ![w] = [pc |-> "post", page |-> page, member |-> m]]
           ELSE Proceed(w, page)
        /\ UNCHANGED << chain, mark, delivered, failures, lost, budget >>

\* The call fails, and the exception leaves the page; the member may be gone
\* from the queue all the same.
ZremFails(w, m) ==
    /\ loop[w].pc = "zrem" /\ m \in loop[w].page
    /\ Fault
    /\ \/ UNCHANGED << queue, due, lost >>
       \/ /\ queue' = queue \ {m} /\ due' = due \ {m}
          /\ lost' = IF Claimed(m) THEN lost \union {m.coupon} ELSE lost
    /\ Proceed(w, {})
    /\ UNCHANGED << chain, mark, delivered, failures >>

RetryOk(w) ==
    /\ loop[w].pc = "post"
    /\ PostSucceeds(loop[w].member.coupon)
    /\ LoopTo(w, "sent")
    /\ UNCHANGED << chain, queue, due, mark, lost, budget >>

\* Faulty: one attempt too few.
Exhausted_OneEarly(m) == m.attempt + 1 >= MaxAttempts

Exhausted(m) == m.attempt >= MaxAttempts

RetryFails(w) ==
    /\ loop[w].pc = "post"
    /\ PostFails(loop[w].member.coupon)
    /\ LoopTo(w, IF Exhausted(loop[w].member) THEN "failed" ELSE "zadd")
    /\ UNCHANGED << chain, queue, due, mark, lost, budget >>

\* Faulty: a success is taken for the end of the attempts.
Verdict_AlwaysSent(w) == "SENT"

Verdict(w) == IF loop[w].pc = "sent" THEN "SENT" ELSE "FAILED_PERMANENT"

LoopSettles(w) ==
    /\ loop[w].pc \in {"sent", "failed"}
    /\ Mark(loop[w].member.coupon, Verdict(w))
    /\ Proceed(w, loop[w].page)
    /\ UNCHANGED << chain, queue, due, delivered, failures >>

\* Faulty: the attempt is put back as it was.
NextAttempt_Same(m) == m.attempt

NextAttempt(m) == m.attempt + 1

LoopZadd(w) ==
    /\ loop[w].pc = "zadd"
    /\ Enqueue(loop[w].member.coupon, NextAttempt(loop[w].member))
    /\ LoopTo(w, "mark")
    /\ UNCHANGED << chain, mark, delivered, failures, lost, budget >>

LoopZaddFails(w) ==
    /\ loop[w].pc = "zadd"
    /\ Fault
    /\ \/ UNCHANGED << queue, due >> /\ lost' = lost \union {loop[w].member.coupon}
       \/ Enqueue(loop[w].member.coupon, NextAttempt(loop[w].member)) /\ UNCHANGED lost
    /\ Proceed(w, {})
    /\ UNCHANGED << chain, mark, delivered, failures >>

LoopMark(w) ==
    /\ loop[w].pc = "mark"
    /\ Mark(loop[w].member.coupon, "RETRYING")
    /\ Proceed(w, loop[w].page)
    /\ UNCHANGED << chain, queue, due, delivered, failures >>

-----------------------------------------------------------------------------
(* The rest of the world.                                                   *)

\* The delay of a member (2 s to 32 s) is over.
FallDue(m) ==
    /\ m \in queue \ due
    /\ due' = due \union {m}
    /\ UNCHANGED << chain, loop, queue, mark, delivered, failures, lost, budget >>

\* Notifications that exist only in the memory of process w.
HeldBy(w) ==
    { chain[ch].coupon :
        ch \in { k \in Chains : chain[k].by = w /\ chain[k].pc \in InMemory } }
    \union (IF loop[w].pc \in {"post", "zadd", "failed"} THEN {loop[w].member.coupon} ELSE {})

Crash(w) ==
    /\ loop[w].pc # "down"
    /\ budget.crashes > 0
    /\ budget' = [budget EXCEPT !.crashes = @ - 1]
    /\ lost' = lost \union HeldBy(w)
    /\ loop' = [loop EXCEPT ![w] = Down]
    /\ chain' = [ch \in Chains |-> IF chain[ch].by = w /\ chain[ch].pc # "unused"
                                   THEN [chain[ch] EXCEPT !.pc = "done"] ELSE chain[ch]]
    /\ UNCHANGED << queue, due, mark, delivered, failures >>

\* A snapshot is taken (if a restart is left within the bound).
RedisSave ==
    /\ budget.restarts > 0
    /\ saved' = queue
    /\ UNCHANGED << notifyVars, restored >>

\* Redis comes back with the last snapshot, or empty in a new container.  (If
\* that is the queue as it was, nobody notices.)
RedisRestart ==
    /\ budget.restarts > 0
    /\ budget' = [budget EXCEPT !.restarts = @ - 1]
    /\ \E image \in {saved, {}} \ {queue} :
          /\ saved' = image
          /\ queue' = image /\ due' = {}
          /\ lost' = lost \union { m.coupon : m \in queue \ image }
          /\ restored' = restored \union { m.coupon : m \in image \ queue }
    /\ UNCHANGED << chain, loop, mark, delivered, failures >>

ChainStep(ch) ==
    \/ FireNotify(ch) \/ InlineOk(ch) \/ InlineFails(ch) \/ ChainSent(ch)
    \/ ChainZadd(ch) \/ ChainZaddFails(ch) \/ ChainMark(ch)

LoopStep(w) ==
    \/ Poll(w) \/ PollNothing(w)
    \/ \E m \in loop[w].page : Zrem(w, m) \/ ZremFails(w, m)
    \/ RetryOk(w) \/ RetryFails(w)
    \/ LoopSettles(w) \/ LoopZadd(w) \/ LoopZaddFails(w) \/ LoopMark(w)

Undisturbed(step) == step /\ UNCHANGED snapshotVars

Next ==
    \/ \E ch \in Chains : Undisturbed(Acked(ch) \/ AckAnswerLost(ch) \/ ChainStep(ch))
    \/ \E w \in Workers : Undisturbed(Start(w) \/ LoopStep(w) \/ Crash(w))
    \/ \E m \in queue : Undisturbed(FallDue(m))
    \/ RedisSave
    \/ RedisRestart

\* The WebClient and the loops run, a dead process is started again, and the
\* delays pass.
Fairness ==
    /\ \A ch \in Chains : WF_vars(Undisturbed(ChainStep(ch)))
    /\ \A w \in Workers : WF_vars(Undisturbed(Start(w))) /\ WF_vars(Undisturbed(LoopStep(w)))
    /\ \A m \in Member : WF_vars(Undisturbed(FallDue(m)))

Spec == Init /\ [][Next]_vars /\ Fairness

-----------------------------------------------------------------------------
(* Properties.                                                              *)

TypeOK ==
    /\ chain \in [Chains -> [pc : ChainPcs, left : 0..InlinePosts, coupon : Coupons, by : Workers]]
    /\ loop \in [Workers -> [pc : LoopPcs, page : SUBSET Member,
                             member : Member \union {NoMember}]]
    /\ queue \subseteq Member /\ due \subseteq queue
    /\ mark \in [Coupons -> Marks]
    /\ delivered \subseteq Coupons /\ lost \subseteq Coupons
    /\ failures \in [Coupons -> 0..AllPosts]
    /\ budget \in [crashes : Nat, faults : Nat, restarts : Nat]
    /\ saved \subseteq Member /\ restored \subseteq Coupons

Entries(c) == { ch \in Chains : chain[ch].coupon = c /\ chain[ch].pc # "unused" }

\* Where the notification of c is still under way: in a callback, in the
\* queue, in a retry loop.
InCallbacks(c) == { ch \in Chains : chain[ch].coupon = c /\ chain[ch].pc \in InMemory }
InQueue(c)     == { m \in queue : m.coupon = c }
InLoops(c)     == { w \in Workers : /\ loop[w].pc \in {"post", "zadd", "failed"}
                                   /\ loop[w].member.coupon = c }

UnderWay(c) == InCallbacks(c) # {} \/ InQueue(c) # {} \/ InLoops(c) # {}

\* Something is yet to be written about c.
Marking(c) ==
    \/ \E ch \in Chains : chain[ch].coupon = c /\ chain[ch].pc \in {"sent", "mark"}
    \/ \E w \in Workers : loop[w].pc \in {"sent", "mark"} /\ loop[w].member.coupon = c

Over(c) == c \in delivered \/ mark[c] = "FAILED_PERMANENT"

\* SENT is only ever written about a coupon that the API accepted.
SentIsDelivered == \A c \in Coupons : mark[c] = "SENT" => c \in delivered

\* FAILED_PERMANENT asks for manual work: it takes the failure of the inline
\* POSTs and of every attempt, whatever crashed, was lost or came back from a
\* snapshot on the way.
GivenUpAfterAll ==
    \A c \in Coupons : mark[c] = "FAILED_PERMANENT" => failures[c] = AllPosts

\* ZREM hands a member to one loop only: an issue with one entry is never tried
\* in two places at a time, however many processes serve the queue, unless a
\* restart of Redis has put a member back that was gone from the queue.
OneAtATime ==
    \A c \in Coupons \ restored :
        Cardinality(Entries(c)) <= 1 =>
            Cardinality(InCallbacks(c)) + Cardinality(InQueue(c)) + Cardinality(InLoops(c)) <= 1

\* Where notifications can get lost is known: from the XACK on one is under
\* way, over, or it was in the hands of a thread when its process died or its
\* Redis or MySQL call failed, or in the queue but not in the snapshot with
\* which Redis came back, or its FAILED_PERMANENT was overwritten by a late RETRYING.
Accounted ==
    \A c \in Coupons : Entries(c) # {} => UnderWay(c) \/ Over(c) \/ c \in lost

\* Every notification comes to an end: the attempts are counted up to the last
\* also when the API never answers.
Settles == \A c \in Coupons : <>[]~(UnderWay(c) \/ Marking(c))

\* IssueStreamWorker.java:192 promises at-least-once sending: once its entry
\* is acknowledged, and so no longer offered to anybody, a notification is
\* under way until it is over.
AtLeastOnce == \A c \in Coupons : Entries(c) # {} => UnderWay(c) \/ Over(c)

\* NotifyRetryQueueTest.java:111: once the API has recovered, a retried
\* notification ends up SENT.
EndsMarked ==
    \A c \in Coupons :
        (Entries(c) # {} /\ ~UnderWay(c) /\ ~Marking(c)) => mark[c] \in {"SENT", "FAILED_PERMANENT"}

=============================================================================
