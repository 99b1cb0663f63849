-------------------------- MODULE NotifyRetryProofs ---------------------------
(***************************************************************************)
(* NotifyRetry proved for any number of issues, processes and faults, any  *)
(* finite number of chains, and any number of attempts.                     *)
(*                                                                          *)
(* The argument: wherever a notification is under way, the POSTs that have *)
(* failed so far are at least those its place stands for (ChainOK, LoopOK, *)
(* QueueOK), so the last attempt is the last of all POSTs.  A step moves a *)
(* notification to its next place, or ends it, or drops it into lost.  An  *)
(* issue with one entry is therefore in one place at a time (Alone).        *)
(***************************************************************************)
EXTENDS NotifyRetry, FiniteSetTheorems, TLAPS

ChainState == [pc : ChainPcs, left : 0..InlinePosts, coupon : Coupons, by : Workers]
LoopState  == [pc : LoopPcs, page : SUBSET Member, member : Member \union {NoMember}]

\* Where a loop has a member in its hands, and where it may still drop it.
Busy    == {"post", "sent", "failed", "zadd", "mark"}
Holding == {"post", "zadd", "failed"}

\* What a chain stands for.
ChainOK(q) ==
    /\ q \in ChainState
    /\ q.pc \in {"unused", "acked"} => q.left = InlinePosts
    /\ q.pc = "post" => q.left >= 1 /\ failures[q.coupon] >= InlinePosts - q.left
    /\ q.pc = "zadd" => failures[q.coupon] >= InlinePosts
    /\ q.pc = "sent" => q.coupon \in delivered

\* What a retry loop stands for.
LoopOK(l) ==
    /\ l \in LoopState
    /\ l.pc \in Busy => l.member \in Member
    /\ l.pc = "post" => failures[l.member.coupon] >= InlinePosts + l.member.attempt - 1
    /\ l.pc = "zadd" => /\ l.member.attempt < MaxAttempts
                        /\ failures[l.member.coupon] >= InlinePosts + l.member.attempt
    /\ l.pc = "failed" => failures[l.member.coupon] = AllPosts
    /\ l.pc = "sent" => l.member.coupon \in delivered

QueueOK == \A m \in queue : failures[m.coupon] >= InlinePosts + m.attempt - 1

Typed ==
    /\ queue \subseteq Member /\ due \subseteq queue
    /\ mark \in [Coupons -> Marks]
    /\ failures \in [Coupons -> 0..AllPosts]
    /\ DOMAIN chain = Chains /\ chain = [ch \in Chains |-> chain[ch]]
    /\ DOMAIN loop = Workers /\ loop = [w \in Workers |-> loop[w]]

NotifyInv ==
    /\ Typed
    /\ \A ch \in Chains : ChainOK(chain[ch])
    /\ \A w \in Workers : LoopOK(loop[w])
    /\ QueueOK /\ SentIsDelivered /\ GivenUpAfterAll /\ Accounted

\* What a restart of Redis may bring back stands for no more POSTs either.
Restorable ==
    saved \subseteq Member
    /\ \A m \in saved : failures[m.coupon] >= InlinePosts + m.attempt - 1

\* What every step does to what the threads share.
World ==
    /\ delivered \subseteq delivered' /\ lost \subseteq lost'
    /\ failures' \in [Coupons -> 0..AllPosts]
    /\ \A c \in Coupons : failures[c] <= failures'[c]
    /\ queue' \subseteq Member /\ due' \subseteq queue' /\ QueueOK'
    /\ mark' \in [Coupons -> Marks] /\ SentIsDelivered' /\ GivenUpAfterAll'
    /\ \A c \in Coupons : mark[c] = "FAILED_PERMANENT" =>
          mark'[c] = "FAILED_PERMANENT" \/ c \in delivered' \/ c \in lost'

\* A notification is over, dropped, or back in the queue.
Gone(c) == Over(c) \/ c \in lost \/ \E m \in queue : m.coupon = c

-----------------------------------------------------------------------------
\* The constants as numbers.
LEMMA Bounds ==
  /\ InlinePosts \in Nat /\ InlinePosts >= 1 /\ MaxAttempts \in Nat /\ MaxAttempts >= 1
  /\ AllPosts = InlinePosts + MaxAttempts /\ AllPosts \in Nat
  BY NotifyAssumption DEF AllPosts

\* A chain or loop that does not move still stands for what it did.
LEMMA OthersStay ==
  ASSUME NotifyInv, World
  PROVE  /\ \A ch \in Chains : \A q : q = chain[ch] => ChainOK(q)'
         /\ \A w \in Workers : \A l : l = loop[w] => LoopOK(l)'
<1>1. \A c \in Coupons : /\ failures[c] \in 0..AllPosts /\ failures'[c] \in 0..AllPosts
                         /\ failures[c] <= failures'[c]
  BY DEF NotifyInv, Typed, World
<1>2. ASSUME NEW q, ChainOK(q) PROVE ChainOK(q)'
  <2>1. q.coupon \in Coupons /\ q.left \in 0..InlinePosts
    BY <1>2 DEF ChainOK, ChainState
  <2> QED
    BY <1>1, <1>2, <2>1, Bounds DEF ChainOK, World
<1>3. ASSUME NEW l, LoopOK(l) PROVE LoopOK(l)'
  <2>1. CASE l.pc \in Busy
    <3>1. l.member.coupon \in Coupons /\ l.member.attempt \in 1..MaxAttempts
      BY <1>3, <2>1 DEF LoopOK, Member
    <3> QED
      BY <1>1, <1>3, <3>1, Bounds DEF LoopOK, World
  <2>2. CASE l.pc \notin Busy
    BY <1>3, <2>2 DEF LoopOK, Busy
  <2> QED
    BY <2>1, <2>2
<1> QED
  BY <1>2, <1>3 DEF NotifyInv

\* UnderWay, place by place.
LEMMA Places ==
  ASSUME NEW c
  PROVE  UnderWay(c) <=>
           \/ \E ch \in Chains : chain[ch].coupon = c /\ chain[ch].pc \in InMemory
           \/ \E m \in queue : m.coupon = c
           \/ \E w \in Workers : loop[w].pc \in Holding /\ loop[w].member.coupon = c
  BY DEF UnderWay, InCallbacks, InQueue, InLoops, Holding

\* A step of one chain.
LEMMA ChainKeeps ==
  ASSUME NotifyInv, World, NEW ch \in Chains, NEW q, ChainOK(q)',
         chain' = [chain EXCEPT ![ch] = q], UNCHANGED loop, queue \subseteq queue',
         q.coupon = chain[ch].coupon,
         chain[ch].pc \in InMemory \union {"unused"} =>
            q.pc \in InMemory \/ Gone(q.coupon)'
  PROVE  NotifyInv'
<1>1. /\ DOMAIN chain' = Chains /\ chain' = [k \in Chains |-> chain'[k]] /\ chain'[ch] = q
      /\ \A k \in Chains \ {ch} : chain'[k] = chain[k]
  BY DEF NotifyInv, Typed
<1>2. Typed'
  BY <1>1 DEF NotifyInv, Typed, World
<1>3. ASSUME NEW k \in Chains PROVE ChainOK(chain[k])'
  <2>1. CASE k = ch
    BY <1>1, <2>1 DEF ChainOK
  <2>2. CASE k # ch
    <3>1. \A p : p = chain[k] => ChainOK(p)'
      BY OthersStay
    <3> QED
      BY <1>1, <2>2, <3>1 DEF ChainOK
  <2> QED
    BY <2>1, <2>2
<1>4. ASSUME NEW w \in Workers PROVE LoopOK(loop[w])'
  <2>1. \A l : l = loop[w] => LoopOK(l)'
    BY OthersStay
  <2> QED
    BY <2>1 DEF LoopOK
<1>5. ASSUME NEW c \in Coupons, Entries(c)' # {}
      PROVE  (UnderWay(c) \/ Over(c) \/ c \in lost)'
  <2>1. ASSUME Over(c) \/ c \in lost PROVE (Over(c) \/ c \in lost)'
    BY <2>1 DEF World, Over
  <2>2. CASE c = q.coupon /\ chain[ch].pc \in InMemory \union {"unused"}
    <3>1. CASE q.pc \in InMemory
      <4>1. \E k \in Chains : chain'[k].coupon = c /\ chain'[k].pc \in InMemory
        BY <1>1, <2>2, <3>1
      <4> QED
        BY <4>1 DEF UnderWay, InCallbacks, InMemory
    <3>2. CASE Gone(q.coupon)'
      BY <2>2, <3>2 DEF Gone, UnderWay, InQueue, Over
    <3> QED
      BY <2>2, <3>1, <3>2
  <2>3. CASE ~(c = q.coupon /\ chain[ch].pc \in InMemory \union {"unused"})
    <3>1. Entries(c) # {}
      BY <1>1, <1>5, <2>3 DEF Entries
    <3>2. UnderWay(c) \/ Over(c) \/ c \in lost
      BY <3>1 DEF NotifyInv, Accounted
    <3>3. UnderWay(c) => UnderWay(c)'
      <4>1. \A k \in Chains : chain[k].coupon = c /\ chain[k].pc \in InMemory =>
               chain'[k].coupon = c /\ chain'[k].pc \in InMemory
        BY <1>1, <2>3
      <4> QED
        BY <4>1 DEF UnderWay, InCallbacks, InQueue, InLoops, InMemory
    <3> QED
      BY <2>1, <3>2, <3>3
  <2> QED
    BY <2>2, <2>3
<1> QED
  BY <1>2, <1>3, <1>4, <1>5 DEF NotifyInv, World, Accounted

\* A step of one loop; what leaves the queue it holds, or it is lost.
LEMMA LoopKeeps ==
  ASSUME NotifyInv, World, NEW w \in Workers, NEW l, LoopOK(l)',
         loop' = [loop EXCEPT ![w] = l], UNCHANGED chain,
         \A m \in queue \ queue' :
            m.coupon \in lost' \/ (l.pc \in Holding /\ l.member.coupon = m.coupon),
         \A c \in Coupons :
            loop[w].pc \in Holding /\ loop[w].member.coupon = c =>
               (l.pc \in Holding /\ l.member.coupon = c) \/ Gone(c)'
  PROVE  NotifyInv'
<1>1. /\ DOMAIN loop' = Workers /\ loop' = [v \in Workers |-> loop'[v]] /\ loop'[w] = l
      /\ \A v \in Workers \ {w} : loop'[v] = loop[v]
  BY DEF NotifyInv, Typed
<1>2. Typed'
  BY <1>1 DEF NotifyInv, Typed, World
<1>3. ASSUME NEW v \in Workers PROVE LoopOK(loop[v])'
  <2>1. CASE v = w
    BY <1>1, <2>1 DEF LoopOK
  <2>2. CASE v # w
    <3>1. \A p : p = loop[v] => LoopOK(p)'
      BY OthersStay
    <3> QED
      BY <1>1, <2>2, <3>1 DEF LoopOK
  <2> QED
    BY <2>1, <2>2
<1>4. ASSUME NEW k \in Chains PROVE ChainOK(chain[k])'
  <2>1. \A p : p = chain[k] => ChainOK(p)'
    BY OthersStay
  <2> QED
    BY <2>1 DEF ChainOK
<1>5. ASSUME NEW c \in Coupons, Entries(c)' # {}
      PROVE  (UnderWay(c) \/ Over(c) \/ c \in lost)'
  <2>1. Entries(c) # {}
    BY <1>5 DEF Entries
  <2>2. UnderWay(c) \/ Over(c) \/ c \in lost
    BY <2>1 DEF NotifyInv, Accounted
  <2>3. ASSUME Over(c) \/ c \in lost PROVE (Over(c) \/ c \in lost)'
    BY <2>3 DEF World, Over
  <2>4. ASSUME NEW k \in Chains, chain[k].coupon = c, chain[k].pc \in InMemory
        PROVE  UnderWay(c)'
    BY <2>4 DEF UnderWay, InCallbacks, InMemory
  <2>5. (l.pc \in Holding /\ l.member.coupon = c) => UnderWay(c)'
    BY <1>1 DEF UnderWay, InLoops, Holding
  <2>6. (\E m \in queue' : m.coupon = c) => UnderWay(c)'
    BY DEF UnderWay, InQueue
  <2>7. ASSUME NEW m \in queue, m.coupon = c PROVE UnderWay(c)' \/ c \in lost'
    BY <2>5, <2>6, <2>7
  <2>8. ASSUME NEW v \in Workers, loop[v].pc \in Holding, loop[v].member.coupon = c
        PROVE  (UnderWay(c) \/ Over(c) \/ c \in lost)'
    <3>1. CASE v = w
      BY <2>5, <2>6, <2>8, <3>1 DEF Gone, Over
    <3>2. CASE v # w
      <4>1. loop'[v] = loop[v]
        BY <1>1, <3>2
      <4> QED
        BY <2>8, <4>1 DEF UnderWay, InLoops, Holding
    <3> QED
      BY <3>1, <3>2
  <2>9. CASE UnderWay(c)
    BY <2>4, <2>7, <2>8, <2>9, Places
  <2> QED
    BY <2>2, <2>3, <2>9
<1> QED
  BY <1>2, <1>3, <1>4, <1>5 DEF NotifyInv, World, Accounted

\* The threads do not move: Redis restarts, or a member falls due.
LEMMA QueueKeeps ==
  ASSUME NotifyInv, World, UNCHANGED << chain, loop >>,
         \A m \in queue \ queue' : m.coupon \in lost'
  PROVE  NotifyInv'
<1>1. Typed'
  BY DEF NotifyInv, Typed, World
<1>2. ASSUME NEW ch \in Chains PROVE ChainOK(chain[ch])'
  <2>1. \A q : q = chain[ch] => ChainOK(q)'
    BY OthersStay
  <2> QED
    BY <2>1 DEF ChainOK
<1>3. ASSUME NEW w \in Workers PROVE LoopOK(loop[w])'
  <2>1. \A l : l = loop[w] => LoopOK(l)'
    BY OthersStay
  <2> QED
    BY <2>1 DEF LoopOK
<1>4. ASSUME NEW c \in Coupons, Entries(c)' # {}
      PROVE  (UnderWay(c) \/ Over(c) \/ c \in lost)'
  <2>1. UnderWay(c) \/ Over(c) \/ c \in lost
    BY <1>4 DEF NotifyInv, Accounted, Entries
  <2>2. ASSUME Over(c) \/ c \in lost PROVE (Over(c) \/ c \in lost)'
    BY <2>2 DEF World, Over
  <2>3. InCallbacks(c)' = InCallbacks(c) /\ InLoops(c)' = InLoops(c)
    BY DEF InCallbacks, InLoops, InMemory
  <2>4. InQueue(c) # {} => InQueue(c)' # {} \/ c \in lost'
    BY DEF InQueue
  <2> QED
    BY <2>1, <2>2, <2>3, <2>4 DEF UnderWay
<1> QED
  BY <1>1, <1>2, <1>3, <1>4 DEF NotifyInv, World, Accounted

-----------------------------------------------------------------------------
(* What the parts of a step do to the shared state.                         *)

\* Nothing but due and lost changes.
LEMMA QuietWorld ==
  ASSUME NotifyInv, UNCHANGED << queue, mark, delivered, failures >>,
         due' \subseteq queue, lost \subseteq lost'
  PROVE  World
  BY Bounds DEF NotifyInv, Typed, World, QueueOK, SentIsDelivered, GivenUpAfterAll, AllPosts

\* Members leave the queue.
LEMMA RemoveWorld ==
  ASSUME NotifyInv, UNCHANGED << mark, delivered, failures >>,
         queue' \subseteq queue, due' \subseteq queue', lost \subseteq lost'
  PROVE  World
  BY Bounds DEF NotifyInv, Typed, World, QueueOK, SentIsDelivered, GivenUpAfterAll, AllPosts

\* ZADD of the next attempt.
LEMMA EnqueueWorld ==
  ASSUME NotifyInv, UNCHANGED << mark, delivered, failures >>, lost \subseteq lost',
         NEW c \in Coupons, NEW n \in 1..MaxAttempts, Enqueue(c, n),
         failures[c] >= InlinePosts + n - 1
  PROVE  World /\ queue \subseteq queue' /\ Gone(c)'
<1> DEFINE m == [coupon |-> c, attempt |-> n]
<1>1. m \in Member /\ m.coupon = c /\ m.attempt = n
  BY DEF Member
<1>2. queue' = queue \union {m} /\ due' = due \ {m}
  BY DEF Enqueue
<1> HIDE DEF m
<1>3. queue' \subseteq Member /\ due' \subseteq queue'
  BY <1>1, <1>2 DEF NotifyInv, Typed
<1>4. QueueOK'
  BY <1>1, <1>2 DEF NotifyInv, QueueOK
<1>5. World
  BY <1>3, <1>4, Bounds DEF NotifyInv, Typed, World, SentIsDelivered, GivenUpAfterAll, AllPosts
<1> QED
  BY <1>1, <1>2, <1>5 DEF Gone

\* A POST.
LEMMA PostWorld ==
  ASSUME NotifyInv, UNCHANGED << queue, due, mark, lost >>, NEW c \in Coupons,
         PostSucceeds(c) \/ PostFails(c)
  PROVE  /\ World
         /\ PostSucceeds(c) => c \in delivered'
         /\ PostFails(c) /\ failures[c] < AllPosts => failures'[c] = failures[c] + 1
         /\ PostFails(c) /\ failures[c] = AllPosts => failures'[c] = AllPosts
<1>1. failures \in [Coupons -> 0..AllPosts] /\ AllPosts \in Nat
  BY Bounds DEF NotifyInv, Typed
<1>2. /\ delivered \subseteq delivered' /\ failures' \in [Coupons -> 0..AllPosts]
      /\ \A d \in Coupons : failures[d] <= failures'[d]
  <2>1. CASE PostSucceeds(c)
    BY <1>1, <2>1 DEF PostSucceeds
  <2>2. CASE PostFails(c)
    BY <1>1, <2>2 DEF PostFails
  <2> QED
    BY <2>1, <2>2
<1>3. QueueOK'
  <2>1. ASSUME NEW m \in queue PROVE failures'[m.coupon] >= InlinePosts + m.attempt - 1
    <3>1. m.coupon \in Coupons /\ m.attempt \in 1..MaxAttempts
      BY DEF NotifyInv, Typed, Member
    <3> QED
      BY <1>1, <1>2, <3>1, Bounds DEF NotifyInv, QueueOK
  <2> QED
    BY <2>1 DEF QueueOK
<1>4. SentIsDelivered' /\ GivenUpAfterAll'
  BY <1>1, <1>2 DEF NotifyInv, SentIsDelivered, GivenUpAfterAll, AllPosts
<1>5. World
  BY <1>2, <1>3, <1>4 DEF NotifyInv, Typed, World
<1>6. /\ PostSucceeds(c) => c \in delivered'
      /\ PostFails(c) /\ failures[c] < AllPosts => failures'[c] = failures[c] + 1
      /\ PostFails(c) /\ failures[c] = AllPosts => failures'[c] = AllPosts
  BY <1>1 DEF PostSucceeds, PostFails
<1> QED
  BY <1>5, <1>6

\* markNotify, with a mark that is due.
LEMMA MarkWorld ==
  ASSUME NotifyInv, UNCHANGED << queue, due, delivered, failures >>, NEW c \in Coupons,
         NEW status \in Marks \ {"PENDING"}, Mark(c, status),
         status = "SENT" => c \in delivered,
         status = "FAILED_PERMANENT" => failures[c] = AllPosts
  PROVE  World /\ (status = "FAILED_PERMANENT" => Gone(c)')
<1>1. /\ mark \in [Coupons -> Marks] /\ failures \in [Coupons -> 0..AllPosts]
      /\ \A d \in Coupons : failures[d] \in Nat
  BY Bounds DEF NotifyInv, Typed
<1>2. /\ lost \subseteq lost' /\ (mark' = [mark EXCEPT ![c] = status] \/ mark' = mark)
      /\ mark' = mark /\ mark[c] # "FAILED_PERMANENT" /\ status = "FAILED_PERMANENT" => c \in lost'
      /\ (mark[c] = "FAILED_PERMANENT" /\ status = "RETRYING") => mark' = mark \/ c \in lost'
  BY <1>1 DEF Mark
<1>3. mark' \in [Coupons -> Marks] /\ SentIsDelivered' /\ GivenUpAfterAll'
  BY <1>1, <1>2 DEF NotifyInv, SentIsDelivered, GivenUpAfterAll, AllPosts
<1>4. ASSUME NEW d \in Coupons, mark[d] = "FAILED_PERMANENT"
      PROVE  mark'[d] = "FAILED_PERMANENT" \/ d \in delivered' \/ d \in lost'
  BY <1>1, <1>2, <1>4 DEF Marks
<1>5. status = "FAILED_PERMANENT" => Gone(c)'
  BY <1>1, <1>2 DEF Gone, Over
<1>6. QueueOK' /\ queue' \subseteq Member /\ due' \subseteq queue'
  BY DEF NotifyInv, Typed, QueueOK
<1> QED
  BY <1>1, <1>2, <1>3, <1>4, <1>5, <1>6 DEF World

-----------------------------------------------------------------------------
(* The chains.                                                              *)

\* A chain with another pc, and maybe one POST less to go.
LEMMA ChainStates ==
  ASSUME NotifyInv, NEW ch \in Chains
  PROVE  /\ ChainOK(chain[ch]) /\ chain[ch].coupon \in Coupons
         /\ chain[ch].left \in 0..InlinePosts
         /\ \A pc \in ChainPcs :
               /\ [chain[ch] EXCEPT !.pc = pc] \in ChainState
               /\ [chain[ch] EXCEPT !.pc = pc].pc = pc
               /\ [chain[ch] EXCEPT !.pc = pc].left = chain[ch].left
               /\ [chain[ch] EXCEPT !.pc = pc].coupon = chain[ch].coupon
               /\ ChainTo(ch, pc) => chain' = [chain EXCEPT ![ch] = [chain[ch] EXCEPT !.pc = pc]]
<1>1. ChainOK(chain[ch]) /\ chain[ch] \in ChainState
  BY DEF NotifyInv, ChainOK
<1> QED
  BY <1>1 DEF ChainState, ChainTo

\* A chain that goes on to a pc which asks nothing of the rest.
LEMMA ChainGoes ==
  ASSUME NotifyInv, World, NEW ch \in Chains, NEW pc \in ChainPcs, ChainTo(ch, pc),
         UNCHANGED loop, queue \subseteq queue',
         pc \in {"acked", "post"} => chain[ch].left = InlinePosts,
         pc \in {"acked", "post", "mark", "done", "sent"},
         NEW c, c = chain[ch].coupon,
         pc = "sent" => c \in delivered',
         chain[ch].pc \in InMemory \union {"unused"} => pc \in InMemory \/ Gone(c)'
  PROVE  NotifyInv'
<1> DEFINE q == [chain[ch] EXCEPT !.pc = pc]
<1>1. /\ q \in ChainState /\ q.pc = pc /\ q.left = chain[ch].left /\ q.coupon = c
      /\ chain' = [chain EXCEPT ![ch] = q] /\ c \in Coupons
  BY ChainStates
<1>2. PICK p : p = q
  OBVIOUS
<1> HIDE DEF q
<1>3. ChainOK(p)'
  <2>1. failures'[c] >= 0
    BY <1>1, Bounds DEF World
  <2> QED
    BY <1>1, <1>2, <2>1, Bounds DEF ChainOK
<1> QED
  BY <1>1, <1>2, <1>3, ChainKeeps

\* A POST of a chain, the delay queue and the marks.
LEMMA ChainStepKeeps ==
  ASSUME NotifyInv, NEW ch \in Chains, ChainStep(ch) \/ Acked(ch) \/ AckAnswerLost(ch)
  PROVE  NotifyInv'
<1> USE DEF ChainPcs, InMemory
<1>1. PICK c \in Coupons : c = chain[ch].coupon
  BY ChainStates
<1>2. PICK r : r = chain[ch]
  OBVIOUS
<1>3. ChainOK(r) /\ r.left \in 0..InlinePosts /\ r.coupon = c
  BY <1>1, <1>2, ChainStates
<1>4. CASE Acked(ch)
  <2>1. /\ chain[ch].pc = "unused" /\ ChainTo(ch, "acked") /\ r.left = InlinePosts
        /\ UNCHANGED << loop, queue, due, mark, delivered, failures, lost >>
    BY <1>2, <1>3, <1>4 DEF Acked, ChainOK
  <2>2. World
    BY <2>1, QuietWorld DEF NotifyInv, Typed
  <2> QED
    BY <1>1, <1>2, <2>1, <2>2, ChainGoes
<1>5. CASE AckAnswerLost(ch)
  <2>1. /\ ChainTo(ch, "done") /\ lost' = lost \union {c}
        /\ UNCHANGED << loop, queue, due, mark, delivered, failures >>
    BY <1>1, <1>5 DEF AckAnswerLost
  <2>2. World /\ Gone(c)'
    BY <2>1, QuietWorld DEF NotifyInv, Typed, Gone
  <2> QED
    BY <1>1, <2>1, <2>2, ChainGoes
<1>6. CASE FireNotify(ch)
  <2>1. /\ chain[ch].pc = "acked" /\ ChainTo(ch, "post") /\ r.left = InlinePosts
        /\ UNCHANGED << loop, queue, due, mark, delivered, failures, lost >>
    BY <1>2, <1>3, <1>6 DEF FireNotify, ChainOK
  <2>2. World
    BY <2>1, QuietWorld DEF NotifyInv, Typed
  <2> QED
    BY <1>1, <1>2, <2>1, <2>2, ChainGoes
<1>7. CASE InlineOk(ch)
  <2>1. /\ ChainTo(ch, "sent") /\ PostSucceeds(c)
        /\ UNCHANGED << loop, queue, due, mark, lost >>
    BY <1>1, <1>7 DEF InlineOk
  <2>2. World /\ c \in delivered'
    BY <2>1, PostWorld
  <2>3. Gone(c)'
    BY <2>2 DEF Gone, Over
  <2> QED
    BY <1>1, <2>1, <2>2, <2>3, ChainGoes
<1>8. CASE InlineFails(ch)
  <2> DEFINE q == [r EXCEPT !.left = r.left - 1, !.pc = IF r.left = 1 THEN "zadd" ELSE "post"]
  <2>1. /\ r.pc = "post" /\ PostFails(c) /\ chain' = [chain EXCEPT ![ch] = q]
        /\ UNCHANGED << loop, queue, due, mark, lost >>
    BY <1>1, <1>2, <1>8 DEF InlineFails
  <2>2. /\ r.left \in 1..InlinePosts /\ failures[c] >= InlinePosts - r.left
        /\ r \in ChainState
    BY <1>3, <2>1 DEF ChainOK
  <2>3. /\ q \in ChainState /\ q.coupon = c /\ q.left = r.left - 1
        /\ q.pc = IF r.left = 1 THEN "zadd" ELSE "post"
    <3>1. r.left - 1 \in 0..InlinePosts
      BY <2>2, Bounds
    <3>2. PICK pc \in ChainPcs : pc = IF r.left = 1 THEN "zadd" ELSE "post"
      BY DEF ChainPcs
    <3>3. PICK p : p = [r EXCEPT !.left = r.left - 1]
      OBVIOUS
    <3>4. p \in ChainState /\ p.coupon = c /\ p.left = r.left - 1
      BY <1>3, <2>2, <3>1, <3>3 DEF ChainState
    <3>5. q = [p EXCEPT !.pc = pc]
      BY <3>2, <3>3
    <3> HIDE DEF q
    <3> QED
      BY <3>2, <3>4, <3>5 DEF ChainState
  <2>4. PICK p : p = q
    OBVIOUS
  <2> HIDE DEF q
  <2>5. /\ World
        /\ failures[c] < AllPosts => failures'[c] = failures[c] + 1
        /\ failures[c] = AllPosts => failures'[c] = AllPosts
    BY <2>1, PostWorld
  <2>6. failures[c] \in 0..AllPosts
    BY DEF NotifyInv, Typed
  <2>7. failures'[c] >= InlinePosts - q.left
    BY <2>2, <2>3, <2>5, <2>6, Bounds
  <2>8. ChainOK(p)'
    <3>1. q.pc = "zadd" => q.left = 0
      BY <2>2, <2>3, Bounds
    <3>2. q.pc = "post" => q.left >= 1
      BY <2>2, <2>3, Bounds
    <3> QED
      BY <2>3, <2>4, <2>7, <3>1, <3>2, Bounds DEF ChainOK
  <2> QED
    BY <1>1, <2>1, <2>3, <2>4, <2>5, <2>8, ChainKeeps
<1>9. CASE ChainSent(ch)
  <2>1. /\ r.pc = "sent" /\ Mark(c, "SENT") /\ ChainTo(ch, "done")
        /\ UNCHANGED << loop, queue, due, delivered, failures >>
    BY <1>1, <1>2, <1>9 DEF ChainSent
  <2>2. World
    BY <1>3, <2>1, MarkWorld DEF ChainOK, Marks
  <2> QED
    BY <1>1, <1>2, <2>1, <2>2, ChainGoes
<1>10. ASSUME r.pc = "zadd", Enqueue(c, 1), lost' = lost,
              UNCHANGED << mark, delivered, failures >>
       PROVE  World /\ queue \subseteq queue' /\ Gone(c)'
  <2>1. failures[c] >= InlinePosts /\ 1 \in 1..MaxAttempts
    BY <1>3, <1>10, Bounds DEF ChainOK
  <2> QED
    BY <1>10, <2>1, Bounds, EnqueueWorld
<1>11. CASE ChainZadd(ch)
  <2>1. /\ r.pc = "zadd" /\ Enqueue(c, 1) /\ ChainTo(ch, "mark") /\ lost' = lost
        /\ UNCHANGED << loop, mark, delivered, failures >>
    BY <1>1, <1>2, <1>11 DEF ChainZadd
  <2> QED
    BY <1>1, <1>10, <2>1, ChainGoes
<1>12. CASE ChainZaddFails(ch)
  <2>1. /\ r.pc = "zadd" /\ ChainTo(ch, "done") /\ UNCHANGED << loop, mark, delivered, failures >>
        /\ \/ UNCHANGED << queue, due >> /\ lost' = lost \union {c}
           \/ Enqueue(c, 1) /\ lost' = lost
    BY <1>1, <1>2, <1>12 DEF ChainZaddFails
  <2>2. World /\ queue \subseteq queue' /\ Gone(c)'
    <3>1. CASE UNCHANGED << queue, due >> /\ lost' = lost \union {c}
      BY <2>1, <3>1, QuietWorld DEF NotifyInv, Typed, Gone
    <3> QED
      BY <1>10, <2>1, <3>1
  <2> QED
    BY <1>1, <2>1, <2>2, ChainGoes
<1>13. CASE ChainMark(ch)
  <2>1. /\ r.pc = "mark" /\ Mark(c, "RETRYING") /\ ChainTo(ch, "done")
        /\ UNCHANGED << loop, queue, due, delivered, failures >>
    BY <1>1, <1>2, <1>13 DEF ChainMark
  <2>2. World
    BY <2>1, MarkWorld DEF Marks
  <2> QED
    BY <1>1, <1>2, <2>1, <2>2, ChainGoes
<1> QED
  BY <1>4, <1>5, <1>6, <1>7, <1>8, <1>9, <1>11, <1>12, <1>13 DEF ChainStep

-----------------------------------------------------------------------------
(* The retry loops.                                                         *)

\* A loop with another pc keeps its page and its member.
LEMMA LoopStates ==
  ASSUME NotifyInv, NEW w \in Workers
  PROVE  /\ LoopOK(loop[w]) /\ loop[w] \in LoopState
         /\ \A pc \in LoopPcs :
               /\ [loop[w] EXCEPT !.pc = pc] \in LoopState
               /\ [loop[w] EXCEPT !.pc = pc].pc = pc
               /\ [loop[w] EXCEPT !.pc = pc].member = loop[w].member
               /\ LoopTo(w, pc) => loop' = [loop EXCEPT ![w] = [loop[w] EXCEPT !.pc = pc]]
<1>1. LoopOK(loop[w]) /\ loop[w] \in LoopState
  BY DEF NotifyInv, LoopOK
<1> QED
  BY <1>1 DEF LoopState, LoopTo

\* A loop is done with its member, and goes on to the rest of its page.
LEMMA LoopProceeds ==
  ASSUME NotifyInv, World, NEW w \in Workers, NEW page \in SUBSET Member, Proceed(w, page),
         UNCHANGED chain, \A m \in queue \ queue' : m.coupon \in lost',
         \A c \in Coupons :
            loop[w].pc \in Holding /\ loop[w].member.coupon = c => Gone(c)'
  PROVE  NotifyInv'
<1> DEFINE l == [pc |-> IF page = {} THEN "poll" ELSE "zrem", page |-> page, member |-> NoMember]
<1>1. l \in LoopState /\ l.pc \in {"poll", "zrem"} /\ loop' = [loop EXCEPT ![w] = l]
  BY DEF Proceed, LoopState, LoopPcs
<1>2. PICK k : k = l
  OBVIOUS
<1> HIDE DEF l
<1>3. LoopOK(k)'
  BY <1>1, <1>2 DEF LoopOK, Busy
<1> QED
  BY <1>1, <1>2, <1>3, LoopKeeps

\* A step of a loop, or its start.
LEMMA LoopStepKeeps ==
  ASSUME NotifyInv, NEW w \in Workers, LoopStep(w) \/ Start(w)
  PROVE  NotifyInv'
<1> USE DEF LoopPcs, Holding
<1>1. PICK r : r = loop[w]
  OBVIOUS
<1>2. LoopOK(r) /\ r \in LoopState /\ r.page \subseteq Member
  BY <1>1, LoopStates DEF LoopState
\* A loop that goes on with the same member.
<1>3. ASSUME World, NEW pc \in LoopPcs, LoopTo(w, pc), UNCHANGED chain, queue \subseteq queue',
             pc \in Busy => r.member \in Member,
             pc # "post",
             NEW c, r.pc \in Busy => c = r.member.coupon,
             pc = "zadd" => /\ r.member.attempt < MaxAttempts
                            /\ failures'[c] >= InlinePosts + r.member.attempt
                            /\ r.pc \in Busy,
             pc = "failed" => failures'[c] = AllPosts /\ r.pc \in Busy,
             pc = "sent" => c \in delivered' /\ r.pc \in Busy,
             r.pc \in Holding => pc \in Holding \/ Gone(c)'
      PROVE  NotifyInv'
  <2> DEFINE l == [loop[w] EXCEPT !.pc = pc]
  <2>0. LoopTo(w, pc) /\ pc \in LoopPcs
    BY <1>3
  <2>1. /\ l \in LoopState /\ l.pc = pc /\ l.member = r.member
        /\ loop' = [loop EXCEPT ![w] = l]
    BY ONLY <1>1, <1>2, <2>0 DEF LoopState, LoopTo
  <2>2. PICK k : k = l
    OBVIOUS
  <2> HIDE DEF l
  <2>3. LoopOK(k)'
    BY <1>3, <2>1, <2>2 DEF LoopOK
  <2>4. \A d \in Coupons : loop[w].pc \in Holding /\ loop[w].member.coupon = d =>
                              (k.pc \in Holding /\ k.member.coupon = d) \/ Gone(d)'
    BY <1>1, <1>3, <2>1, <2>2 DEF Busy
  <2> QED
    BY <1>3, <2>1, <2>2, <2>3, <2>4, LoopKeeps
<1>4. CASE Start(w)
  <2>1. /\ r.pc = "down" /\ LoopTo(w, "poll")
        /\ UNCHANGED << chain, queue, due, mark, delivered, failures, lost >>
    BY <1>1, <1>4 DEF Start
  <2>2. World
    BY <2>1, QuietWorld DEF NotifyInv, Typed
  <2> QED
    BY <1>3, <2>1, <2>2 DEF Busy
<1>5. CASE Poll(w)
  <2>1. PICK page \in SUBSET due :
             loop' = [loop EXCEPT ![w].page = page, ![w].pc = "zrem"]
    BY <1>5 DEF Poll
  <2>2. r.pc = "poll" /\ UNCHANGED << chain, queue, due, mark, delivered, failures, lost >>
    BY <1>1, <1>5 DEF Poll
  <2> DEFINE l == [r EXCEPT !.page = page, !.pc = "zrem"]
  <2>3. page \subseteq Member
    BY DEF NotifyInv, Typed
  <2>4. l \in LoopState /\ l.pc = "zrem" /\ loop' = [loop EXCEPT ![w] = l]
    BY <1>1, <1>2, <2>1, <2>3 DEF LoopState
  <2>5. PICK k : k = l
    OBVIOUS
  <2> HIDE DEF l
  <2>6. LoopOK(k)' /\ World
    BY <2>2, <2>4, <2>5, QuietWorld DEF LoopOK, Busy, NotifyInv, Typed
  <2> QED
    BY <1>1, <2>2, <2>4, <2>5, <2>6, LoopKeeps
<1>6. CASE PollNothing(w)
  <2>1. UNCHANGED << chain, loop, queue, due, mark, delivered, failures, lost >>
    BY <1>6 DEF PollNothing, notifyVars
  <2>2. World
    BY <2>1, QuietWorld DEF NotifyInv, Typed
  <2> QED
    BY <2>1, <2>2, QueueKeeps
<1>7. ASSUME NEW m \in loop[w].page, Zrem(w, m) PROVE NotifyInv'
  <2> DEFINE page == loop[w].page \ {m}
  <2>1. /\ r.pc = "zrem" /\ m \in Member /\ queue' = queue \ {m} /\ due' = due \ {m}
        /\ IF m \in queue
           THEN loop' = [loop EXCEPT ![w] = [pc |-> "post", page |-> page, member |-> m]]
           ELSE Proceed(w, page)
        /\ UNCHANGED << chain, mark, delivered, failures, lost >>
    BY <1>1, <1>2, <1>7 DEF Zrem, Claimed
  <2>2. World
    BY <2>1, RemoveWorld DEF NotifyInv, Typed
  <2>3. page \in SUBSET Member
    BY <1>1, <1>2
  <2> HIDE DEF page
  <2>4. CASE m \notin queue
    BY <1>1, <2>1, <2>2, <2>3, <2>4, LoopProceeds
  <2>5. CASE m \in queue
    <3> DEFINE l == [pc |-> "post", page |-> page, member |-> m]
    <3>1. l \in LoopState /\ l.pc = "post" /\ l.member = m /\ loop' = [loop EXCEPT ![w] = l]
      BY <2>1, <2>3, <2>5 DEF LoopState
    <3>2. PICK k : k = l
      OBVIOUS
    <3> HIDE DEF l
    <3>3. failures'[m.coupon] >= InlinePosts + m.attempt - 1
      BY <2>1, <2>5 DEF NotifyInv, QueueOK
    <3>4. LoopOK(k)'
      BY <2>1, <3>1, <3>2, <3>3 DEF LoopOK
    <3>5. \A n \in queue \ queue' : k.pc \in Holding /\ k.member.coupon = n.coupon
      BY <2>1, <3>1, <3>2
    <3> QED
      BY <1>1, <2>1, <2>2, <3>1, <3>2, <3>4, <3>5, LoopKeeps
  <2> QED
    BY <2>4, <2>5
<1>8. ASSUME NEW m \in loop[w].page, ZremFails(w, m) PROVE NotifyInv'
  <2>1. /\ r.pc = "zrem" /\ Proceed(w, {}) /\ UNCHANGED << chain, mark, delivered, failures >>
        /\ \/ UNCHANGED << queue, due, lost >>
           \/ /\ queue' = queue \ {m} /\ due' = due \ {m} /\ lost \subseteq lost'
              /\ m \in queue => m.coupon \in lost'
    BY <1>1, <1>8 DEF ZremFails, Claimed
  <2>2. queue' \subseteq queue /\ due' \subseteq queue' /\ lost \subseteq lost'
    BY <2>1 DEF NotifyInv, Typed
  <2>3. World /\ \A n \in queue \ queue' : n.coupon \in lost'
    BY <2>1, <2>2, RemoveWorld
  <2> QED
    BY <1>1, <2>1, <2>3, LoopProceeds
<1>9. ASSUME r.pc \in Busy
      PROVE  r.member \in Member /\ r.member.coupon \in Coupons
             /\ r.member.attempt \in 1..MaxAttempts
  BY <1>2, <1>9 DEF LoopOK, Member
<1>10. CASE RetryOk(w)
  <2>1. /\ r.pc = "post" /\ PostSucceeds(r.member.coupon) /\ LoopTo(w, "sent")
        /\ UNCHANGED << chain, queue, due, mark, lost >>
    BY <1>1, <1>10 DEF RetryOk
  <2>2. PICK c \in Coupons : c = r.member.coupon /\ r.member \in Member
    BY <1>9, <2>1 DEF Busy
  <2>3. World /\ c \in delivered'
    BY <2>1, <2>2, PostWorld
  <2>4. Gone(c)'
    BY <2>3 DEF Gone, Over
  <2> QED
    BY <1>3, <2>1, <2>2, <2>3, <2>4 DEF Busy
<1>11. CASE RetryFails(w)
  <2> DEFINE pc == IF Exhausted(r.member) THEN "failed" ELSE "zadd"
  <2>1. /\ r.pc = "post" /\ PostFails(r.member.coupon) /\ LoopTo(w, pc)
        /\ UNCHANGED << chain, queue, due, mark, lost >>
    BY <1>1, <1>11 DEF RetryFails
  <2>2. PICK c \in Coupons : c = r.member.coupon /\ r.member \in Member
    BY <1>9, <2>1 DEF Busy
  <2>3. /\ World
        /\ failures[c] < AllPosts => failures'[c] = failures[c] + 1
        /\ failures[c] = AllPosts => failures'[c] = AllPosts
    BY <2>1, <2>2, PostWorld
  <2>4. /\ failures[c] \in 0..AllPosts /\ failures'[c] \in 0..AllPosts
        /\ failures[c] >= InlinePosts + r.member.attempt - 1
        /\ r.member.attempt \in 1..MaxAttempts
    BY <1>2, <1>9, <2>1, <2>2, <2>3 DEF LoopOK, NotifyInv, Typed, World, Busy
  <2>5. failures'[c] >= InlinePosts + r.member.attempt
    BY <2>3, <2>4, Bounds
  <2>6. pc = "failed" => failures'[c] = AllPosts
    BY <2>4, <2>5, Bounds DEF Exhausted
  <2>7. pc = "zadd" => r.member.attempt < MaxAttempts
    BY <2>4, Bounds DEF Exhausted
  <2>8. pc \in {"failed", "zadd"}
    OBVIOUS
  <2> HIDE DEF pc
  <2> QED
    BY <1>3, <2>1, <2>2, <2>3, <2>5, <2>6, <2>7, <2>8 DEF Busy
<1>12. CASE LoopSettles(w)
  <2>1. /\ r.pc \in {"sent", "failed"} /\ Proceed(w, r.page)
        /\ Mark(r.member.coupon, Verdict(w))
        /\ UNCHANGED << chain, queue, due, delivered, failures >>
    BY <1>1, <1>12 DEF LoopSettles
  <2>2. PICK c \in Coupons : c = r.member.coupon
    BY <1>9, <2>1 DEF Busy
  <2>3. PICK s \in {"SENT", "FAILED_PERMANENT"} :
             s = Verdict(w) /\ (s = "SENT" <=> r.pc = "sent")
    BY <1>1 DEF Verdict
  <2>4. World /\ (s = "FAILED_PERMANENT" => Gone(c)')
    <3>1. /\ s = "SENT" => c \in delivered
          /\ s = "FAILED_PERMANENT" => failures[c] = AllPosts
      BY <1>2, <2>1, <2>2, <2>3 DEF LoopOK
    <3>2. s \in Marks \ {"PENDING"}
      BY DEF Marks
    <3> QED
      BY <2>1, <2>2, <2>3, <3>1, <3>2, MarkWorld
  <2>5. \A d \in Coupons : loop[w].pc \in Holding /\ loop[w].member.coupon = d => d = c /\ Gone(c)'
    BY <1>1, <2>1, <2>2, <2>3, <2>4
  <2>6. \A d \in Coupons : loop[w].pc \in Holding /\ loop[w].member.coupon = d => Gone(d)'
    BY <2>5
  <2> QED
    BY <1>2, <2>1, <2>4, <2>6, LoopProceeds
<1>13. ASSUME r.pc = "zadd", NEW c \in Coupons, c = r.member.coupon,
              Enqueue(c, NextAttempt(r.member)), lost' = lost,
              UNCHANGED << mark, delivered, failures >>
       PROVE  World /\ queue \subseteq queue' /\ Gone(c)'
  <2>1. PICK n : n = NextAttempt(r.member)
    OBVIOUS
  <2>2. n \in 1..MaxAttempts /\ failures[c] >= InlinePosts + n - 1
    <3>1. /\ r.member.attempt \in 1..MaxAttempts /\ r.member.attempt < MaxAttempts
          /\ failures[c] >= InlinePosts + r.member.attempt
          /\ n = r.member.attempt + 1
      BY <1>2, <1>9, <1>13, <2>1 DEF LoopOK, Busy, NextAttempt
    <3>2. failures[c] \in 0..AllPosts
      BY DEF NotifyInv, Typed
    <3> QED
      BY <3>1, <3>2, Bounds
  <2> QED
    BY <1>13, <2>1, <2>2, EnqueueWorld
<1>14. CASE LoopZadd(w)
  <2>1. /\ r.pc = "zadd" /\ LoopTo(w, "mark") /\ lost' = lost
        /\ Enqueue(r.member.coupon, NextAttempt(r.member))
        /\ UNCHANGED << chain, mark, delivered, failures >>
    BY <1>1, <1>14 DEF LoopZadd
  <2>2. PICK c \in Coupons : c = r.member.coupon /\ r.member \in Member
    BY <1>9, <2>1 DEF Busy
  <2>3. World /\ queue \subseteq queue' /\ Gone(c)'
    BY <1>13, <2>1, <2>2
  <2> QED
    BY <1>3, <2>1, <2>2, <2>3 DEF Busy
<1>15. CASE LoopZaddFails(w)
  <2>1. /\ r.pc = "zadd" /\ Proceed(w, {}) /\ UNCHANGED << chain, mark, delivered, failures >>
        /\ \/ UNCHANGED << queue, due >> /\ lost' = lost \union {r.member.coupon}
           \/ Enqueue(r.member.coupon, NextAttempt(r.member)) /\ lost' = lost
    BY <1>1, <1>15 DEF LoopZaddFails
  <2>2. PICK c \in Coupons : c = r.member.coupon
    BY <1>9, <2>1 DEF Busy
  <2>3. World /\ queue \subseteq queue' /\ Gone(c)'
    <3>1. CASE UNCHANGED << queue, due >> /\ lost' = lost \union {c}
      BY <2>1, <3>1, QuietWorld DEF NotifyInv, Typed, Gone
    <3> QED
      BY <1>13, <2>1, <2>2, <3>1
  <2>4. \A d \in Coupons : loop[w].pc \in Holding /\ loop[w].member.coupon = d => Gone(d)'
    <3>1. \A d \in Coupons : loop[w].pc \in Holding /\ loop[w].member.coupon = d => d = c
      BY <1>1, <2>2
    <3> QED
      BY <2>3, <3>1
  <2> QED
    BY <2>1, <2>3, <2>4, LoopProceeds
<1>16. CASE LoopMark(w)
  <2>1. /\ r.pc = "mark" /\ Mark(r.member.coupon, "RETRYING") /\ Proceed(w, r.page)
        /\ UNCHANGED << chain, queue, due, delivered, failures >>
    BY <1>1, <1>16 DEF LoopMark
  <2>2. PICK c \in Coupons : c = r.member.coupon
    BY <1>9, <2>1 DEF Busy
  <2>3. World
    BY <2>1, <2>2, MarkWorld DEF Marks
  <2> QED
    BY <1>1, <1>2, <2>1, <2>3, LoopProceeds
<1> QED
  BY <1>4, <1>5, <1>6, <1>7, <1>8, <1>10, <1>11, <1>12, <1>14, <1>15, <1>16 DEF LoopStep

-----------------------------------------------------------------------------
(* Crashes.                                                                 *)

\* A process dies: what it held in memory is lost, the rest stays.
LEMMA CrashKeeps ==
  ASSUME NotifyInv, NEW w \in Workers, Crash(w)
  PROVE  NotifyInv'
<1>1. /\ lost' = lost \union HeldBy(w)
      /\ loop' = [loop EXCEPT ![w] = Down]
      /\ chain' = [ch \in Chains |-> IF chain[ch].by = w /\ chain[ch].pc # "unused"
                                     THEN [chain[ch] EXCEPT !.pc = "done"] ELSE chain[ch]]
      /\ UNCHANGED << queue, due, mark, delivered, failures >>
  BY DEF Crash
<1>2. World
  BY <1>1, QuietWorld DEF NotifyInv, Typed
<1>3. ASSUME NEW ch \in Chains
      PROVE  /\ chain[ch] \in ChainState
             /\ \/ chain'[ch] = chain[ch]
                \/ /\ chain'[ch] = [chain[ch] EXCEPT !.pc = "done"]
                   /\ chain[ch].by = w /\ chain[ch].pc # "unused"
             /\ chain[ch].pc # "unused" /\ chain[ch].by = w => chain'[ch].pc = "done"
  BY <1>1, ChainStates DEF ChainOK, ChainState
<1>4. ASSUME NEW ch \in Chains PROVE ChainOK(chain[ch])'
  <2>1. CASE chain'[ch] = chain[ch]
    BY <1>1, <2>1, ChainStates DEF ChainOK
  <2>2. CASE chain'[ch] = [chain[ch] EXCEPT !.pc = "done"]
    <3>1. "done" \in ChainPcs
      BY DEF ChainPcs
    <3>2. chain'[ch] \in ChainState /\ chain'[ch].pc = "done"
      BY <2>2, <3>1, ChainStates
    <3> QED
      BY <3>2 DEF ChainOK
  <2> QED
    BY <1>3, <2>1, <2>2
<1>5. /\ DOMAIN loop' = Workers /\ loop' = [v \in Workers |-> loop'[v]] /\ loop'[w] = Down
      /\ \A v \in Workers \ {w} : loop'[v] = loop[v]
  BY <1>1 DEF NotifyInv, Typed
<1>6. ASSUME NEW v \in Workers PROVE LoopOK(loop[v])'
  <2>1. CASE v = w
    BY <1>5, <2>1 DEF LoopOK, Down, LoopState, LoopPcs, Busy
  <2>2. CASE v # w
    BY <1>1, <1>5, <2>2, LoopStates DEF LoopOK
  <2> QED
    BY <2>1, <2>2
<1>7. Typed'
  <2>1. DOMAIN chain' = Chains /\ chain' = [ch \in Chains |-> chain'[ch]]
    BY <1>1
  <2> QED
    BY <1>2, <1>5, <2>1 DEF World, Typed
<1>8. ASSUME NEW c \in Coupons, Entries(c)' # {}
      PROVE  (UnderWay(c) \/ Over(c) \/ c \in lost)'
  <2>1. Entries(c) # {}
    <3>1. \A ch \in Chains : chain'[ch].coupon = c /\ chain'[ch].pc # "unused" =>
             chain[ch].coupon = c /\ chain[ch].pc # "unused"
      BY <1>3 DEF ChainState
    <3> QED
      BY <1>8, <3>1 DEF Entries
  <2>2. UnderWay(c) \/ Over(c) \/ c \in lost
    BY <2>1 DEF NotifyInv, Accounted
  <2>3. ASSUME Over(c) \/ c \in lost PROVE (Over(c) \/ c \in lost)'
    BY <1>1, <2>3 DEF Over
  <2>4. ASSUME NEW ch \in Chains, chain[ch].coupon = c, chain[ch].pc \in InMemory
        PROVE  UnderWay(c)' \/ c \in lost'
    <3>1. CASE chain[ch].by = w
      BY <1>1, <2>4, <3>1 DEF HeldBy
    <3>2. CASE chain[ch].by # w
      <4>1. chain'[ch] = chain[ch]
        BY <1>3, <3>2
      <4> QED
        BY <2>4, <4>1 DEF UnderWay, InCallbacks, InMemory
    <3> QED
      BY <3>1, <3>2
  <2>5. ASSUME NEW v \in Workers, loop[v].pc \in Holding, loop[v].member.coupon = c
        PROVE  UnderWay(c)' \/ c \in lost'
    <3>1. CASE v = w
      BY <1>1, <2>5, <3>1 DEF HeldBy, Holding
    <3>2. CASE v # w
      <4>1. loop'[v] = loop[v]
        BY <1>5, <3>2
      <4> QED
        BY <2>5, <4>1 DEF UnderWay, InLoops, Holding
    <3> QED
      BY <3>1, <3>2
  <2>6. (\E m \in queue : m.coupon = c) => UnderWay(c)'
    BY <1>1 DEF UnderWay, InQueue
  <2> QED
    BY <2>2, <2>3, <2>4, <2>5, <2>6, Places
<1> QED
  BY <1>2, <1>4, <1>6, <1>7, <1>8 DEF NotifyInv, World, Accounted

-----------------------------------------------------------------------------
\* Redis comes back: its queue is what it was, or stands for no more POSTs.
LEMMA RestartKeeps ==
  ASSUME NotifyInv, Restorable, RedisRestart
  PROVE  NotifyInv' /\ Restorable'
<1>1. PICK image \in {saved, {}} :
         /\ saved' = image /\ queue' = image /\ due' = {}
         /\ lost' = lost \union { m.coupon : m \in queue \ image }
  BY DEF RedisRestart
<1>2. UNCHANGED << chain, loop, mark, delivered, failures >>
  BY DEF RedisRestart
<1>3. /\ image \subseteq Member
      /\ \A m \in image : failures[m.coupon] >= InlinePosts + m.attempt - 1
  BY DEF Restorable
<1>4. QueueOK' /\ SentIsDelivered' /\ GivenUpAfterAll'
  BY <1>1, <1>2, <1>3 DEF QueueOK, NotifyInv, SentIsDelivered, GivenUpAfterAll, AllPosts
<1>5. World
  BY <1>1, <1>2, <1>3, <1>4, Bounds DEF NotifyInv, Typed, World
<1>6. \A m \in queue \ queue' : m.coupon \in lost'
  BY <1>1
<1>7. NotifyInv'
  BY <1>2, <1>5, <1>6, QueueKeeps
<1>8. Restorable'
  BY <1>1, <1>2, <1>3 DEF Restorable
<1> QED
  BY <1>7, <1>8

\* Failed POSTs are never forgotten.
LEMMA FailuresGrow ==
  ASSUME Typed, [Next]_vars
  PROVE  /\ failures' \in [Coupons -> 0..AllPosts]
         /\ \A c \in Coupons : failures[c] <= failures'[c]
<1> DEFINE Grow == /\ failures' \in [Coupons -> 0..AllPosts]
                   /\ \A c \in Coupons : failures[c] <= failures'[c]
<1>1. failures \in [Coupons -> 0..AllPosts]
  BY DEF Typed
<1>2. ASSUME UNCHANGED failures PROVE Grow
  BY <1>1, <1>2, Bounds
<1>3. ASSUME NEW d, PostFails(d) PROVE Grow
  <2>1. PICK n : n = IF failures[d] < AllPosts THEN failures[d] + 1 ELSE failures[d]
    OBVIOUS
  <2>2. failures' = [failures EXCEPT ![d] = n]
    BY <1>3, <2>1 DEF PostFails
  <2>3. d \in Coupons => n \in 0..AllPosts /\ failures[d] <= n
    BY <1>1, <2>1, Bounds
  <2>4. \A c \in Coupons : failures[c] <= failures[c]
    BY <1>1, Bounds
  <2> QED
    BY <1>1, <2>2, <2>3, <2>4
<1>4. CASE UNCHANGED vars
  BY <1>2, <1>4 DEF vars, notifyVars
<1>5. ASSUME NEW ch \in Chains, Acked(ch) \/ AckAnswerLost(ch) \/ ChainStep(ch)
      PROVE  UNCHANGED failures \/ \E d : PostFails(d)
  BY <1>5 DEF Acked, AckAnswerLost, ChainStep, FireNotify, InlineOk, InlineFails, ChainSent,
              ChainZadd, ChainZaddFails, ChainMark, PostSucceeds
<1>6. ASSUME NEW w \in Workers, Start(w) \/ LoopStep(w) \/ Crash(w)
      PROVE  UNCHANGED failures \/ \E d : PostFails(d)
  BY <1>6 DEF Start, Crash, LoopStep, Poll, PollNothing, Zrem, ZremFails, RetryOk, RetryFails,
              LoopSettles, LoopZadd, LoopZaddFails, LoopMark, PostSucceeds, notifyVars
<1>7. ASSUME (\E m \in queue : FallDue(m)) \/ RedisSave \/ RedisRestart
      PROVE  UNCHANGED failures
  BY <1>7 DEF FallDue, RedisSave, RedisRestart, notifyVars
<1> QED
  BY <1>2, <1>3, <1>4, <1>5, <1>6, <1>7 DEF Next, Undisturbed

\* Every step keeps the invariant.
LEMMA NotifyInductive == NotifyInv /\ Restorable /\ [Next]_vars => NotifyInv' /\ Restorable'
<1> SUFFICES ASSUME NotifyInv, Restorable, [Next]_vars PROVE NotifyInv' /\ Restorable'
  OBVIOUS
<1>1. ASSUME NEW m \in queue, FallDue(m) PROVE NotifyInv'
  <2>1. World
    BY <1>1, QuietWorld DEF FallDue, NotifyInv, Typed
  <2> QED
    BY <1>1, <2>1, QueueKeeps DEF FallDue
<1>2. ASSUME UNCHANGED notifyVars PROVE NotifyInv'
  BY <1>2, QuietWorld, QueueKeeps DEF notifyVars, NotifyInv, Typed
<1>3. CASE RedisRestart
  BY <1>3, RestartKeeps
<1>4. CASE RedisSave
  BY <1>2, <1>4 DEF RedisSave, Restorable, NotifyInv, Typed, QueueOK, notifyVars
<1>5. ASSUME UNCHANGED snapshotVars PROVE Restorable'
  <2>1. \A c \in Coupons : /\ failures[c] \in 0..AllPosts /\ failures'[c] \in Nat
                           /\ failures[c] <= failures'[c]
    BY FailuresGrow, Bounds DEF NotifyInv, Typed
  <2>2. ASSUME NEW m \in saved PROVE failures'[m.coupon] >= InlinePosts + m.attempt - 1
    <3>1. m.coupon \in Coupons /\ m.attempt \in 1..MaxAttempts
      BY DEF Restorable, Member
    <3> QED
      BY <2>1, <3>1, Bounds DEF Restorable
  <2> QED
    BY <1>5, <2>2 DEF Restorable, snapshotVars
<1>6. CASE UNCHANGED vars
  BY <1>2, <1>5, <1>6 DEF vars
<1> QED
  BY <1>1, <1>3, <1>4, <1>5, <1>6, ChainStepKeeps, LoopStepKeeps, CrashKeeps DEF Next, Undisturbed

\* It holds at the start.
LEMMA NotifyInitially == Init => NotifyInv /\ Restorable
<1> SUFFICES ASSUME Init PROVE NotifyInv /\ Restorable
  OBVIOUS
<1>1. /\ chain \in [Chains -> [pc : {"unused"}, left : {InlinePosts}, coupon : Coupons,
                               by : Workers]]
      /\ loop = [w \in Workers |-> Down]
      /\ queue = {} /\ due = {} /\ mark = [c \in Coupons |-> "PENDING"]
      /\ failures = [c \in Coupons |-> 0]
  BY DEF Init
<1>2. Typed
  BY <1>1, Bounds DEF Typed, Marks
<1>3. \A ch \in Chains : ChainOK(chain[ch])
  BY <1>1, Bounds DEF ChainOK, ChainState, ChainPcs
<1>4. \A w \in Workers : LoopOK(loop[w])
  BY <1>1 DEF LoopOK, LoopState, LoopPcs, Busy, Down
<1>5. QueueOK /\ SentIsDelivered /\ GivenUpAfterAll
  BY <1>1 DEF QueueOK, SentIsDelivered, GivenUpAfterAll
<1>6. Accounted
  BY <1>1 DEF Accounted, Entries
<1>7. Restorable
  BY DEF Init, Restorable
<1> QED
  BY <1>2, <1>3, <1>4, <1>5, <1>6, <1>7 DEF NotifyInv

\* The invariant holds in every reachable state.
THEOREM NotifyInvariance == Spec => [](NotifyInv /\ Restorable)
  BY NotifyInitially, NotifyInductive, PTL DEF Spec

\* Whatever crashes or fails, SENT is only ever marked on what was delivered.
THEOREM SentTruthful == Spec => []SentIsDelivered
<1>1. NotifyInv => SentIsDelivered
  BY DEF NotifyInv
<1> QED
  BY <1>1, NotifyInvariance, PTL

\* An issue is only handed over to manual work after all of its POSTs failed.
THEOREM GivenUpTruthful == Spec => []GivenUpAfterAll
<1>1. NotifyInv => GivenUpAfterAll
  BY DEF NotifyInv
<1> QED
  BY <1>1, NotifyInvariance, PTL

\* No notification disappears but in the places that are listed in lost.
THEOREM AllAccounted == Spec => []Accounted
<1>1. NotifyInv => Accounted
  BY DEF NotifyInv
<1> QED
  BY <1>1, NotifyInvariance, PTL

-----------------------------------------------------------------------------
(* An issue with one entry is in one place at a time.                       *)

AtMostOne(S) == \A x, y \in S : x = y

OnePlace(callbacks, members, loops) ==
    /\ AtMostOne(callbacks) /\ AtMostOne(members) /\ AtMostOne(loops)
    /\ callbacks = {} \/ (members = {} /\ loops = {})
    /\ members = {} \/ loops = {}

\* What is in the queue or a loop came from an entry, and from each entry one.
Alone(c) ==
    /\ InQueue(c) # {} \/ InLoops(c) # {} => Entries(c) # {}
    /\ AtMostOne(Entries(c)) => OnePlace(InCallbacks(c), InQueue(c), InLoops(c))

\* A step takes nothing to c's places,
Leaves(c) ==
    /\ InCallbacks(c)' \subseteq InCallbacks(c)
    /\ InQueue(c)' \subseteq InQueue(c)
    /\ InLoops(c)' \subseteq InLoops(c)

\* or takes it from a callback or a loop to the queue,
ToQueue(c) ==
    \/ \E ch \in InCallbacks(c), m \in Member :
          /\ InCallbacks(c)' \subseteq InCallbacks(c) \ {ch}
          /\ InQueue(c)' \subseteq InQueue(c) \union {m}
          /\ InLoops(c)' \subseteq InLoops(c)
    \/ \E w \in InLoops(c), m \in Member :
          /\ InCallbacks(c)' \subseteq InCallbacks(c)
          /\ InQueue(c)' \subseteq InQueue(c) \union {m}
          /\ InLoops(c)' \subseteq InLoops(c) \ {w}

\* or from the queue to a loop.
ToLoop(c) ==
    \E m \in InQueue(c), w \in Workers :
       /\ InCallbacks(c)' \subseteq InCallbacks(c)
       /\ InQueue(c)' \subseteq InQueue(c) \ {m}
       /\ InLoops(c)' \subseteq InLoops(c) \union {w}

\* Moving from place to place keeps it in one place.
LEMMA MovesKeepAlone ==
  ASSUME NEW c \in Coupons, Alone(c), Entries(c) \subseteq Entries(c)',
         Leaves(c) \/ ToQueue(c) \/ ToLoop(c)
  PROVE  Alone(c)'
<1>1. InCallbacks(c) \subseteq Entries(c)
  BY DEF InCallbacks, Entries, InMemory
<1>2. CASE Leaves(c)
  BY <1>2 DEF Leaves, Alone, AtMostOne, OnePlace
<1>3. CASE ToQueue(c)
  BY <1>1, <1>3 DEF ToQueue, Alone, AtMostOne, OnePlace
<1>4. CASE ToLoop(c)
  BY <1>4 DEF ToLoop, Alone, AtMostOne, OnePlace
<1> QED
  BY <1>2, <1>3, <1>4

\* The first entry of an issue finds none of its places taken.
LEMMA FirstIsAlone ==
  ASSUME NEW c \in Coupons, Alone(c), NEW ch, ch \notin Entries(c),
         Entries(c)' = Entries(c) \union {ch},
         InCallbacks(c)' \subseteq InCallbacks(c) \union {ch},
         InQueue(c)' = InQueue(c), InLoops(c)' = InLoops(c)
  PROVE  Alone(c)'
<1>1. InCallbacks(c) \subseteq Entries(c)
  BY DEF InCallbacks, Entries, InMemory
<1>2. AtMostOne(Entries(c)') => Entries(c) = {}
  BY DEF AtMostOne
<1> QED
  BY <1>1, <1>2 DEF Alone, AtMostOne, OnePlace

\* A step of one chain, seen from the places.
LEMMA ChainAlone ==
  ASSUME NotifyInv, \A c \in Coupons \ restored : Alone(c), NEW ch \in Chains, NEW q,
         chain' = [chain EXCEPT ![ch] = q], UNCHANGED loop,
         q.coupon = chain[ch].coupon, q.pc # "unused",
         \/ /\ queue' = queue
            /\ q.pc \in InMemory => chain[ch].pc \in InMemory \union {"unused"}
         \/ /\ chain[ch].pc \in InMemory /\ q.pc \notin InMemory
            /\ \E m \in Member : m.coupon = q.coupon /\ queue' = queue \union {m}
  PROVE  \A c \in Coupons \ restored : Alone(c)'
<1> SUFFICES ASSUME NEW c \in Coupons \ restored PROVE Alone(c)'
  OBVIOUS
<1>1. chain'[ch] = q /\ \A k \in Chains \ {ch} : chain'[k] = chain[k]
  BY DEF NotifyInv, Typed
<1>2. InLoops(c)' = InLoops(c)
  BY DEF InLoops
<1>3. Entries(c)' = IF c = q.coupon THEN Entries(c) \union {ch} ELSE Entries(c)
  BY <1>1 DEF Entries
<1>4. InCallbacks(c)' = IF c = q.coupon /\ q.pc \in InMemory THEN InCallbacks(c) \union {ch}
                                                            ELSE InCallbacks(c) \ {ch}
  BY <1>1 DEF InCallbacks, InMemory
<1>5. CASE queue' = queue /\ (q.pc \in InMemory => chain[ch].pc \in InMemory \union {"unused"})
  <2>1. InQueue(c)' = InQueue(c)
    BY <1>5 DEF InQueue
  <2>2. CASE c = q.coupon /\ chain[ch].pc = "unused"
    <3>1. ch \notin Entries(c)
      BY <2>2 DEF Entries
    <3> QED
      BY <1>2, <1>3, <1>4, <2>1, <2>2, <3>1, FirstIsAlone
  <2>3. CASE ~(c = q.coupon /\ chain[ch].pc = "unused")
    <3>1. c = q.coupon /\ q.pc \in InMemory => ch \in InCallbacks(c)
      BY <1>5, <2>3 DEF InCallbacks
    <3>2. Leaves(c)
      BY <1>2, <1>4, <2>1, <3>1 DEF Leaves
    <3> QED
      BY <1>3, <3>2, MovesKeepAlone
  <2> QED
    BY <2>2, <2>3
<1>6. ASSUME NEW m \in Member, m.coupon = q.coupon, queue' = queue \union {m},
             chain[ch].pc \in InMemory, q.pc \notin InMemory
      PROVE  Alone(c)'
  <2>1. InQueue(c)' = IF c = q.coupon THEN InQueue(c) \union {m} ELSE InQueue(c)
    BY <1>6 DEF InQueue
  <2>2. c = q.coupon => ch \in InCallbacks(c)
    BY <1>6 DEF InCallbacks
  <2>3. Leaves(c) \/ ToQueue(c)
    BY <1>2, <1>4, <1>6, <2>1, <2>2 DEF Leaves, ToQueue
  <2> QED
    BY <1>3, <2>3, MovesKeepAlone
<1> QED
  BY <1>5, <1>6

\* A step of one loop, seen from the places.
LEMMA LoopAlone ==
  ASSUME NotifyInv, \A c \in Coupons \ restored : Alone(c), NEW w \in Workers, NEW l,
         loop' = [loop EXCEPT ![w] = l], UNCHANGED chain,
         \/ /\ queue' \subseteq queue
            /\ l.pc \in Holding => loop[w].pc \in Holding /\ loop[w].member = l.member
         \/ \E m \in queue : queue' = queue \ {m} /\ l.member = m
         \/ /\ loop[w].pc \in Holding /\ l.pc \notin Holding
            /\ \E m \in Member : m.coupon = loop[w].member.coupon /\ queue' = queue \union {m}
  PROVE  \A c \in Coupons \ restored : Alone(c)'
<1> SUFFICES ASSUME NEW c \in Coupons \ restored PROVE Alone(c)'
  OBVIOUS
<1>1. loop'[w] = l /\ \A v \in Workers \ {w} : loop'[v] = loop[v]
  BY DEF NotifyInv, Typed
<1>2. InCallbacks(c)' = InCallbacks(c) /\ Entries(c)' = Entries(c)
  BY DEF InCallbacks, Entries, InMemory
<1>3. InLoops(c)' = IF l.pc \in Holding /\ l.member.coupon = c THEN InLoops(c) \union {w}
                                                             ELSE InLoops(c) \ {w}
  BY <1>1 DEF InLoops, Holding
<1>4. CASE /\ queue' \subseteq queue
           /\ l.pc \in Holding => loop[w].pc \in Holding /\ loop[w].member = l.member
  <2>1. InQueue(c)' \subseteq InQueue(c)
    BY <1>4 DEF InQueue
  <2>2. l.pc \in Holding /\ l.member.coupon = c => w \in InLoops(c)
    BY <1>4 DEF InLoops, Holding
  <2>3. Leaves(c)
    BY <1>2, <1>3, <2>1, <2>2 DEF Leaves
  <2> QED
    BY <1>2, <2>3, MovesKeepAlone
<1>5. ASSUME NEW m \in queue, queue' = queue \ {m}, l.member = m
      PROVE  Alone(c)'
  <2>1. InQueue(c)' = InQueue(c) \ {m} /\ (m.coupon = c => m \in InQueue(c))
    BY <1>5 DEF InQueue
  <2>2. Leaves(c) \/ ToLoop(c)
    BY <1>2, <1>3, <1>5, <2>1 DEF Leaves, ToLoop
  <2> QED
    BY <1>2, <2>2, MovesKeepAlone
<1>6. ASSUME NEW m \in Member, m.coupon = loop[w].member.coupon, queue' = queue \union {m},
             loop[w].pc \in Holding, l.pc \notin Holding
      PROVE  Alone(c)'
  <2>1. InQueue(c)' = IF c = m.coupon THEN InQueue(c) \union {m} ELSE InQueue(c)
    BY <1>6 DEF InQueue
  <2>2. c = m.coupon => w \in InLoops(c)
    BY <1>6 DEF InLoops, Holding
  <2>3. Leaves(c) \/ ToQueue(c)
    BY <1>2, <1>3, <1>6, <2>1, <2>2 DEF Leaves, ToQueue
  <2> QED
    BY <1>2, <2>3, MovesKeepAlone
<1> QED
  BY <1>4, <1>5, <1>6

\* The members scheduleRetry puts into the queue.
LEMMA Enqueued ==
  ASSUME NEW c \in Coupons, NEW n \in 1..MaxAttempts, Enqueue(c, n)
  PROVE  \E m \in Member : m.coupon = c /\ queue' = queue \union {m}
<1>1. [coupon |-> c, attempt |-> n] \in Member
  BY DEF Member
<1> QED
  BY <1>1 DEF Enqueue

\* Every step of a chain keeps it.
LEMMA ChainStepAlone ==
  ASSUME NotifyInv, \A c \in Coupons \ restored : Alone(c), NEW ch \in Chains,
         ChainStep(ch) \/ Acked(ch) \/ AckAnswerLost(ch)
  PROVE  \A c \in Coupons \ restored : Alone(c)'
<1>1. PICK r : r = chain[ch]
  OBVIOUS
<1>2. r \in ChainState /\ r.coupon \in Coupons
  BY <1>1, ChainStates DEF ChainOK
<1>3. ASSUME NEW pc \in ChainPcs, ChainTo(ch, pc), UNCHANGED loop, pc # "unused",
             \/ queue' = queue /\ (pc \in InMemory => r.pc \in InMemory \union {"unused"})
             \/ /\ r.pc \in InMemory /\ pc \notin InMemory
                /\ \E m \in Member : m.coupon = r.coupon /\ queue' = queue \union {m}
      PROVE  \A c \in Coupons \ restored : Alone(c)'
  <2>1. PICK q : q = [r EXCEPT !.pc = pc]
    OBVIOUS
  <2>2. q.pc = pc /\ q.coupon = r.coupon /\ chain' = [chain EXCEPT ![ch] = q]
    BY <1>1, <1>2, <1>3, <2>1 DEF ChainTo, ChainState
  <2> QED
    BY <1>1, <1>3, <2>2, ChainAlone
<1>4. CASE Acked(ch)
  BY <1>1, <1>3, <1>4 DEF Acked, ChainPcs, InMemory
<1>5. CASE AckAnswerLost(ch)
  BY <1>3, <1>5 DEF AckAnswerLost, ChainPcs, InMemory
<1>6. CASE FireNotify(ch)
  BY <1>1, <1>3, <1>6 DEF FireNotify, ChainPcs, InMemory
<1>7. CASE InlineOk(ch)
  BY <1>3, <1>7 DEF InlineOk, ChainPcs, InMemory
<1>8. CASE InlineFails(ch)
  <2>1. PICK pc \in {"zadd", "post"} : pc = IF r.left = 1 THEN "zadd" ELSE "post"
    OBVIOUS
  <2>2. PICK q : q = [r EXCEPT !.left = r.left - 1, !.pc = pc]
    OBVIOUS
  <2>3. q.pc = pc /\ q.coupon = r.coupon /\ chain' = [chain EXCEPT ![ch] = q]
    BY <1>1, <1>2, <1>8, <2>1, <2>2 DEF InlineFails, ChainState
  <2>4. r.pc = "post" /\ UNCHANGED << loop, queue >>
    BY <1>1, <1>8 DEF InlineFails
  <2> QED
    BY <1>1, <2>3, <2>4, ChainAlone DEF InMemory
<1>9. CASE ChainSent(ch)
  BY <1>3, <1>9 DEF ChainSent, ChainPcs, InMemory
<1>10. Enqueue(r.coupon, 1) => \E m \in Member : m.coupon = r.coupon /\ queue' = queue \union {m}
  BY <1>2, Bounds, Enqueued
<1>11. CASE ChainZadd(ch)
  BY <1>1, <1>3, <1>10, <1>11 DEF ChainZadd, ChainPcs, InMemory
<1>12. CASE ChainZaddFails(ch)
  BY <1>1, <1>3, <1>10, <1>12 DEF ChainZaddFails, ChainPcs, InMemory
<1>13. CASE ChainMark(ch)
  BY <1>3, <1>13 DEF ChainMark, ChainPcs, InMemory
<1> QED
  BY <1>4, <1>5, <1>6, <1>7, <1>8, <1>9, <1>11, <1>12, <1>13 DEF ChainStep

\* Every step of a loop keeps it.
LEMMA LoopStepAlone ==
  ASSUME NotifyInv, \A c \in Coupons \ restored : Alone(c), NEW w \in Workers,
         LoopStep(w) \/ Start(w)
  PROVE  \A c \in Coupons \ restored : Alone(c)'
<1> USE DEF LoopPcs, Holding
<1>1. PICK r : r = loop[w]
  OBVIOUS
<1>2. /\ r \in LoopState /\ loop \in [Workers -> LoopState]
      /\ r.pc \in Busy => r.member \in Member /\ r.member.attempt \in 1..MaxAttempts
  <2>1. \A v \in Workers : loop[v] \in LoopState
    BY LoopStates
  <2> QED
    BY <1>1, <2>1, LoopStates DEF LoopOK, NotifyInv, Typed, Member
<1>3. ASSUME NEW pc \in LoopPcs, LoopTo(w, pc), UNCHANGED chain,
             \/ queue' = queue /\ (pc \in Holding => r.pc \in Holding)
             \/ /\ r.pc \in Holding /\ pc \notin Holding
                /\ \E m \in Member : m.coupon = r.member.coupon /\ queue' = queue \union {m}
      PROVE  \A c \in Coupons \ restored : Alone(c)'
  <2>1. PICK l : l = [r EXCEPT !.pc = pc]
    OBVIOUS
  <2>2. l.pc = pc /\ l.member = r.member /\ loop' = [loop EXCEPT ![w] = l]
    BY <1>1, <1>2, <1>3, <2>1 DEF LoopTo, LoopState
  <2> QED
    BY <1>1, <1>3, <2>2, LoopAlone
<1>4. ASSUME NEW page, Proceed(w, page), UNCHANGED chain,
             \/ queue' \subseteq queue
             \/ /\ r.pc \in Holding
                /\ \E m \in Member : m.coupon = r.member.coupon /\ queue' = queue \union {m}
      PROVE  \A c \in Coupons \ restored : Alone(c)'
  <2>1. PICK l : l = [pc |-> IF page = {} THEN "poll" ELSE "zrem", page |-> page,
                      member |-> NoMember]
    OBVIOUS
  <2>2. l.pc \notin Holding /\ loop' = [loop EXCEPT ![w] = l]
    BY <1>4, <2>1 DEF Proceed
  <2> QED
    BY <1>1, <1>4, <2>2, LoopAlone
<1>5. ASSUME r.pc = "zadd", Enqueue(r.member.coupon, NextAttempt(r.member))
      PROVE  \E m \in Member : m.coupon = r.member.coupon /\ queue' = queue \union {m}
  <2>1. r.member.attempt < MaxAttempts /\ r.member \in Member
    BY <1>1, <1>2, <1>5, LoopStates DEF LoopOK, Busy
  <2>2. NextAttempt(r.member) \in 1..MaxAttempts /\ r.member.coupon \in Coupons
    BY <2>1, Bounds DEF NextAttempt, Member
  <2> QED
    BY <1>5, <2>2, Enqueued
<1>6. CASE Start(w)
  BY <1>3, <1>6 DEF Start
<1>7. CASE Poll(w)
  <2>1. PICK page \in SUBSET due : loop' = [loop EXCEPT ![w].page = page, ![w].pc = "zrem"]
    BY <1>7 DEF Poll
  <2>2. PICK l : l = [r EXCEPT !.page = page, !.pc = "zrem"]
    OBVIOUS
  <2>3. l.pc = "zrem" /\ loop' = [loop EXCEPT ![w] = l]
    BY <1>1, <1>2, <2>1, <2>2 DEF LoopState
  <2> QED
    BY <1>7, <2>3, LoopAlone DEF Poll
<1>8. CASE PollNothing(w)
  <2>1. PICK l : l = r
    OBVIOUS
  <2>2. loop' = [loop EXCEPT ![w] = l]
    BY <1>1, <1>2, <1>8, <2>1 DEF PollNothing, notifyVars
  <2> QED
    BY <1>1, <1>8, <2>1, <2>2, LoopAlone DEF PollNothing, notifyVars
<1>9. ASSUME NEW m \in r.page, Zrem(w, m) PROVE \A c \in Coupons \ restored : Alone(c)'
  <2>1. CASE Claimed(m)
    <3>1. PICK l : l = [pc |-> "post", page |-> r.page \ {m}, member |-> m]
      OBVIOUS
    <3>2. loop' = [loop EXCEPT ![w] = l] /\ l.member = m
      BY <1>1, <1>9, <2>1, <3>1 DEF Zrem
    <3> QED
      BY <1>9, <2>1, <3>2, LoopAlone DEF Zrem, Claimed
  <2>2. CASE ~Claimed(m)
    BY <1>1, <1>4, <1>9, <2>2 DEF Zrem
  <2> QED
    BY <2>1, <2>2
<1>10. ASSUME NEW m \in r.page, ZremFails(w, m) PROVE \A c \in Coupons \ restored : Alone(c)'
  BY <1>4, <1>10 DEF ZremFails
<1>11. CASE RetryOk(w)
  BY <1>3, <1>11 DEF RetryOk
<1>12. CASE RetryFails(w)
  BY <1>1, <1>3, <1>12 DEF RetryFails
<1>13. CASE LoopSettles(w)
  BY <1>4, <1>13 DEF LoopSettles
<1>14. CASE LoopZadd(w)
  BY <1>1, <1>3, <1>5, <1>14 DEF LoopZadd
<1>15. CASE LoopZaddFails(w)
  BY <1>1, <1>4, <1>5, <1>15 DEF LoopZaddFails
<1>16. CASE LoopMark(w)
  BY <1>4, <1>16 DEF LoopMark
<1> QED
  BY <1>1, <1>6, <1>7, <1>8, <1>9, <1>10, <1>11, <1>12, <1>13, <1>14, <1>15, <1>16 DEF LoopStep

\* Nothing but the queue changes, and it grows by nothing; or a process dies.
LEMMA OthersAlone ==
  ASSUME NotifyInv, \A c \in Coupons \ restored : Alone(c),
         \/ UNCHANGED << chain, loop >> /\ queue' \subseteq queue
         \/ \E w \in Workers : Crash(w)
  PROVE  \A c \in Coupons \ restored : Alone(c)'
<1> SUFFICES ASSUME NEW c \in Coupons \ restored PROVE Alone(c)'
  OBVIOUS
<1>1. CASE UNCHANGED << chain, loop >> /\ queue' \subseteq queue
  <2>1. InCallbacks(c)' = InCallbacks(c) /\ Entries(c)' = Entries(c) /\ InLoops(c)' = InLoops(c)
    BY <1>1 DEF InCallbacks, Entries, InLoops, InMemory
  <2>2. Leaves(c)
    BY <1>1, <2>1 DEF Leaves, InQueue
  <2> QED
    BY <2>1, <2>2, MovesKeepAlone
<1>2. ASSUME NEW w \in Workers, Crash(w) PROVE Alone(c)'
  <2>1. \A ch \in Chains :
           /\ chain'[ch].coupon = chain[ch].coupon
           /\ chain'[ch].pc = chain[ch].pc
              \/ (chain[ch].pc # "unused" /\ chain'[ch].pc = "done")
    <3> SUFFICES ASSUME NEW ch \in Chains
                 PROVE  /\ chain'[ch].coupon = chain[ch].coupon
                        /\ chain'[ch].pc = chain[ch].pc
                           \/ (chain[ch].pc # "unused" /\ chain'[ch].pc = "done")
      OBVIOUS
    <3>1. chain[ch] \in ChainState
      BY ChainStates DEF ChainOK
    <3>2. chain'[ch] = IF chain[ch].by = w /\ chain[ch].pc # "unused"
                       THEN [chain[ch] EXCEPT !.pc = "done"] ELSE chain[ch]
      BY <1>2 DEF Crash
    <3> QED
      BY <3>1, <3>2 DEF ChainState
  <2>2. Entries(c)' = Entries(c) /\ InCallbacks(c)' \subseteq InCallbacks(c)
    BY <2>1 DEF Entries, InCallbacks, InMemory
  <2>3. \A v \in Workers : loop'[v].pc = "down" \/ loop'[v] = loop[v]
    BY <1>2 DEF Crash, Down, NotifyInv, Typed
  <2>4. Leaves(c)
    BY <1>2, <2>2, <2>3 DEF Leaves, InQueue, InLoops, Crash
  <2> QED
    BY <2>2, <2>4, MovesKeepAlone
<1> QED
  BY <1>1, <1>2

\* A restart of Redis takes members from the queue; what it brings back is
\* restored.
LEMMA RestartAlone ==
  ASSUME \A c \in Coupons \ restored : Alone(c), RedisRestart
  PROVE  \A c \in Coupons \ restored' : Alone(c)'
<1> SUFFICES ASSUME NEW c \in Coupons \ restored' PROVE Alone(c)'
  OBVIOUS
<1>1. c \in Coupons \ restored
  BY DEF RedisRestart
<1>2. InCallbacks(c)' = InCallbacks(c) /\ Entries(c)' = Entries(c) /\ InLoops(c)' = InLoops(c)
  BY DEF RedisRestart, InCallbacks, Entries, InLoops, InMemory
<1>3. InQueue(c)' \subseteq InQueue(c)
  BY DEF RedisRestart, InQueue
<1> QED
  BY <1>1, <1>2, <1>3, MovesKeepAlone DEF Leaves

\* Each issue keeps to one place.
AllAlone == \A c \in Coupons \ restored : Alone(c)

LEMMA AloneInductive == NotifyInv /\ AllAlone /\ [Next]_vars => AllAlone'
<1> SUFFICES ASSUME NotifyInv, \A c \in Coupons \ restored : Alone(c), [Next]_vars
             PROVE  \A c \in Coupons \ restored' : Alone(c)'
  BY DEF AllAlone
<1>1. ASSUME \/ UNCHANGED notifyVars \/ \E m \in queue : FallDue(m)
      PROVE  UNCHANGED << chain, loop >> /\ queue' \subseteq queue
  BY <1>1 DEF notifyVars, FallDue
<1>2. CASE RedisRestart
  BY <1>2, RestartAlone
<1>3. CASE ~RedisRestart
  <2>1. restored' = restored
    BY <1>3 DEF Next, Undisturbed, snapshotVars, RedisSave, vars
  <2>2. \A c \in Coupons \ restored : Alone(c)'
    BY <1>1, <1>3, ChainStepAlone, LoopStepAlone, OthersAlone
       DEF Next, Undisturbed, RedisSave, vars
  <2> QED
    BY <2>1, <2>2
<1> QED
  BY <1>2, <1>3

\* A set of at most one element, by its cardinality ...
LEMMA OneElement ==
  ASSUME NEW S, IsFiniteSet(S), Cardinality(S) <= 1
  PROVE  AtMostOne(S)
<1>1. Cardinality(S) \in Nat
  BY FS_CardinalityType
<1>2. CASE Cardinality(S) = 0
  BY <1>2, FS_EmptySet DEF AtMostOne
<1>3. CASE Cardinality(S) = 1
  <2>1. PICK x : S = {x}
    BY <1>3, FS_Singleton
  <2> QED
    BY <2>1 DEF AtMostOne
<1> QED
  BY <1>1, <1>2, <1>3

\* ... and the other way round.
LEMMA CountOne ==
  ASSUME NEW S, AtMostOne(S)
  PROVE  Cardinality(S) = IF S = {} THEN 0 ELSE 1
<1>1. CASE S = {}
  BY <1>1, FS_EmptySet
<1>2. ASSUME NEW x \in S PROVE Cardinality(S) = 1
  <2>1. S = {x}
    BY DEF AtMostOne
  <2> QED
    BY <2>1, FS_Singleton
<1> QED
  BY <1>1, <1>2

\* However many processes serve the queue, an issue with one entry is in one
\* callback, or once in the queue, or in the hands of one loop.
THEOREM TriedOnce == Spec => []OneAtATime
<1>1. Init => AllAlone
  <2> SUFFICES ASSUME Init, NEW c \in Coupons \ restored PROVE Alone(c)
    BY DEF AllAlone
  <2>1. InCallbacks(c) = {} /\ InQueue(c) = {} /\ InLoops(c) = {}
    BY DEF Init, Down, InCallbacks, InQueue, InLoops, InMemory
  <2> QED
    BY <2>1 DEF Alone, AtMostOne, OnePlace
<1>2. AllAlone => OneAtATime
  <2> SUFFICES ASSUME NEW c \in Coupons \ restored, Alone(c), Cardinality(Entries(c)) <= 1
               PROVE  Cardinality(InCallbacks(c)) + Cardinality(InQueue(c))
                        + Cardinality(InLoops(c)) <= 1
    BY DEF OneAtATime, AllAlone
  <2>1. IsFiniteSet(Entries(c))
    <3>1. Entries(c) \in SUBSET Chains
      BY DEF Entries
    <3> QED
      BY <3>1, FS_Subset, NotifyAssumption
  <2>2. OnePlace(InCallbacks(c), InQueue(c), InLoops(c))
    BY <2>1, OneElement DEF Alone
  <2> QED
    BY <2>2, CountOne DEF OnePlace
<1> QED
  BY <1>1, <1>2, AloneInductive, NotifyInvariance, PTL DEF Spec

-----------------------------------------------------------------------------
\* What happened to a coupon is told of coupons only, and no fault is spent
\* that is not there.
Ledgers ==
    /\ delivered \subseteq Coupons /\ lost \subseteq Coupons
    /\ budget \in [crashes : Nat, faults : Nat, restarts : Nat]

LEMMA FaultSpent ==
  ASSUME Ledgers, Fault
  PROVE  budget' \in [crashes : Nat, faults : Nat, restarts : Nat]
BY DEF Ledgers, Fault

LEMMA MarkLedgers ==
  ASSUME Ledgers, NEW c \in Coupons, NEW status, Mark(c, status), UNCHANGED delivered
  PROVE  Ledgers'
BY FaultSpent DEF Ledgers, Mark

LEMMA LedgersStep == NotifyInv /\ Ledgers /\ [Next]_vars => Ledgers'
<1> SUFFICES ASSUME NotifyInv, Ledgers, [Next]_vars PROVE Ledgers'
  OBVIOUS
<1>chain. \A ch \in Chains : chain[ch] \in ChainState /\ chain[ch].coupon \in Coupons
  BY DEF NotifyInv, ChainOK, ChainState
<1>loop. \A w \in Workers :
            /\ loop[w] \in LoopState
            /\ loop[w].pc \in Busy => loop[w].member \in Member /\ loop[w].member.coupon \in Coupons
  BY DEF NotifyInv, LoopOK, LoopState, Member
<1>queue. \A m \in queue : m.coupon \in Coupons
  BY DEF NotifyInv, Typed, Member
<1>1. ASSUME UNCHANGED << delivered, lost, budget >> PROVE Ledgers'
  BY <1>1 DEF Ledgers
<1>2. ASSUME NEW c \in Coupons, delivered' \in {delivered, delivered \union {c}},
             UNCHANGED << lost, budget >>
      PROVE  Ledgers'
  BY <1>2 DEF Ledgers
<1>3. ASSUME NEW c \in Coupons, Fault, lost' \in {lost, lost \union {c}}, UNCHANGED delivered
      PROVE  Ledgers'
  BY <1>3, FaultSpent DEF Ledgers
<1>4. ASSUME NEW ch \in Chains, Acked(ch) \/ FireNotify(ch) \/ ChainZadd(ch) PROVE Ledgers'
  BY <1>1, <1>4 DEF Acked, FireNotify, ChainZadd
<1>5. ASSUME NEW ch \in Chains, InlineOk(ch) \/ InlineFails(ch) PROVE Ledgers'
  BY <1>2, <1>5, <1>chain DEF InlineOk, InlineFails, PostSucceeds, PostFails
<1>6. ASSUME NEW ch \in Chains, AckAnswerLost(ch) \/ ChainZaddFails(ch) PROVE Ledgers'
  BY <1>3, <1>6, <1>chain DEF AckAnswerLost, ChainZaddFails
<1>7. ASSUME NEW ch \in Chains, ChainSent(ch) \/ ChainMark(ch) PROVE Ledgers'
  BY <1>7, <1>chain, MarkLedgers DEF ChainSent, ChainMark
<1>8. ASSUME NEW w \in Workers, Start(w) \/ Poll(w) \/ PollNothing(w) \/ LoopZadd(w)
      PROVE  Ledgers'
  BY <1>1, <1>8 DEF Start, Poll, PollNothing, LoopZadd, notifyVars
<1>9. ASSUME NEW w \in Workers, NEW m \in loop[w].page, Zrem(w, m) \/ ZremFails(w, m)
      PROVE  Ledgers'
  <2>1. m \in Member /\ m.coupon \in Coupons
    BY <1>loop DEF LoopState, Member
  <2> QED
    BY <1>1, <1>3, <1>9, <2>1 DEF Zrem, ZremFails
<1>10. ASSUME NEW w \in Workers, RetryOk(w) \/ RetryFails(w) PROVE Ledgers'
  <2>1. loop[w].member.coupon \in Coupons
    BY <1>10, <1>loop DEF RetryOk, RetryFails, Busy
  <2> QED
    BY <1>2, <1>10, <2>1 DEF RetryOk, RetryFails, PostSucceeds, PostFails
<1>11. ASSUME NEW w \in Workers, LoopZaddFails(w) PROVE Ledgers'
  <2>1. loop[w].member.coupon \in Coupons
    BY <1>11, <1>loop DEF LoopZaddFails, Busy
  <2> QED
    BY <1>3, <1>11, <2>1 DEF LoopZaddFails
<1>12. ASSUME NEW w \in Workers, LoopSettles(w) \/ LoopMark(w) PROVE Ledgers'
  <2>1. loop[w].member.coupon \in Coupons
    BY <1>12, <1>loop DEF LoopSettles, LoopMark, Busy
  <2> QED
    BY <1>12, <2>1, MarkLedgers DEF LoopSettles, LoopMark
<1>13. ASSUME NEW w \in Workers, Crash(w) PROVE Ledgers'
  <2>1. HeldBy(w) \subseteq Coupons
    BY <1>chain, <1>loop DEF HeldBy, Busy
  <2>2. budget' \in [crashes : Nat, faults : Nat, restarts : Nat]
    BY <1>13 DEF Crash, Ledgers
  <2> QED
    BY <1>13, <2>1, <2>2 DEF Crash, Ledgers
<1>14. ASSUME NEW m \in queue, FallDue(m) PROVE Ledgers'
  BY <1>1, <1>14 DEF FallDue
<1>15. CASE RedisRestart
  <2>1. budget' \in [crashes : Nat, faults : Nat, restarts : Nat]
    BY <1>15 DEF RedisRestart, Ledgers
  <2>2. lost' \subseteq Coupons
    BY <1>15, <1>queue DEF RedisRestart, Ledgers
  <2> QED
    BY <1>15, <2>1, <2>2 DEF RedisRestart, Ledgers
<1>16. ASSUME UNCHANGED vars \/ RedisSave PROVE Ledgers'
  BY <1>1, <1>16 DEF vars, notifyVars, RedisSave
<1> QED
  BY <1>4, <1>5, <1>6, <1>7, <1>8, <1>9, <1>10, <1>11, <1>12, <1>13, <1>14, <1>15, <1>16
     DEF Next, Undisturbed, ChainStep, LoopStep

\* What a restart brings back was a member once.
RestoredKnown == restored \subseteq Coupons

LEMMA RestoredStep == Restorable /\ RestoredKnown /\ [Next]_vars => RestoredKnown'
<1> SUFFICES ASSUME Restorable, restored \subseteq Coupons, [Next]_vars
             PROVE  restored' \subseteq Coupons
  BY DEF RestoredKnown
<1>1. CASE RedisRestart
  BY <1>1 DEF RedisRestart, Restorable, Member
<1>2. CASE ~RedisRestart
  BY <1>2 DEF Next, Undisturbed, snapshotVars, RedisSave, vars
<1> QED
  BY <1>1, <1>2

\* Type correctness: the attempt a member of notify:retry carries stays within
\* 1..MaxAttempts, and no issue fails more often than there are POSTs.
THEOREM TypeCorrect == Spec => []TypeOK
<1>1. Init => Ledgers /\ RestoredKnown
  BY NotifyAssumption DEF Init, Ledgers, RestoredKnown
<1>2. NotifyInv /\ Restorable /\ Ledgers /\ RestoredKnown => TypeOK
  <2> SUFFICES ASSUME NotifyInv, Restorable, Ledgers, RestoredKnown PROVE TypeOK
    OBVIOUS
  <2>1. chain \in [Chains -> ChainState]
    BY DEF NotifyInv, Typed, ChainOK
  <2>2. loop \in [Workers -> LoopState]
    BY DEF NotifyInv, Typed, LoopOK
  <2> QED
    BY <2>1, <2>2 DEF NotifyInv, Typed, Restorable, Ledgers, RestoredKnown, TypeOK,
                            ChainState, LoopState
<1> QED
  BY <1>1, <1>2, LedgersStep, RestoredStep, NotifyInvariance, PTL DEF Spec

=============================================================================
