# Formal model of the coupon system

TLA+ modules, TLC configurations and TLAPS proofs for the first-come coupon service and for the
tools that run, judge and clean up its AWS load tests: what the code promises under concurrency, crashes,
lost calls and mistakes of an operator, checked on small instances and, but for liveness, proved for
instances of any size.

Paths below are relative to the root of the repository; `J/` stands for
`src/main/java/com/chironsoft/coupon/`.

- [The system](#the-system) - [Modules](#modules) - [Runs](#runs) - [Proofs](#proofs)
- [What the code does not keep](#what-the-code-does-not-keep) - [Not modelled](#not-modelled) -
  [Plan](#plan)

## The system

An operator creates an *event* with `total_qty` coupons and moves it through READY, OPEN and CLOSED.
Users ask for a coupon through any of several API instances; one of three *strategies* decides who
gets one. In the deployed strategy Redis decides (a Lua script), the issue goes to a Redis stream,
and worker processes write it to MySQL and notify an external API. Load tests on AWS stop and start
parts of it under load; Python tools turn what was seen into evidence, and a Lambda stops what was
left running.

| Component | State | Operations | Interacts by |
|---|---|---|---|
| Event administration, `J/application/CouponEventService.java` | `coupon_event` row | create, changeStatus, remaining | fills `stock:{id}`, empties `issued:{id}`, empties caches, publishes |
| Redis stock store, `J/infrastructure/redis/*` | `stock:{id}`, `issued:{id}` | initialize, script, DECR + SADD, SISMEMBER, GET | called by administration and the strategies |
| Metadata cache, `J/application/CouponEventMetaCache.java`, `J/config/CacheInvalidationConfig.java` | one Caffeine entry per event and instance | get, getIfCached, invalidate, pub/sub listener | read by the strategies |
| Lua strategy, `J/application/issue/LuaScriptIssueStrategy.java`, `J/api/reactive/ReactiveCouponController.java`, `redis/*.lua` | none of its own | issue | writes `stream:issue`, a Kafka topic or `coupon_issue`, by record mode |
| Pessimistic strategy, `J/application/issue/PessimisticLockIssueStrategy.java` | `issued_qty`, `coupon_issue` | issue, one transaction | shares the row lock with changeStatus |
| Redisson strategy, `J/application/issue/RedissonLockIssueStrategy.java` | `lock:issue:{id}` with a lease of 3 s | issue | Redis commands under the lock, then `coupon_issue` |
| Stream worker, `J/infrastructure/stream/IssueStreamWorker.java`, `IssueRecordWriter.java` | consumer group, pending list, `coupon_issue` | loop, reclaim, processBatch, writeBatch | XREADGROUP, XCLAIM, XACK, INSERT |
| Notification, same file | `notify:retry` (a ZSET), `notify_status`, callbacks in memory | fireNotify, scheduleRetry, retryLoop, markNotify | HTTP, ZADD, ZREM, UPDATE |
| Kafka worker, `J/infrastructure/stream/KafkaIssueWorker.java` | committed offset, `coupon_issue` | onMessages; the container's polls, rebalances, redeliveries | shared batch writer, commit |
| TTL cleanup Lambda, `infra/aws/ttl_cleanup.py` (and `main.tf`) | tags, environment, IAM condition; status of EC2 and RDS | lambda_handler, terraform apply | AWS calls, EventBridge |
| Evidence builders, `scripts/aws/build-recovery-evidence.py`, `build-api-fault-evidence.py` | seven (six) input files, the manifest | validate_inputs, atomic publication | files an operator wrote |
| k6 aggregation, `scripts/aws/aggregate-k6-evidence.py` | bundles of seven files, the report | collect, report | files of the executions |
| Load generator package, `scripts/aws/package_loadgen.py` | sources, archive, manifest | three modes: archive, manifest, extract | files, other packagers |
| Read API | none | history, get | queries |
| k6 scripts, deployment scripts, Terraform, dashboards, MCP tools | none of the service's | | outside the service |

**What is hard here.** `PROJECT.json` lists the hazards line by line; they fall into ten groups.

1. *changeStatus is a transaction around calls that are not transactional.* Redis is reset and the
   caches are emptied before the status is committed, two commands apart, and a rollback undoes
   neither. Two operators may overlap, and the full-row UPDATE carries a row read without a lock.
2. *The decision is split.* The status is checked on a cached copy; the script, or four separate
   commands under a lease, runs later, perhaps after a close, a second opening or a Redis restart.
   `docker/docker-compose.yml:30` turns the append-only file off and leaves the image's save points
   on: a Redis that was killed comes back with an *older* stock and a smaller issued set, or, in a
   new container without its volume, with nothing.
3. *Redis has decided and the record is still to be written*: in the same request (sync), by a
   producer whose result is ignored (kafka), by another process (stream).
4. *The worker's batches* are recorded, acknowledged and notified in three steps; any process may
   die between them, all of them share one consumer name, and an INSERT may fail for one row of a
   batch.
5. *Notifications* live in callback threads, then in a queue that several loops claim from; the
   database mark is written by another thread than the one that posts.
6. *Caches* are invalidated at most once by pub/sub, before the commit; only the TTL is certain.
7. *The Kafka listener* commits a position, not a list: a batch that fails is delivered again,
   skipped after ten attempts, or finished by a process that no longer has the partition.
8. *An extension of a deployment* reaches the Lambda's environment, its IAM condition and the tags
   of the resources one at a time, while invocations that began before it still run; any of their
   AWS calls may fail, and a failure must neither hide the other resources nor be hidden itself.
9. *Evidence is made by hand*: commands fail, captures come too early, numbers carry no time, files
   are of another run or instance; k6 breaks iterations off and hears no answer. What is published
   must be true as far as its checks reach, and must replace nothing.
10. *Files are read twice* (digest, then contents), edited while they are packed, and published by
    several processes at once.

**What makes each component correct.** Administration: what it puts into the counter is what may
still be issued. Strategies: no over-issue, one coupon each, no false SOLD_OUT or DUPLICATE, nothing
before OPEN, a counter that agrees with the table. Lock and lease: exclusion, release after a death.
Worker: nothing lost between the stream and the table, acknowledged only after it is recorded, the
backlog drains. Notification: tried in one place at a time, given up only after every attempt, losses
only where they are known. Cache: how stale and for how long. Kafka worker: what is committed is
settled. Cleanup: nothing too early, no failure passed over, everything stopped in the end. Evidence:
what is published is true, whole, and never overwritten.

## Modules

| Module | Models | Extends / instantiates |
|---|---|---|
| `EventAdmin` | event row, Redis keys, caches without a clock, `changeStatus` | base of the three strategies |
| `CouponAllocation` | abstract: give coupons to distinct users, record them at once or later | instantiated by the three strategies |
| `LuaIssue` | requests of the Lua strategy in its three record modes | extends `EventAdmin` |
| `PessimisticIssue` | requests of the row-lock strategy | extends `EventAdmin` |
| `RedissonIssue` | requests of the distributed-lock strategy | extends `EventAdmin` |
| `StreamWorker` | consumer group loop, takeover, batch writer | |
| `KafkaWorker` | the listener of the topic, and the choice of the worker by record mode | extends `StreamWorker` |
| `NotifyRetry` | callbacks, retry queue, marks, from XACK on | |
| `MetaCache` | caches with a clock, pub/sub, `changeStatus` as far as they see it | |
| `TtlCleanup` | the cleanup Lambda, terraform's extensions, EC2 and RDS | |
| `FaultEvidence` | a fault experiment, the files about it, both evidence builders | |
| `K6Aggregate` | executions, their files, the aggregation | |
| `PackageLoadgen` | the packager of the load generators | |
| `LuaIssueProofs`, `PessimisticIssueProofs`, `RedissonIssueProofs`, `NotifyRetryProofs`, `MetaCacheProofs`, `TtlCleanupProofs` | theorems and proofs | extend the module they prove |
| `WorkerProofs` | the same, for both workers | extends `KafkaWorker` |
| `AwsToolsProofs` | the same, for the evidence builders, the aggregation and the packager | extends `FaultEvidence`, `K6Aggregate` and `PackageLoadgen` |
| `MC*` | instances for TLC; `MCLuaIssue` and `MCAwsEvidence`, which check no liveness, with symmetry | extend the module they check |

The pieces of the service meet at these variables: `LuaIssue.stream` is the log `StreamWorker.Add`
appends to, an acknowledged entry of `StreamWorker` starts a chain of `NotifyRetry`, `KafkaWorker`
gives the same log and the same table to one of the two workers, and `EventAdmin.cache` is
`MetaCache.cache` without its age: there an entry may vanish at any moment, which is more than any
TTL, eviction or message can do, so the strategies are checked against every cache timing.

Definitions named `X_Something` with a comment "Faulty" are single-line errors of the code beside the
definition `X` they would replace; they are in no specification, and are kept to see that each
property can fail.

**EventAdmin.** `ReadEvent` is the findById of `changeStatus`; for OPEN, `DelIssued` and `SetStock`
are the two commands of `RedisStockStore.initialize`; `Invalidate` empties the cache of the instance
that serves the call; `Drop` lets any entry vanish at any time (message, TTL, eviction); `Commit`
writes the row back as read, with the new status; `Rollback` may happen at each step and leaves
Redis as it is; restarts of Redis are in `LuaIssue`. `credited` and `opens` are history: what the
openings put into the counter and how many there were.

**CouponAllocation.** What a first-come event promises, whoever serves it: `winners` in the order of
the decisions, nobody twice, never more than `TotalQty`; `recorded`, the users with a row, are
winners. A strategy takes `Grant` and later `Record` (Lua in mode sync and the Redisson lock; in
the other modes of Lua the row is the worker's), or both in one step, `Issue` (the row lock, which
decides and records in one transaction). The strategies keep their winners as a history variable `grants`.

**LuaIssue.** `CheckMeta` loads or hits the instance's copy; `LuaDuplicate`, `LuaSoldOut` and
`LuaGrant` are the branches of the script (atomic, as Redis runs it); `KafkaSend`, `SaveRow` and
`NotifyDone` what follows by record mode; `Fail` a failed call or a dead instance. `KafkaLose` is
the producer giving up a record whose future the code drops. The reactive controller takes the same
steps in mode "stream". `RedisSave` takes a snapshot at any moment (also between DEL and SET of an
opening), and `RedisRestart` brings back the last one, however old, or no keys at all. `forgotten` is
history: the grants, by position, that were made after a snapshot whose counter has come back, and
of which that counter therefore knows nothing. What the code does promise across a restart is stated
with it: over-issue and second grants are bounded by `forgotten`, so that a restart with the current
keys or with none costs nothing (without a counter the script answers SOLD_OUT).

**PessimisticIssue.** `Lock` waits for the row, `Insert` sees the unique key, `CommitIssue` writes
`issued_qty + 1`; `CommitStatus` is the full-row UPDATE of `changeStatus`, which waits for the
same lock and then writes old columns. `overwritten` counts the increments it undid.

**RedissonIssue.** The membership test, the counter, DECR, SADD, isHeldByCurrentThread and unlock are
separate steps; `Expire` ends a lease under a live holder (counted in `overran`) or a dead one.

**StreamWorker.** One process is `Start`, `NextCycle`, `Scan`, `Claim`, `Read`, `WriteBatch` or
`RollbackBatch` with `WriteRow` for each row, `Ack`, `Fire`. `Crash` kills it anywhere, `Fault`
fails a call, `AnswerLost` executes one whose answer does not arrive, `Delete` is a DEL of the
stream (the reset scripts), after which the group is made anew from 0.

**NotifyRetry.** A chain is one acknowledged entry: `Acked`, `FireNotify`, posts, then ZADD and the
mark RETRYING in that order. A loop is `Poll`, ZREM per due member (`Zrem`, whose count tells who owns
it), POST, ZADD of the next attempt or the final mark. A death or a failed call in the hands of a
thread puts the coupon in `lost`. `RedisRestart` brings the queue of the last snapshot back, or none:
members added since are `lost`, members claimed since are there again (`restored`, the one exception
`OneAtATime` makes).

**MetaCache.** A miss is `Read` and `Put` with time between them; `Tick` ages entries, ends them at
`TTL`, and lets no load last longer than `MaxLoad`. Each entry carries, as history, how long it has
differed from MySQL, whether it was loaded during a change, and whether a message about it was lost.

**KafkaWorker.** `mode` is fixed in Init; a step is one of the stream worker or one of a listener.
`log` is then the topic, `committed` the group's offset, `consumer[w]` the process with its
position, its batch and the redeliveries so far. `Poll`, `ListenerWrites` or `ListenerRollsBack` and
`ListenerWritesRow`, `Acknowledge` are onMessages and the shared writer; a message the code cannot
parse is dropped from the batch (`Parsed`) and acknowledged with it. `Assign`, which may take the
partition from a busy process, the redelivery after `ListenerFails` and the skip after `Attempts`
are the listener container's, configured in application.yml, and external.

**TtlCleanup.** `run` is one invocation of lambda_handler: `Begin` (or `NotExpired`), `Ec2Client`,
`Ec2Discovery`, `Stop` for each instance found, then, where `ENABLE_RDS` is set, `RdsClient`,
`RdsDiscovery`, `RdsTags` and `Stop` for each database, `Finish`. Each call has its failure
(`Ec2Fails`, `RdsFails`, `RdsTagsFail`, `StopFails`), which joins `run.failures` as in the code, and
`Killed` ends an invocation anywhere. Around it `Extend` is a terraform apply that reaches policy,
function and tags by `Apply...` in any order; databases become busy, and what was stopped is started
again. `due` and `retagged` are history.

**FaultEvidence.** The first half is the experiment: what is the case (`up`, `health`, `backlog`,
`broken`), what the operator does and notes (`moments`, `samples`, `sightings`), and the files he
writes, honestly but perhaps too early, after a failed command or from a failed capture. The readings
of XPENDING may be of any time: the input has no timestamps for them, and `samples.timely` is known
to the model only. The snapshots are made in any order, that of Redis also before the recovery. A
recorded entry is `unsent` until its notification is out, and `notification.pending` counts these,
not the backlog of the stream. The second
half is the code: `RecoveryAccepts` and `ApiFaultAccepts` are validate_inputs of the two builders,
condition by condition, `CheckOutput` and `Link` the publication. `ReadStray` hands in a file of
another run, instance or service in place of one input. `seen` records what was the case and when.

**K6Aggregate.** `Launch`, `Iteration`, `Dropped` and `Ends` are executions against one stock, with
a wrong plan, package or range, a wrong answer, a lost one or an iteration that k6 breaks off (the
coupon may be granted, and no metric counts it) as slips. `Made` is k6's `iterations`, and `Slack`
the attempts that may be missing from it (0.1 % of the plan's). `MixUp` and `CopyBundle`
exchange local files at any time. `HashBundle` and `LoadBundle` are one bundle in the loop of
collect: digests first, contents read again; `Report`, `OpenReport`, `WriteReport` the end. A file
is known by the execution it came from, so a digest is a function of that.

**PackageLoadgen.** Each process takes `StartPackager` in one of three modes, reads the sources one
by one (`ReadSource`) or the manifest of an archive (`ReadEmbedded`, `VerifyEmbedded`), writes,
verifies and replaces; sources are edited and archives damaged at any time. `MCAwsEvidence` runs the
last three modules in one instance, with a variable `tool` that says which of them a behaviour is
about: they share no file.

## Runs

All passing runs explore their state space completely, two of them within a constraint that is named
below.

| Run | Asks | Instance | Distinct states |
|---|---|---|---|
| `lua_open` | Opened once, does an event implement the first-come allocation with truthful answers, in every record mode; opened twice, do grants stay within what the openings put into the counter? | 2 coupons, 3 users, 3 requests, 1 instance, 2 overlapping status changes, both of which may open (one change in mode kafka), 1 Redis restart from any snapshot or from nothing | 1.5 million |
| `lua_overissue` (violated) | Is an event never over-issued, however often it is opened? | 1 coupon, 2 users | |
| `row_lock` | Counter = table, rows only while OPEN, everybody answered under the row lock? A first-come allocation while no count was overwritten? | 1 coupon, 2 users, 3 requests, 2 overlapping status changes | 268,312 |
| `row_lock_overissue` (violated) | Is there no over-issue under the row lock? | the same with 2 requests | |
| `lease_lock` | What can a lease that runs out do? A first-come allocation while none does? | 1 coupon, 3 users, 3 requests, 1 status change, 1 overrun | 750,057 |
| `worker_loop` | Is nothing lost, in either record mode, and does the backlog drain? | 2 processes, 2 entries, batches of 2, takeover window of 1, 1 crash, 1 failed call, 1 DEL; 1 rebalance, 2 failures and 2 attempts for Kafka | 517,351 |
| `notify_retries` | One place at a time, no early giving up, losses accounted for, an end? | 1 coupon with up to 2 entries, 2 loops, 1 + 2 attempts, 1 crash, 1 failed call, 1 Redis restart (any two of these) | 579,320 |
| `notify_lost` (violated) | Is sending at-least-once? | 1 coupon, 1 loop, 1 crash | |
| `notify_overwritten` (violated) | Does a retried notification end with a final mark? | 1 coupon, 1 loop, no failures of the infrastructure | |
| `meta_cache` | How stale, why, and for how long? | 2 instances, 2 overlapping status changes, TTL 2, loads up to 1, 1 lost message | 218,708 |
| `ttl_cleanup` | Nothing stopped early, no failure passed over, everything stopped in the end? | 2 instances, one of them foreign, 2 databases, 1 extension, 1 failed call or kill, 1 restart or database that becomes busy | 479,692 |
| `aws_evidence` | Is what the evidence tools publish true, or whole? | 1 experiment over 2 ticks with 3 sightings and 1 mishap; 2 sources, 2 packagers, 1 edit, 1 damage; 2 generators with 2 users each, stock 2, 1 lost answer tolerated and 1 attempt of slack, 2 executions, 2 slips | 2.2 million |

**Why these bounds are enough to be interesting.** Three requests of freely chosen users give the
duplicates and the last-coupon races (the users of the requests are chosen in Init, so one person
may send all three). Two status changes overlap in every order with each other and with the
requests. One crash, one failed call and one restart reach each pair of failure and recovery;
`RestartBound` in `MCNotifyRetry` leaves out all three together, and keeps a snapshot that is not
empty only while one entry of the coupon is there. `OneChangeWithKafka` in `MCLuaIssue` leaves one of
the two status changes to mode kafka, whose producer multiplies the states; the other modes have both.
One restart suffices for what a stale snapshot can do: it may be taken before, within or after the
opening and after any number of grants.
`TTL`, `MaxLoad`, `InlinePosts`, `MaxAttempts`, `BatchSize`, `PendingWindow`, `ReclaimEvery` and
`Attempts` are the code's 10 s, a slow query, 3, 5, 100, 100, 15 and 10 made small, each still above
the value at which its branch disappears. `PendingWindow` is smaller than the pending list on
purpose. In `worker_loop` the two failures use up the two attempts, so a batch is skipped with and
without a commit. In `ttl_cleanup` one extension splits environment, policy and tags in every way,
with an invocation in progress. In `aws_evidence` the two ticks give times that are equal and times
that differ, which is all that the comparisons of the builders see; two slips reach every pair of a
wrong execution and a wrong file, and two executions a repeated generator, a repeated execution and
overlapping users; more executions than two are left to `AggregateReported`. `Stock` is smaller
than the users of two generators, so that somebody is sold out. The proofs remove all of these bounds for
what is not liveness. Every `Max...` constant but `MaxAttempts` is such a bound and nothing else; no
action of the code looks at it.

`CHECK_DEADLOCK FALSE` stands where the instance comes to rest when all requests are answered and the
status changes are used up.

**Fairness.** None where only safety is checked (`EventAdmin`, `LuaIssue`, `FaultEvidence`,
`K6Aggregate`, `PackageLoadgen`). `StreamWorker`: a process that is up keeps looping (one thread in
a `while (running)`), a dead one is restarted by its orchestrator, a minute of idleness passes;
crashes and failures are never fair, they are bounded. `KafkaWorker`: the same, and a free partition
is given to a living process; the error handler guarantees the progress that a failing batch would
otherwise stop. `NotifyRetry`: threads run, dead processes restart, delays pass; an HTTP call ends
in success or failure (it has a timeout) without either being favoured, so `Settles` holds for an
API that never answers. `PessimisticIssue`: InnoDB grants a row lock to waiters in turn, hence
strong fairness of `Lock`, and a transaction that has it goes on. `RedissonIssue`: a holder goes on
or fails, and time passes for a lease. `MetaCache`: time passes, loads and transactions end, a
message arrives or is lost. `TtlCleanup`: the clock goes on, an apply is brought to its end, a
database is not busy for ever, EventBridge invokes the function every five minutes and an invocation
takes its next step; a call that fails and a kill are not fair.

## Proofs

`tlapm` checks the eight proof modules to the last leaf. The only assumptions are the named ones of
the constants (`EventAssumption`, `LuaAssumption`, `WorkerAssumption`, `KafkaAssumption`,
`NotifyAssumption`, `NoMemberAssumption`, `LockAssumption`, `CacheAssumption`, `CleanupAssumption`,
`EvidenceAssumption`, `AggregateAssumption`, `PackageAssumption`), which TLC evaluates in the runs;
sets of users, requests, instances, operators and processes are arbitrary (the set of notification
chains is finite), and the `Max...` bounds are arbitrary naturals, so no bound matters.

**LuaIssueProofs.** `IInv` is the inductive invariant, `Inductive` its preservation, with a step for
each action. The safety properties are not inductive alone:

- `OverIssueFree` (NoOverIssue) needs `Credit`: grants and what is left in the counter never exceed
  `credited` and the number of `forgotten` grants; and `Opening`: with one opening `credited` never
  exceeds `TotalQty`, because no two calls are between DEL and SET of an opening at a time.
  `GrantsCovered` (GrantsWithinCredit) is `Credit` without the restriction to one opening.
- `OneCouponEach` (OnePerUser) needs `Issued`: as long as the counter exists, the issued set
  holds the users of all grants that are not forgotten. The one DEL comes before the one SET, hence
  before the first grant; after a restart with no keys the counter is missing, and the script answers
  SOLD_OUT.
- Both need the same of the last snapshot, up to the grants made when it was taken, since a restart
  may put it in the place of the keys (`Restorable`; `RestartStep` is the step that uses it).
- `SoldOutTruthful` (SoldOutIsTrue) and `OpenBeforeGrant` (NoGrantBeforeOpen) need `Gate`: nobody
  passes the metadata check before OPEN is committed, and SET comes before that.
- `DuplicateTruthful` (DuplicateIsTrue) needs `Granted`: who is past the script, or in the issued
  set, was granted a coupon.
- `RemainingExact` (RemainingIsExact) needs `CounterFilled`: unless Redis was restarted, the counter
  exists as soon as an opening has credited it.
- `UnrecordedReported` (UnrecordedIsAnError) follows the rows: `RecordStep` says that in mode sync
  the row comes before the answer.
- `Refinement` (ImplementsAllocation): as long as the event has been opened at most once and no grant
  is forgotten, each step is one of `CouponAllocation` or a stutter (`StepRefines`: the granting step
  is `Grant`, the writing of a row `Record`; a restart with no keys stutters); `OnceRefines`: a
  behaviour in which that is always so implements the whole abstract specification.
- `SentAreGranted` says what the workers may rely on: stream, producer buffer and topic hold only
  users with a granted coupon (`HandedOn`), in every record mode and across restarts of Redis.

**WorkerProofs.** `Lossless` (NothingLost: handed out means pending or recorded) needs
`RecordedFirst` (RecordedBeforeAck), and that needs `RowsDone`: the row-by-row fallback has written
the part of the batch it has taken off its list. `NotifiedLast` (NotifiedAreRecorded) follows from
these. `CommittedSettled` (CommittedIsSettled) needs `ListenerOK` of every process, the owner of the
partition or not: what its position has passed is settled unless it is in its batch, and the batch
is settled when it comes to be acknowledged. A commit moves `committed` to such a position; a
rebalance starts the next process from a committed one. `StreamSafe` carries what holds of the
stream workers over to the composition. `NothingInvented` says that, in either mode, a row stands
for a readable entry of the stream or topic (`RecordedWereSent`). Beside `SentAreGranted` of the
issuing side it is the other half of "who is recorded was granted a coupon"; the two are proved of
the two specifications, and their composition in one is open (see Plan).

**PessimisticIssueProofs.** `CounterMatches`, `OverIssueFree`, `SoldOutTruthful` and
`OpenWhileIssuing` rest on `Locked` (one holder, and the row it read under the lock is still the
committed one) and on `Behind` (no status change has read a counter that is beyond the rows, so what
it overwrites is never negative). `Refinement` (ImplementsAllocation) says that the row lock is the
first-come allocation until a count is overwritten: the committing step is `Issue`, because the
winners are the rows (`GrantsAreRows`) and the counter read under the lock is their number.

**RedissonIssueProofs.** `LockExcludes` (MutualExclusion) is `Exclusive`: who is between tryLock and
unlock holds the lock or has overrun his lease. `OverIssueBounded` (OverIssueByOverruns) needs
`Counted`: those about to DECR are at most as many as coupons and overruns together, and each DECR
pays for one row. `Refinement` (ImplementsAllocation) says that, opened at most once and while no
lease has run out on its holder, the lock is the first-come allocation too: SADD is `Grant`, INSERT
`Record`. It needs `AllocationInv`: who is between the membership test and SADD is not in the set
(`Unregistered`), which is the set of the winners (`Registered`), and grants, requests at SADD and the
counter never exceed `TotalQty` together (`Balanced`). Type correctness is not obvious here, since
the counter can go below what it is checked for: `Floor` shows that it does so once per overrun lease
at most.

**NotifyRetryProofs.** `SentTruthful`, `GivenUpTruthful` and `AllAccounted` need the places:
wherever a notification is (`ChainOK`, `LoopOK`, `QueueOK`), at least as many POSTs have failed as
the place stands for. A step moves it to its next place, ends it, or puts it in `lost`. `TriedOnce`
(OneAtATime) needs `Alone`: what is in the queue or a loop came from an entry, so that an issue with
one entry has one callback at most, and each step moves it on to an empty place. `Restorable` says of
the snapshot what `QueueOK` says of the queue, since failed POSTs are never forgotten
(`FailuresGrow`); a coupon that a restart brings back is excepted from `Alone` (`AllAlone`).

**MetaCacheProofs.** `StalenessBounded` (StaleBounded) needs the ages: a value has not been stale
for longer than it exists, which is `MaxLoad` at most while it is loaded (`LoadAges`) and less than
`TTL` in the cache (`EntryAges`). `StalenessExplained` (StaleForAReason) needs `LoadsRace` (what is
loaded while a change is in progress is marked so) and `Announced` (what a commit makes stale was in
the cache when the change was published, so its message is on its way or was lost). `TypeCorrect`
needs `Counted`: no more messages are on the way to an instance than changes have published.

**TtlCleanupProofs.** `StoppedWhenDue` (StoppedOnlyWhenDue) needs `LookedAt`: what is about to be
stopped was found with the expired tag since this invocation began. `FailuresReported`
(FailuresAreReported) needs `Tracked`: what is due and not reported yet is still ahead of the loop.

**AwsToolsProofs.** `RecoveryManifestTrue` and `ApiFaultManifestTrue` need that each file, once
written, says something of the truth (`FilesOK`, over `Past`, which relates the notes to what was the
case), that a stray file is refused whatever the others say (`StrayRefused`), and that the output is
a set of accepted inputs (`Built`). `OutputUntouched` is OutputKept. `PublishedWhole`
(PublishedIsWhole) needs `PackagerOK`: what a process has in its hands has passed the checks it is
past, and what was once verified stays so. `AggregateReported` (AggregateIsTrue) needs four facts:
an execution issues only to users of its range, and what it did not hear of is among its lost answers
and its broken-off iterations (`RunsOK`), of which an accepted summary leaves room for `Tolerated` and
`Slack` (`CutWithinSlack`); what is collected comes from executions that are over (`Gathered`); the totals of a report
in the making are those of the executions counted so far (`Tallied`); and, unless a file changes
between its two readings, what is loaded next is of one execution (`Compared`). Executions with
different starts have disjoint ranges, so no user is counted twice.

**Only model-checked.** Liveness (`BacklogDrained`, `Settles`, `Answered`, `LeaseFreesLock`,
`FreshAgain`, `AllStopped`), which the prover cannot treat under fairness. Every invariant and action
property of the runs is proved.

## What the code does not keep

The four violated runs show disagreements between the code and what its documents and tests say:

- `lua_overissue`. Each OPEN resets the counter to `totalQty - issuedQty`, but the Redis strategies
  never write `issuedQty`: OPEN twice (or open, close, open) issues the full quantity again and lets
  winners win again.
- `row_lock_overissue`. `changeStatus` writes back every column of a row it read without a lock; an
  `issued_qty` counted up meanwhile is overwritten. `CounterMatchesRows` shows that this is the only
  way counter and table part.
- `notify_lost`. The batch is acknowledged before its notifications are fired, the first posts live
  in memory, and the loop removes a member before it posts: a death in between forgets the
  notification. `Accounted` lists all the places where this happens.
- `notify_overwritten`. The queue gets the member before the mark RETRYING is written, so a slow
  writer overwrites SENT or FAILED_PERMANENT.

Recorded here, without a run of their own:

- README.md:3 promises no over-issue, and `docker/docker-compose.yml:30` lets Redis come back with an
  older snapshot: an event that is opened once then issues again what was granted since, also to users
  who have a coupon already. `NoOverIssue`, `OnePerUser` and `GrantsWithinCredit` show that the
  `forgotten` grants are the exact price. (Uniqueness in `coupon_issue` still holds: the worker drops
  the second row.)
- With the counter lost, `remaining` falls back to `totalQty - issuedQty`
  (`CouponEventService.java:72-76`, called conservative there), which for the Redis strategies is
  the full quantity; after an older snapshot it shows too much as well. `RemainingIsExact` therefore
  excludes a restart.
- `CacheInvalidationConfig.java:15-17` says the broadcast ends the dependence on the TTL. It does
  for copies loaded before the change began; one that is loaded between the broadcast and the commit
  keeps the old status until its TTL ends (`StaleForAReason`, `StaleBounded`).
- In mode kafka a record the producer gives up is a granted coupon without a row; the code documents
  this as accepted. A batch that fails ten times is skipped by the container's default error
  handler, which nothing in the code documents: its messages are `skipped` in `CommittedIsSettled`.
- The aggregation compares digests and then reads the files again; a file that is changed between
  the two can spoil a report (`spoiled`), and a kill while the report is written leaves a partial file
  that blocks the next attempt. Nothing in the code prevents either; `AggregateIsTrue` speaks of
  complete reports that were not spoiled.
- The aggregation takes 99.9 % of the planned attempts for all of them
  (`aggregate-k6-evidence.py:274`). What k6 broke off may have been granted and is counted nowhere, so
  a report can hide as many grants beyond the stock: `AggregateIsTrue` bounds them by
  `Tolerated + Slack` for each execution.
- A recovery manifest proves less than its field names say. `pending_before_stop`, `pending_after_stop`
  and `pending_after_drain` have no time that `build-recovery-evidence.py` could check, the snapshot of
  Redis need not be made after the recovery, and `notification.pending` is another quantity than the
  backlog: entries that arrived after `drained_at` may still be pending when the manifest is
  published. `RecoveryIsTrue` claims what the times do imply: a moment between restart and recovery
  with nothing left to record, and one after the recovery with no notification to send.
- `aggregate-k6-evidence.py:21-28` demands threshold results for `coupon_issued`, which
  `k6/lib/aws-claim.js:133-149` never defines: as they stand, the repository's scenarios produce no
  summary that the aggregation accepts. The model leaves this demand out, and so accepts more.
- A stop that was looked at before an extension and carried out after it can come too early, if tag
  and policy were both changed in between (`StoppedOnlyWhenDue` names this case and excludes every
  other).

## Not modelled

Abstracted inside the modules: the time of day is a Boolean each request draws (`inWindow`). There
is one event; nothing in the code relates two. XCLAIM by age and the exact idle time are a set of
entries that have been idle for long enough. Values that are only carried (ids, timestamps, JSON)
are the user they belong to. Trimming of the stream does not exist in the code. A Redis that
restarts is that of docker-compose; in `RedissonIssue` it keeps its data, and in `StreamWorker` it
only ever loses the stream with its group as a whole (`Delete`): a stream or pending list that comes
back from an older snapshot is not modelled there, and `NothingLost` is not claimed for it. The syntax of evidence files (UTF-8, exact keys, UTC text, decimal strings) is
taken as well formed: a malformed file is refused before the checks modelled here, and one slip of
an operator is a wrong file, not a wrong character. `K6Aggregate` takes the users of a generator for
the attempts its plan expects, and leaves out the canonical object keys; `pending_after_drain` is read
at the drain or with the snapshot. One topic partition is modelled; partitions are
independent of each other.

Left out as components, with the reason:

- *Read API*: one query per call, no state, no effect on anything modelled. Its offset is computed
  in `int` (`page * limit` wraps for pages beyond 21 million), a computation without a second
  definition in the code to compare it with; it stays listed as a hazard without a property.
- *Application wiring*: configuration; record mode, strategy and profiles are constants or variables
  of the models.
- *k6 scripts*: their iterations and what they count are the executions of `K6Aggregate`; there is
  no state between virtual users.
- *Deployment and measurement scripts*: sequences of external commands (aws, docker, terraform)
  whose state is that of AWS; where another program depends on what they leave (expires_at,
  receipts, bundles), that program's module has it.
- *Infrastructure, observability, MCP tools*: declarative files, dashboards, a mock server, and
  query tools that only read, for one client, one request after the other.

## Plan

Done, in this order: `EventAdmin` + `LuaIssue` + `CouponAllocation`, `StreamWorker`, `NotifyRetry`,
`PessimisticIssue`, `RedissonIssue`, `MetaCache`; then `KafkaWorker` composed with `StreamWorker`,
`TtlCleanup`, `FaultEvidence`, `K6Aggregate`, `PackageLoadgen`; proofs of all of them; the locking
strategies as implementations of `CouponAllocation`.

Open: the script in mode stream and the workers in one specification, so that the end-to-end promise
(every row a grant, every grant in the end a row) is one refinement of `CouponAllocation`. Today it
is the sum of `SentAreGranted` and `NothingInvented`, and of `NothingLost` and `BacklogDrained`,
joined at the stream.

Runs stay few: one for each component or group of tools, one for each disagreement.
