----------------------------- MODULE FaultEvidence -----------------------------
(***************************************************************************)
(* A fault experiment on AWS and the manifest that is to prove it.  An     *)
(* operator stops one service by SSM while load runs, starts it again, and *)
(* writes down what is seen; build-recovery-evidence.py (a worker was      *)
(* stopped) or build-api-fault-evidence.py (an API instance was) validates *)
(* these inputs and publishes a manifest, or refuses.                      *)
(*                                                                          *)
(* The operator writes nothing untrue, but works in the wrong order, too   *)
(* early, with failed commands and captures, or hands in a file of another *)
(* run or instance.  The numbers of pending entries carry no time: which   *)
(* moment they are of is the operator's word alone.  Times are ticks of a  *)
(* clock: several things happen in one tick, as timestamps of a second do  *)
(* not tell them apart.                                                    *)
(***************************************************************************)
EXTENDS Integers, Sequences

CONSTANTS
    MaxTime,            \* bound: the last tick
    MaxBacklog,         \* bound: entries not recorded, and notifications not sent, yet
    MaxObservations,    \* bound: ALB states written down
    MaxMishaps,         \* bound: failed commands and captures, wrong files, crashes
    NoFile,             \* a file that does not exist
    Foreign             \* a manifest another build has put at the output path

ASSUME EvidenceAssumption ==
    /\ MaxTime \in Nat /\ MaxBacklog \in Nat /\ MaxObservations \in Nat /\ MaxMishaps \in Nat

None == -1
Time == 0..MaxTime

VARIABLES
    kind,       \* "worker" or "api": what is stopped, and so which builder runs
    now,
    up,         \* the service on the chosen instance
    health,     \* its state at the load balancer
    backlog,    \* entries of the stream not in the table
    unsent,     \* recorded entries whose notification is neither sent nor given up
    broken,     \* truth: the first time of an over- or double issue ("over"), of more
                \* transport failures than allowed ("lost"), of a notification given up ("failed")
    seen,       \* truth: << fact, time >> for what has been the case
    moments,    \* the operator's notes: times,
    samples,    \*   numbers read from XPENDING and from the workers, and whether the
                \*   second is timely (which the file does not tell),
    sightings,  \*   and states of the target
    files,      \* the inputs
    builder,    \* the build that runs, if any, and the inputs it has read
    output,     \* the file at the output path
    mishaps     \* mishaps so far

system == << up, health, backlog, unsent, broken >>
notes == << moments, samples, sightings, files >>
evidenceVars == << kind, now, system, seen, notes, builder, output, mishaps >>

\* The fault lasts from the end of the stop command to the start command.
Fault == moments.stopDone # None /\ moments.startSub = None

\* What is the case now, as far as a manifest speaks of it.
Facts ==
    { <<f, now>> : f \in
        (IF Fault /\ ~up THEN {"down"} ELSE {}) \union
        (IF kind = "api" THEN {health}
         ELSE (IF backlog = 0 THEN {"drained"} ELSE IF Fault THEN {"backlog"} ELSE {}) \union
              (IF unsent = 0 THEN {"settled"} ELSE {})) }

\* The inputs of the two builders.
InputNames(k) ==
    {"stop_receipt", "start_receipt", "timeline", "mysql", "api"}
        \union (IF k = "worker" THEN {"redis", "notification"} ELSE {"alb"})

Captures == InputNames(kind) \ {"stop_receipt", "start_receipt", "timeline"}

Moments == {"load", "stopSub", "stopDone", "startSub", "startDone", "recovered"}

\* The service of either contract.
Service == IF kind = "worker" THEN "coupon-worker-stream" ELSE "coupon-api-reactive"

EvidenceInit ==
    /\ kind \in {"worker", "api"}
    /\ now = 0 /\ mishaps = 0
    /\ up = TRUE /\ health = "healthy" /\ backlog = 0 /\ unsent = 0
    /\ broken = [x \in {"over", "lost", "failed"} |-> None]
    /\ seen = {}
    /\ moments = [m \in Moments |-> None]
    /\ samples = [before |-> None, after |-> None, timely |-> FALSE,
                  drained |-> None, reclaimed |-> 0]
    /\ sightings = << >>
    /\ files = [n \in InputNames(kind) |-> NoFile]
    /\ builder = [pc |-> "idle", doc |-> NoFile]
    /\ output = NoFile

Mishap == mishaps < MaxMishaps /\ mishaps' = mishaps + 1

\* The operator does something at the wrong time.
MishapIf(wrong) == IF wrong THEN Mishap ELSE UNCHANGED mishaps

-----------------------------------------------------------------------------
(* What happens to the system under test.                                   *)

Tick ==
    /\ now < MaxTime
    /\ now' = now + 1
    /\ UNCHANGED << kind, system, notes, builder, output, mishaps >>

Arrive ==
    /\ kind = "worker" /\ moments.load # None
    /\ backlog < MaxBacklog
    /\ backlog' = backlog + 1
    /\ UNCHANGED << kind, now, up, health, unsent, broken, notes, builder, output, mishaps >>

\* The worker, or another one of the group, records an entry, whose notification
\* is to be sent; after the restart that is one of those left pending.
Drain ==
    /\ kind = "worker" /\ backlog > 0 /\ unsent < MaxBacklog
    /\ backlog' = backlog - 1 /\ unsent' = unsent + 1
    /\ samples' = IF moments.startDone # None THEN [samples EXCEPT !.reclaimed = 1] ELSE samples
    /\ UNCHANGED << kind, now, up, health, broken, moments, sightings, files >>
    /\ UNCHANGED << builder, output, mishaps >>

\* A notification is sent or given up.
Notify ==
    /\ unsent > 0
    /\ unsent' = unsent - 1
    /\ UNCHANGED << kind, now, up, health, backlog, broken, notes, builder, output, mishaps >>

\* The load balancer finds a target unhealthy when it is down, but also when it
\* is overloaded, and healthy only when it is up.
HealthCheck ==
    /\ kind = "api"
    /\ \/ health = "healthy" /\ health' = "unhealthy"
       \/ health = "unhealthy" /\ up /\ health' = "healthy"
    /\ UNCHANGED << kind, now, up, backlog, unsent, broken, notes, builder, output, mishaps >>

\* One of the things the experiment is to rule out does happen before the
\* recovery.  (After a capture: what goes wrong before the first one shows in all
\* that tell of it, and so it does if it goes wrong right after that of Redis or
\* of the load balancer, which do not.)
Break(x) ==
    /\ moments.recovered = None
    /\ \E n \in Captures : files[n] # NoFile
    /\ \A y \in DOMAIN broken : broken[y] = None
    /\ x = "failed" => kind = "worker"
    /\ broken' = [broken EXCEPT ![x] = now]
    /\ UNCHANGED << kind, now, up, health, backlog, unsent, notes, builder, output, mishaps >>

-----------------------------------------------------------------------------
(* The operator.                                                            *)

Note(m) == moments[m] = None /\ moments' = [moments EXCEPT ![m] = now]

StartLoad ==
    /\ Note("load")
    /\ MishapIf(moments.stopSub # None)
    /\ UNCHANGED << kind, now, system, samples, sightings, files, builder, output >>

Submit(m) ==
    /\ m = "startSub" => moments.stopDone # None
    /\ Note(m)
    /\ UNCHANGED << kind, now, system, samples, sightings, files, builder, output, mishaps >>

Receipt(action, status) ==
    [run |-> "this", target |-> "A", service |-> Service, action |-> action,
     command |-> action, status |-> status,
     submitted |-> moments[IF action = "stop" THEN "stopSub" ELSE "startSub"],
     completed |-> now]

\* The SSM command ends, and its receipt is written; a failed one did nothing.
Complete(action) ==
    LET done == IF action = "stop" THEN "stopDone" ELSE "startDone"
        sub  == IF action = "stop" THEN "stopSub" ELSE "startSub"
        file == IF action = "stop" THEN "stop_receipt" ELSE "start_receipt"
    IN  /\ moments[sub] # None
        /\ Note(done)
        /\ \/ /\ up' = (action = "start")
              /\ files' = [files EXCEPT ![file] = Receipt(action, "Success")]
              /\ UNCHANGED mishaps
           \/ /\ Mishap
              /\ files' = [files EXCEPT ![file] = Receipt(action, "Failed")]
              /\ UNCHANGED up
        /\ UNCHANGED << kind, now, health, backlog, unsent, broken, samples, sightings >>
        /\ UNCHANGED << builder, output >>

\* Recovery is declared, perhaps too early, and with it the timeline is complete.
DeclareRecovered ==
    /\ moments.load # None /\ moments.startDone # None
    /\ Note("recovered")
    /\ MishapIf(IF kind = "worker" THEN samples.drained = None ELSE health # "healthy")
    /\ files' = [files EXCEPT !.timeline = [run |-> "this", moments |-> moments']]
    /\ UNCHANGED << kind, now, system, samples, sightings, builder, output >>

\* A reading of XPENDING, made once; at a wrong time it is a mishap.
Reading(field, wrong) ==
    /\ kind = "worker" /\ moments.load # None /\ samples[field] = None
    /\ MishapIf(wrong)
    /\ UNCHANGED << kind, now, system, moments, sightings, files, builder, output >>

\* What is pending before the stop, ...
SampleBefore ==
    /\ Reading("before", moments.stopSub # None)
    /\ samples' = [samples EXCEPT !.before = backlog]

\* ... and while the worker is down.
SampleAfter ==
    /\ Reading("after", ~Fault)
    /\ samples' = [samples EXCEPT !.after = backlog, !.timely = Fault]

\* The moment at which nothing is left.
SampleDrained ==
    /\ Reading("drained", moments.startDone = None)
    /\ backlog = 0
    /\ samples' = [samples EXCEPT !.drained = now]

Sample == SampleBefore \/ SampleAfter \/ SampleDrained

\* The state of the target is written down when it is seen to have changed.
Sight ==
    /\ kind = "api" /\ Len(sightings) < MaxObservations
    /\ sightings # << >> => sightings[Len(sightings)].state # health
    /\ sightings' = Append(sightings, [state |-> health, at |-> now])
    /\ UNCHANGED << kind, now, system, moments, samples, files, builder, output, mishaps >>

Count(x) == IF broken[x] = None THEN 0 ELSE 1

\* What a snapshot tells of.
Tells(n) == CASE n = "mysql" -> {"over"} [] n = "api" -> {"lost", "over"} [] OTHER -> {"failed"}

\* What each capture shows now; a failed one shows zeros.  The number left in the
\* stream is that of now, or is from the moment of the drain.
Shown(n, ok, left) ==
    LET status == IF ok THEN "PASS" ELSE "FAIL"
    IN  IF n = "redis"
        THEN [run |-> "this", status |-> status, captured |-> now, samples |-> samples,
              left |-> left]
        ELSE IF n = "alb"
        THEN [run |-> "this", status |-> status, captured |-> now,
              target |-> "A", transitions |-> sightings]
        ELSE [run |-> "this", status |-> status, captured |-> now,
              pending |-> IF n = "notification" /\ ok THEN unsent ELSE 0,
              counts |-> [x \in Tells(n) |-> IF ok THEN Count(x) ELSE 0],
              served |-> IF moments.load = None THEN 0 ELSE 1]

\* Each is made once, in any order; only that of Redis may precede the recovery.
\* (None precedes the end of the start command: it would show the same, or be
\* too early in any case.)
Capture(n) ==
    /\ files[n] = NoFile /\ moments.startDone # None
    /\ n = "redis" => \A f \in {"before", "after", "drained"} : samples[f] # None
    /\ LET early == n # "redis" /\ moments.recovered = None
       IN  \/ /\ \E left \in {0, backlog} : files' = [files EXCEPT ![n] = Shown(n, TRUE, left)]
              /\ MishapIf(early)
           \/ ~early /\ files' = [files EXCEPT ![n] = Shown(n, FALSE, 0)] /\ Mishap
    /\ UNCHANGED << kind, now, system, moments, samples, sightings, builder, output >>

Collected == \A n \in DOMAIN files : files[n] # NoFile

\* The builders work offline, on files that have been collected.
ExperimentStep ==
    \/ Tick \/ Arrive \/ Drain \/ Notify \/ HealthCheck
    \/ \E x \in DOMAIN broken : Break(x)
    \/ StartLoad \/ Submit("stopSub") \/ Submit("startSub")
    \/ Complete("stop") \/ Complete("start") \/ DeclareRecovered
    \/ Sample \/ Sight
    \/ \E n \in Captures : Capture(n)

-----------------------------------------------------------------------------
(* What the builders accept.  d is the inputs as read: d.mysql and so on.   *)

\* All inputs are of one run and event.
OneRun(d) == \A n \in DOMAIN d : d[n].run = d.timeline.run

\* A receipt of a command that succeeded.
ReceiptHolds(r) == r.status = "Success" /\ r.submitted <= r.completed

\* A stop and a start of the approved service on one instance.
ReceiptsHold(d) ==
    LET stop == d.stop_receipt
        start == d.start_receipt
    IN  /\ ReceiptHolds(stop) /\ ReceiptHolds(start)
        /\ stop.action = "stop" /\ start.action = "start"
        /\ stop.command # start.command
        /\ stop.service = start.service /\ stop.service = Service
        /\ stop.target = start.target

\* The timeline is in order and is that of the receipts.
TimelineHolds(d) ==
    LET t == d.timeline.moments
    IN  /\ t.load <= t.stopSub /\ t.stopSub <= t.stopDone /\ t.stopDone <= t.startSub
        /\ t.startSub <= t.startDone /\ t.startDone <= t.recovered
        /\ t.stopSub = d.stop_receipt.submitted /\ t.stopDone = d.stop_receipt.completed
        /\ t.startSub = d.start_receipt.submitted /\ t.startDone = d.start_receipt.completed

\* Faulty: a backlog that only did not shrink will do.
RedisHolds_NotGrown(d) ==
    LET s == d.redis.samples
        t == d.timeline.moments
    IN  /\ d.redis.status = "PASS"
        /\ s.after >= s.before
        /\ s.reclaimed # 0 /\ d.redis.left = 0
        /\ s.drained <= d.redis.captured
        /\ t.startDone <= s.drained /\ s.drained <= t.recovered

\* The numbers rose, and fell to nothing, at a time between the worker's restart
\* and the recovery.
RedisHolds(d) ==
    LET s == d.redis.samples
        t == d.timeline.moments
    IN  /\ d.redis.status = "PASS"
        /\ s.after > s.before
        /\ s.reclaimed # 0 /\ d.redis.left = 0
        /\ s.drained <= d.redis.captured
        /\ t.startDone <= s.drained /\ s.drained <= t.recovered

\* A snapshot taken after the recovery, with nothing wrong in it.
SnapshotHolds(snapshot, d) ==
    /\ snapshot.status = "PASS"
    /\ snapshot.captured >= d.timeline.moments.recovered
    /\ \A x \in DOMAIN snapshot.counts : snapshot.counts[x] = 0

RecoveryAccepts(d) ==
    /\ OneRun(d) /\ ReceiptsHold(d) /\ TimelineHolds(d)
    /\ RedisHolds(d)
    /\ SnapshotHolds(d.mysql, d)
    /\ SnapshotHolds(d.api, d) /\ d.api.served # 0
    /\ SnapshotHolds(d.notification, d) /\ d.notification.pending = 0

\* Faulty: it is enough that the target was away at some time.
Covers_Anytime(seq, t) == \E i \in 2..(Len(seq) - 1) : seq[i].state # "healthy"

\* Healthy before the fault, away during it, healthy after it, under load.
Covers(seq, t) ==
    /\ t.load <= seq[1].at /\ seq[Len(seq)].at <= t.recovered
    /\ seq[1].at <= t.stopDone /\ t.startDone <= seq[Len(seq)].at
    /\ \E i \in 2..(Len(seq) - 1) : /\ seq[i].state # "healthy"
                                   /\ t.stopDone <= seq[i].at /\ seq[i].at <= t.startDone

\* The states of the stopped target at the load balancer.
AlbHolds(d) ==
    LET seq == d.alb.transitions
        t == d.timeline.moments
    IN  /\ d.alb.status = "PASS"
        /\ d.alb.target = d.stop_receipt.target
        /\ Len(seq) >= 3
        /\ \A i \in 1..(Len(seq) - 1) : seq[i].at <= seq[i + 1].at
        /\ seq[1].state = "healthy" /\ seq[Len(seq)].state = "healthy"
        /\ Covers(seq, t)
        /\ d.alb.captured > seq[Len(seq)].at /\ d.alb.captured >= t.recovered

ApiFaultAccepts(d) ==
    /\ OneRun(d) /\ ReceiptsHold(d) /\ TimelineHolds(d)
    /\ AlbHolds(d)
    /\ SnapshotHolds(d.api, d) /\ d.api.served # 0
    /\ SnapshotHolds(d.mysql, d)

Accepts(d) == IF kind = "worker" THEN RecoveryAccepts(d) ELSE ApiFaultAccepts(d)

-----------------------------------------------------------------------------
(* The build.                                                               *)

\* Files of another run, instance or service that look as good as can be.
Stray(n) ==
    LET good == [run |-> "that", status |-> "PASS", captured |-> MaxTime]
        t == moments
    IN  CASE n \in {"stop_receipt", "start_receipt"} ->
               LET action == IF n = "stop_receipt" THEN "stop" ELSE "start"
                   r == [Receipt(action, "Success") EXCEPT
                           !.completed = t[IF action = "stop" THEN "stopDone" ELSE "startDone"]]
               IN  { [r EXCEPT !.run = "that"], [r EXCEPT !.target = "B"],
                     [r EXCEPT !.service = "mock-notify"], files["stop_receipt"] }
          [] n = "timeline" -> { [run |-> "that", moments |-> t] }
          [] n = "redis" -> { [run |-> "that", status |-> "PASS", captured |-> MaxTime, left |-> 0,
                               samples |-> [before |-> 0, after |-> 1, timely |-> TRUE,
                                            drained |-> t.startDone, reclaimed |-> 1]] }
          [] n = "alb" ->
               LET seen3 == << [state |-> "healthy", at |-> t.stopDone],
                               [state |-> "unhealthy", at |-> t.stopDone],
                               [state |-> "healthy", at |-> t.startDone] >>
                   alb(r, target) == [run |-> r, status |-> "PASS", captured |-> MaxTime,
                                      target |-> target, transitions |-> seen3]
               IN  { alb("this", "B"), alb("that", "A") }
          [] OTHER -> { [run |-> "that", status |-> "PASS", captured |-> MaxTime, pending |-> 0,
                         counts |-> [x \in Tells(n) |-> 0], served |-> 1] }

\* Every input is read once, and what was read is what is validated.
Read(doc) ==
    /\ builder.pc = "idle"
    /\ builder' = IF Accepts(doc) THEN [pc |-> "check", doc |-> doc] ELSE builder
    /\ UNCHANGED << kind, now, system, notes, output >>

ReadAll == Collected /\ Read(files) /\ UNCHANGED mishaps

ReadStray(n) ==
    /\ Collected
    /\ \E f \in Stray(n) : Read([files EXCEPT ![n] = f])
    /\ Mishap

Idle == builder' = [pc |-> "idle", doc |-> NoFile]

\* The output must not exist.
CheckOutput ==
    /\ builder.pc = "check"
    /\ IF output = NoFile THEN builder' = [builder EXCEPT !.pc = "link"] ELSE Idle
    /\ UNCHANGED << kind, now, system, notes, output, mishaps >>

\* Faulty: the finished file is moved over what is there.
Link_Replaces ==
    /\ builder.pc = "link"
    /\ output' = builder.doc
    /\ Idle
    /\ UNCHANGED << kind, now, system, notes, mishaps >>

\* The finished temporary file is linked to the output, which fails if that
\* exists by then; the temporary file goes in either case.
Link ==
    /\ builder.pc = "link"
    /\ output' = IF output = NoFile THEN builder.doc ELSE output
    /\ Idle
    /\ UNCHANGED << kind, now, system, notes, mishaps >>

\* Another build finishes at the same path; this one is killed.
ForeignAppears ==
    /\ Collected
    /\ output = NoFile
    /\ output' = Foreign
    /\ UNCHANGED << kind, now, system, notes, builder, mishaps >>

BuilderKilled ==
    /\ builder.pc # "idle"
    /\ Mishap
    /\ Idle
    /\ UNCHANGED << kind, now, system, notes, output >>

EvidenceNext ==
    /\ \/ ~Collected /\ ExperimentStep
       \/ ReadAll \/ \E n \in InputNames(kind) : ReadStray(n)
       \/ CheckOutput \/ Link \/ ForeignAppears \/ BuilderKilled
    /\ seen' = seen \union Facts'

EvidenceSpec == EvidenceInit /\ [][EvidenceNext]_evidenceVars

-----------------------------------------------------------------------------
(* Properties.                                                              *)

Published == output # NoFile /\ output # Foreign

Known(fact, from, to) == \E t \in from..to : <<fact, t>> \in seen

\* Nothing of the kind had happened when the tick of the recovery began.
NotBroken(x) ==
    broken[x] = None \/ broken[x] >= output.timeline.moments.recovered

\* A published recovery manifest is true as far as its times reach, whatever order
\* things were done in and whatever was handed in: the worker was down while the
\* load ran; at some time between its restart and the recovery nothing was left
\* to record, and at some time from the recovery on no notification to send; and
\* until the recovery nothing was issued twice or too often, no request lost and
\* no notification given up.  That entries piled up during the fault it shows
\* only if the second number is of that time, and it shows nothing of entries
\* that came after the moment of the drain.
RecoveryIsTrue ==
    kind = "worker" /\ Published =>
        LET t == output.timeline.moments
        IN  /\ Known("down", t.stopDone, t.startSub) /\ t.load <= t.stopDone
            /\ output.redis.samples.timely => Known("backlog", t.stopDone, t.startSub)
            /\ Known("drained", t.startDone, t.recovered)
            /\ Known("settled", t.recovered, MaxTime)
            /\ NotBroken("over") /\ NotBroken("lost") /\ NotBroken("failed")

\* A published API fault manifest is true: under load the stopped instance was
\* healthy before, away from the load balancer during the fault and healthy
\* again before the recovery, and until then nothing was issued twice or too
\* often and no more requests were lost than allowed.
ApiFaultIsTrue ==
    kind = "api" /\ Published =>
        LET t == output.timeline.moments
        IN  /\ Known("down", t.stopDone, t.startSub)
            /\ Known("healthy", t.load, t.stopDone)
            /\ Known("unhealthy", t.stopDone, t.startDone)
            /\ Known("healthy", t.startDone, t.recovered)
            /\ NotBroken("over") /\ NotBroken("lost")

\* The output path goes from nothing to one complete manifest and is never
\* written again, although its existence is checked long before it is made.
OutputKept == [][output' # output => output = NoFile]_evidenceVars

=============================================================================
