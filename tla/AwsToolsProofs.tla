---------------------------- MODULE AwsToolsProofs -----------------------------
(***************************************************************************)
(* The tools of an AWS load test, each proved by itself.                   *)
(*                                                                          *)
(* The evidence builders, for any number of ticks, entries, observations   *)
(* and mishaps.  What makes a manifest true is that each file, once         *)
(* written, says something of the truth (FilesOK, over Past), that a file  *)
(* from elsewhere is refused (StrayRefused), and that nothing but accepted *)
(* inputs reaches the output (Built).                                       *)
(*                                                                          *)
(* The packager, for any number of processes, sources, edits and damages:  *)
(* what a process has in its hands has passed the checks it is past         *)
(* (PackagerOK).                                                            *)
(*                                                                          *)
(* The aggregation, for any number of generators, users, executions and    *)
(* slips.  What makes a report true is that the files loaded from a bundle *)
(* are of the one execution its manifest is of (LoadedIsListed), and that  *)
(* the users of executions that fit together add up (OneMoreCounts).        *)
(***************************************************************************)
EXTENDS FaultEvidence, PackageLoadgen, K6Aggregate, FiniteSetTheorems, TLAPS

-----------------------------------------------------------------------------
(* build-recovery-evidence.py and build-api-fault-evidence.py.              *)

Broken == {"over", "lost", "failed"}

Typed ==
    /\ kind \in {"worker", "api"} /\ now \in Time /\ backlog \in Nat /\ unsent \in Nat
    /\ health \in {"healthy", "unhealthy"}
    /\ broken \in [Broken -> Time \union {None}]
    /\ moments \in [Moments -> Time \union {None}]
    /\ samples \in [before : Nat \union {None}, after : Nat \union {None}, timely : BOOLEAN,
                    drained : Time \union {None}, reclaimed : {0, 1}]
    /\ sightings \in Seq([state : {"healthy", "unhealthy"}, at : Time])
    /\ DOMAIN files = InputNames(kind) /\ files = [n \in InputNames(kind) |-> files[n]]

\* What the notes say of the past.
Past ==
    /\ moments.stopDone # None => moments.stopSub # None
    /\ moments.startSub # None => moments.stopDone # None
    /\ moments.startDone # None => moments.startSub # None
    /\ samples.timely /\ samples.after > 0 =>
          \E t \in Time : /\ <<"backlog", t>> \in seen
                          /\ moments.stopDone # None /\ moments.stopDone <= t /\ t <= now
                          /\ moments.startSub # None => t <= moments.startSub
    /\ samples.drained # None => <<"drained", samples.drained>> \in seen
    /\ \A m \in Moments : moments[m] <= now
    /\ kind = "api" => \A i \in 1..Len(sightings) : <<sightings[i].state, sightings[i].at>> \in seen

\* A receipt of the experiment.
ReceiptOK(r, action, submitted, completed) ==
    /\ r.run = "this" /\ r.target = "A" /\ r.service = Service /\ r.action = action
    /\ r.submitted = submitted /\ r.completed = completed

\* A snapshot tells of what had gone wrong by then.
SnapshotOK(n, f) ==
    /\ f.run = "this" /\ f.captured \in Time /\ f.captured <= now
    /\ DOMAIN f.counts = Tells(n)
    /\ f.status = "PASS" =>
          /\ \A x \in Tells(n) : f.counts[x] = 0 => broken[x] = None \/ broken[x] >= f.captured
          /\ n = "notification" /\ f.pending = 0 => <<"settled", f.captured>> \in seen

RedisOK(f) ==
    /\ f.run = "this"
    /\ \A x \in {"before", "after", "drained"} : samples[x] # None /\ f.samples[x] = samples[x]
    /\ f.samples.timely = samples.timely

AlbOK(f) ==
    /\ f.run = "this" /\ f.target = "A"
    /\ f.transitions \in Seq([state : {"healthy", "unhealthy"}, at : Time])
    /\ \A i \in 1..Len(f.transitions) : <<f.transitions[i].state, f.transitions[i].at>> \in seen

Timeline == [run |-> "this", moments |-> moments]

\* What each file says, once it is there.
FileOK(n, f) ==
    /\ n = "timeline" => f = Timeline /\ \A m \in Moments : moments[m] # None
    /\ n = "stop_receipt" =>
          /\ moments.stopDone # None
          /\ ReceiptOK(f, "stop", moments.stopSub, moments.stopDone)
          /\ f.status = "Success" => <<"down", moments.stopDone>> \in seen
    /\ n = "start_receipt" =>
          /\ moments.startDone # None
          /\ ReceiptOK(f, "start", moments.startSub, moments.startDone)
    /\ n \in {"mysql", "api", "notification"} => SnapshotOK(n, f)
    /\ n = "redis" => RedisOK(f)
    /\ n = "alb" => AlbOK(f)

FilesOK == \A n \in InputNames(kind) : files[n] # NoFile => FileOK(n, files[n])

Accepted(doc) == Collected /\ doc = files /\ Accepts(files)

Built ==
    /\ builder.pc # "idle" => Accepted(builder.doc)
    /\ output = NoFile \/ output = Foreign \/ Accepted(output)

EvidenceInv == Typed /\ Past /\ FilesOK /\ Built

-----------------------------------------------------------------------------
\* A file of another run, instance or service is refused with the others: what
\* is accepted are the files of the experiment.
LEMMA StrayRefused ==
  ASSUME Typed, FilesOK, Collected, NEW n \in InputNames(kind), NEW f \in Stray(n),
         Accepts([files EXCEPT ![n] = f])
  PROVE  [files EXCEPT ![n] = f] = files
<1> DEFINE d == [files EXCEPT ![n] = f]
<1>names. /\ {"stop_receipt", "start_receipt", "timeline", "mysql", "api"}
              \subseteq InputNames(kind)
          /\ kind = "worker" => InputNames(kind) = {"stop_receipt", "start_receipt", "timeline",
                                       "mysql", "api", "redis", "notification"}
          /\ kind = "api" => InputNames(kind) = {"stop_receipt", "start_receipt", "timeline",
                                    "mysql", "api", "alb"}
  BY DEF InputNames, Typed
<1>d. d[n] = f /\ DOMAIN d = InputNames(kind) /\ \A m \in InputNames(kind) \ {n} : d[m] = files[m]
  BY DEF Typed
<1>one. \A m \in InputNames(kind) : d[m].run = d["timeline"].run
  BY <1>d DEF Accepts, RecoveryAccepts, ApiFaultAccepts, OneRun
<1>rec. /\ d["stop_receipt"].target = d["start_receipt"].target
        /\ d["stop_receipt"].service = d["start_receipt"].service
        /\ d["stop_receipt"].action = "stop" /\ d["start_receipt"].action = "start"
  BY DEF Accepts, RecoveryAccepts, ApiFaultAccepts, ReceiptsHold
<1>this. /\ files["timeline"].run = "this" /\ files["mysql"].run = "this"
         /\ files["stop_receipt"].target = "A" /\ files["start_receipt"].target = "A"
         /\ files["stop_receipt"].service = Service /\ files["start_receipt"].service = Service
         /\ files["stop_receipt"].action = "stop"
  <2>1. /\ FileOK("timeline", files["timeline"]) /\ FileOK("mysql", files["mysql"])
        /\ FileOK("stop_receipt", files["stop_receipt"])
        /\ FileOK("start_receipt", files["start_receipt"])
    BY <1>names DEF Collected, Typed, FilesOK
  <2> QED
    BY <2>1 DEF FileOK, ReceiptOK, SnapshotOK, Timeline
<1> HIDE DEF d
<1>that. f.run # "that"
  BY <1>names, <1>d, <1>one, <1>this
<1>1. CASE n = "stop_receipt" \/ n = "start_receipt"
  <2>1. f = files["stop_receipt"] \/ f.run = "that" \/ f.target = "B" \/ f.service = "mock-notify"
    BY <1>1 DEF Stray, Receipt
  <2>2. f = files["stop_receipt"] \/ f.target = "B" \/ f.service = "mock-notify"
    BY <2>1, <1>that
  <2>3. "mock-notify" # Service
    BY DEF Service
  <2>4. f = files["stop_receipt"]
    BY <1>names, <1>1, <2>2, <2>3, <1>d, <1>rec, <1>this
  <2>5. n = "stop_receipt"
    BY <1>1, <2>4, <1>d, <1>rec, <1>this, <1>names
  <2> QED
    BY <2>4, <2>5 DEF Typed
<1>2. CASE n = "timeline" \/ n = "redis"
  BY <1>2, <1>that DEF Stray
<1>3. CASE n = "alb"
  <2>1. f.run = "that" \/ f.target = "B"
    BY <1>3 DEF Stray
  <2>2. kind = "api"
    BY <1>3 DEF InputNames, Typed
  <2>3. d["alb"].target = d["stop_receipt"].target
    BY <2>2 DEF Accepts, ApiFaultAccepts, AlbHolds, d
  <2> QED
    BY <2>1, <2>3, <1>3, <1>that, <1>d, <1>this, <1>names
<1>4. CASE n = "mysql" \/ n = "api" \/ n = "notification"
  BY <1>4, <1>that DEF Stray
<1> QED
  BY <1>1, <1>2, <1>3, <1>4, <1>names DEF Typed

-----------------------------------------------------------------------------
(* What has been written down stays true.                                  *)

\* Time goes on, and nothing that has been noted is changed.
Onward ==
    /\ kind' = kind /\ now <= now' /\ seen \subseteq seen'
    /\ \A m \in Moments : moments[m] # None => moments'[m] = moments[m]
    /\ \A x \in {"before", "after", "drained"} : samples[x] # None => samples'[x] = samples[x]
    /\ samples.after # None => samples'.timely = samples.timely
    /\ \A x \in Broken : broken'[x] = broken[x] \/ (broken[x] = None /\ broken'[x] = now)

\* So does a file.
LEMMA FileStays ==
  ASSUME Typed, Past, Typed', Onward, NEW n, NEW f, FileOK(n, f)
  PROVE  FileOK(n, f)'
<1>mom. {"stopSub", "stopDone", "startSub", "startDone"} \subseteq Moments
  BY DEF Moments
<1>tim. Time \subseteq Int /\ now \in Time /\ now' \in Time
  BY EvidenceAssumption DEF Time, Typed
<1>1. CASE n = "timeline"
  <2>1. moments' = moments
    BY <1>1 DEF FileOK, Typed, Onward
  <2> QED
    BY <1>1, <2>1 DEF FileOK, Timeline
<1>2. CASE n = "stop_receipt"
  <2>1. moments'.stopDone = moments.stopDone /\ moments'.stopSub = moments.stopSub
    BY <1>2, <1>mom DEF FileOK, Onward, Past
  <2> QED
    BY <1>2, <2>1 DEF FileOK, Onward, ReceiptOK, Service
<1>3. CASE n = "start_receipt"
  <2>1. moments'.startDone = moments.startDone /\ moments'.startSub = moments.startSub
    BY <1>3, <1>mom DEF FileOK, Onward, Past
  <2> QED
    BY <1>3, <2>1 DEF FileOK, Onward, ReceiptOK, Service
<1>4. CASE n \in {"mysql", "api", "notification"}
  <2>1. f.run = "this" /\ f.captured \in Time /\ f.captured <= now'
    <3>1. f.run = "this" /\ f.captured \in Time /\ f.captured <= now /\ now <= now'
      BY <1>4 DEF FileOK, SnapshotOK, Onward
    <3>2. \A c, s, t \in Int : c <= s /\ s <= t => c <= t
      OBVIOUS
    <3>3. f.captured \in Int /\ now \in Int /\ now' \in Int
      BY <3>1, <1>tim
    <3> QED
      BY <3>1, <3>2, <3>3
  <2>2. ASSUME f.status = "PASS", NEW x \in Tells(n), f.counts[x] = 0
        PROVE  broken'[x] = None \/ broken'[x] >= f.captured
    BY <1>4, <1>tim, <2>1, <2>2 DEF FileOK, SnapshotOK, Onward, Typed, Tells, Broken
  <2> QED
    BY <1>4, <2>1, <2>2 DEF FileOK, SnapshotOK, Onward
<1>5. CASE n = "redis"
  BY <1>5 DEF FileOK, RedisOK, Onward
<1>6. CASE n = "alb"
  BY <1>6 DEF FileOK, AlbOK, Onward
<1>7. CASE n \notin {"timeline", "stop_receipt", "start_receipt", "mysql", "api",
                        "notification", "redis", "alb"}
  BY <1>7 DEF FileOK
<1> QED
  BY <1>1, <1>2, <1>3, <1>4, <1>5, <1>6, <1>7

\* No file is written.
LEMMA FilesStay ==
  ASSUME Typed, Past, FilesOK, Typed', Onward, files' = files
  PROVE  FilesOK'
<1> SUFFICES ASSUME NEW n \in InputNames(kind), files[n] # NoFile PROVE FileOK(n, files[n])'
  BY DEF FilesOK, Onward, InputNames
<1>1. PICK f0 : f0 = files[n]
  OBVIOUS
<1>2. FileOK(n, f0) /\ files'[n] = f0
  BY <1>1 DEF FilesOK, Typed
<1>3. FileOK(n, f0)'
  BY <1>2, FileStays
<1> QED
  BY <1>2, <1>3 DEF FileOK, SnapshotOK, RedisOK, AlbOK, ReceiptOK

\* One file is written.
LEMMA FileWritten ==
  ASSUME Typed, Past, FilesOK, Typed', Onward, NEW n \in InputNames(kind), NEW f,
         files' = [files EXCEPT ![n] = f], FileOK(n, files[n])'
  PROVE  FilesOK'
<1> SUFFICES ASSUME NEW m \in InputNames(kind) \ {n}, files[m] # NoFile
             PROVE  FileOK(m, files[m])'
  BY DEF FilesOK, Onward, InputNames, Typed
<1>1. PICK f0 : f0 = files[m]
  OBVIOUS
<1>2. FileOK(m, f0) /\ files'[m] = f0
  BY <1>1 DEF FilesOK, Typed
<1>3. FileOK(m, f0)'
  BY <1>2, FileStays
<1> QED
  BY <1>2, <1>3 DEF FileOK, SnapshotOK, RedisOK, AlbOK, ReceiptOK

-----------------------------------------------------------------------------
(* The steps of the experiment.                                             *)

\* What is the case after a step is noticed.
LEMMA Noticed ==
  ASSUME seen' = seen \union Facts'
  PROVE  /\ Fault' /\ ~up' => <<"down", now'>> \in seen'
         /\ kind' = "api" => <<health', now'>> \in seen'
         /\ kind' = "worker" =>
               /\ Fault' /\ backlog' # 0 => <<"backlog", now'>> \in seen'
               /\ backlog' = 0 => <<"drained", now'>> \in seen'
               /\ unsent' = 0 => <<"settled", now'>> \in seen'
  BY DEF Facts

\* Every step of the experiment keeps the types.
LEMMA TypedStep == Typed /\ ExperimentStep => Typed'
<1> SUFFICES ASSUME Typed, ExperimentStep PROVE Typed'
  OBVIOUS
<1>tim. now \in Time /\ Time \subseteq Int
  BY DEF Typed, Time
<1>mom. \A m \in Moments : Note(m) => moments' \in [Moments -> Time \union {None}]
  BY <1>tim DEF Note, Typed
<1>mem. {"load", "stopSub", "stopDone", "startSub", "startDone", "recovered"} = Moments
  BY DEF Moments
<1>1. ASSUME Tick PROVE Typed'
  BY <1>1, EvidenceAssumption DEF Tick, Typed, Time, system, notes
<1>2. ASSUME Arrive \/ Drain \/ Notify \/ HealthCheck PROVE Typed'
  BY <1>2 DEF Arrive, Drain, Notify, HealthCheck, Typed, notes
<1>3. ASSUME NEW x \in Broken, Break(x) PROVE Typed'
  BY <1>3, <1>tim DEF Break, Typed, notes
<1>4. ASSUME StartLoad \/ Submit("stopSub") \/ Submit("startSub") PROVE Typed'
  BY <1>4, <1>mom, <1>mem DEF StartLoad, Submit, Typed, system
<1>5. ASSUME NEW n, NEW f, files' = [files EXCEPT ![n] = f] PROVE
             /\ DOMAIN files' = InputNames(kind)
             /\ files' = [m \in InputNames(kind) |-> files'[m]]
  BY <1>5 DEF Typed
<1>6. ASSUME Complete("stop") \/ Complete("start") PROVE Typed'
  <2>1. moments' \in [Moments -> Time \union {None}]
    BY <1>6, <1>mom, <1>mem DEF Complete
  <2>2. \E n, f : files' = [files EXCEPT ![n] = f]
    BY <1>6 DEF Complete
  <2>3. UNCHANGED << kind, now, health, backlog, unsent, broken, samples, sightings >>
    BY <1>6 DEF Complete
  <2> QED
    BY <2>1, <2>2, <2>3, <1>5 DEF Typed, InputNames
<1>7. ASSUME DeclareRecovered PROVE Typed'
  <2>1. moments' \in [Moments -> Time \union {None}]
    BY <1>7, <1>mom, <1>mem DEF DeclareRecovered
  <2>2. \E n, f : files' = [files EXCEPT ![n] = f]
    BY <1>7 DEF DeclareRecovered
  <2> QED
    BY <1>7, <2>1, <2>2, <1>5 DEF DeclareRecovered, Typed, InputNames, system
<1>8. ASSUME Sample PROVE Typed'
  <2>1. \/ samples' = [samples EXCEPT !.before = backlog]
        \/ samples' = [samples EXCEPT !.after = backlog, !.timely = Fault]
        \/ samples' = [samples EXCEPT !.drained = now]
    BY <1>8 DEF Sample, SampleBefore, SampleAfter, SampleDrained
  <2>2. samples' \in [before : Nat \union {None}, after : Nat \union {None}, timely : BOOLEAN,
                      drained : Time \union {None}, reclaimed : {0, 1}]
    BY <2>1, <1>tim DEF Typed, Fault
  <2>3. UNCHANGED << kind, now, system, moments, sightings, files >>
    BY <1>8 DEF Sample, SampleBefore, SampleAfter, SampleDrained, Reading
  <2> QED
    BY <2>2, <2>3 DEF Typed, system
<1>9. ASSUME Sight PROVE Typed'
  <2>1. sightings' \in Seq([state : {"healthy", "unhealthy"}, at : Time])
    BY <1>9, <1>tim DEF Sight, Typed
  <2> QED
    BY <1>9, <2>1 DEF Sight, Typed, system
<1>10. ASSUME NEW i \in Captures, Capture(i) PROVE Typed'
  <2>1. \E n, f : files' = [files EXCEPT ![n] = f]
    BY <1>10 DEF Capture
  <2>2. UNCHANGED << kind, now, system, moments, samples, sightings >>
    BY <1>10 DEF Capture
  <2> QED
    BY <2>1, <2>2, <1>5 DEF Typed, InputNames, system
<1>11. DOMAIN broken = Broken 
  BY DEF Typed
<1> QED
  BY <1>1, <1>2, <1>3, <1>4, <1>6, <1>7, <1>8, <1>9, <1>10, <1>11 DEF ExperimentStep

\* Every step of the experiment moves it onward and forgets nothing.
LEMMA OnwardStep == Typed /\ ExperimentStep /\ seen' = seen \union Facts' => Onward
<1> SUFFICES ASSUME Typed, ExperimentStep, seen' = seen \union Facts' PROVE Onward
  OBVIOUS
<1>1. kind' = kind /\ now <= now' /\ seen \subseteq seen'
  <2>1. now \in Int
    BY DEF Typed, Time
  <2>2. kind' = kind /\ (now' = now \/ now' = now + 1)
    BY DEF ExperimentStep, Tick, Arrive, Drain, Notify, HealthCheck, Break, StartLoad, Submit,
     Complete, DeclareRecovered, Sample, SampleBefore,
     SampleAfter, SampleDrained, Reading, Sight, Capture
  <2> QED
    BY <2>1, <2>2
<1>2. \A m \in Moments : moments[m] # None => moments'[m] = moments[m]
  <2>1. moments' = moments \/ \E m \in Moments : Note(m)
    BY DEF ExperimentStep, Tick, Arrive, Drain, Notify, HealthCheck, Break, StartLoad, Submit,
     Complete, DeclareRecovered, Sample, SampleBefore,
     SampleAfter, SampleDrained, Reading, Sight, Capture, Moments, notes
  <2> QED
    BY <2>1 DEF Note, Typed
<1>3. /\ \A x \in {"before", "after", "drained"} : samples[x] # None => samples'[x] = samples[x]
      /\ samples.after # None => samples'.timely = samples.timely
  <2>1. \/ samples' = samples
        \/ samples' = [samples EXCEPT !.reclaimed = 1]
        \/ samples.before = None /\ samples' = [samples EXCEPT !.before = backlog]
        \/ samples.after = None /\ samples' = [samples EXCEPT !.after = backlog, !.timely = Fault]
        \/ samples.drained = None /\ samples' = [samples EXCEPT !.drained = now]
    BY DEF ExperimentStep, Tick, Arrive, Drain, Notify, HealthCheck, Break, StartLoad, Submit,
     Complete, DeclareRecovered, Sample, SampleBefore,
     SampleAfter, SampleDrained, Reading, Sight, Capture, notes
  <2> QED
    BY <2>1 DEF Typed
<1>4. \A x \in Broken : broken'[x] = broken[x] \/ (broken[x] = None /\ broken'[x] = now)
  <2>1. \/ broken' = broken
        \/ \E x \in DOMAIN broken : broken[x] = None /\ broken' = [broken EXCEPT ![x] = now]
    BY DEF ExperimentStep, Tick, Arrive, Drain, Notify, HealthCheck, Break, StartLoad, Submit,
     Complete, DeclareRecovered, Sample, SampleBefore,
     SampleAfter, SampleDrained, Reading, Sight, Capture, system
  <2> QED
    BY <2>1 DEF Typed
<1> QED
  BY <1>1, <1>2, <1>3, <1>4 DEF Onward

\* What has been noted of the past remains true of it.
LEMMA PastStep ==
  ASSUME Typed, Past, Typed', Onward, ExperimentStep, seen' = seen \union Facts'
  PROVE  Past'
<1>tim. Time \subseteq Int /\ now \in Time /\ now' \in Time /\ None \notin Time
  BY DEF Typed, Time, None
<1>mom. /\ \A m \in Moments : moments[m] \in Int /\ (moments'[m] = moments[m] \/ Note(m))
        /\ Moments = {"load", "stopSub", "stopDone", "startSub", "startDone", "recovered"}
  <2>1. moments' = moments \/ \E m \in Moments : Note(m)
    BY DEF ExperimentStep, Tick, Arrive, Drain, Notify, HealthCheck, Break, StartLoad, Submit,
     Complete, DeclareRecovered, Sample, SampleBefore,
     SampleAfter, SampleDrained, Reading, Sight, Capture, Moments, notes
  <2>2. \A m \in Moments : moments[m] \in Int
    BY <1>tim DEF Typed, None
  <2>3. ASSUME NEW m \in Moments PROVE moments'[m] = moments[m] \/ Note(m)
    <3>1. CASE moments' = moments
      BY <3>1
    <3>2. CASE \E k \in Moments : Note(k)
      BY <3>2 DEF Note, Typed
    <3> QED
      BY <2>1, <3>1, <3>2
  <2> QED
    BY <2>2, <2>3 DEF Moments
<1>1. \A m \in Moments : moments'[m] <= now'
  <2>1. \A m \in Moments : moments'[m] = moments[m] \/ moments'[m] = now
    BY <1>mom DEF Note, Typed
  <2>2. now \in Int /\ now' \in Int /\ now <= now'
    BY <1>tim DEF Onward
  <2> QED
    BY <2>1, <2>2, <1>mom DEF Past
<1>2. /\ moments'.stopDone # None => moments'.stopSub # None
      /\ moments'.startSub # None => moments'.stopDone # None
      /\ moments'.startDone # None => moments'.startSub # None
  <2>1. \/ moments' = moments
        \/ Note("load") \/ Note("stopSub") \/ Note("recovered")
        \/ Note("stopDone") /\ moments.stopSub # None
        \/ Note("startSub") /\ moments.stopDone # None
        \/ Note("startDone") /\ moments.startSub # None
    BY DEF ExperimentStep, Tick, Arrive, Drain, Notify, HealthCheck, Break, StartLoad, Submit,
     Complete, DeclareRecovered, Sample, SampleBefore,
     SampleAfter, SampleDrained, Reading, Sight, Capture, notes
  <2>2. now # None
    BY <1>tim
  <2> QED
    BY <2>1, <2>2, <1>mom DEF Note, Past, Typed
<1>sam. \/ \A f \in {"before", "after", "drained", "timely"} : samples'[f] = samples[f]
        \/ /\ SampleBefore /\ samples'.after = samples.after
           /\ samples'.timely = samples.timely /\ samples'.drained = samples.drained
        \/ /\ SampleAfter /\ samples'.after = backlog
           /\ samples'.timely = Fault /\ samples'.drained = samples.drained
        \/ /\ SampleDrained /\ samples'.after = samples.after
           /\ samples'.timely = samples.timely /\ samples'.drained = now
  <2>1. \/ samples' = samples
        \/ samples' = [samples EXCEPT !.reclaimed = 1]
        \/ SampleBefore /\ samples' = [samples EXCEPT !.before = backlog]
        \/ SampleAfter /\ samples' = [samples EXCEPT !.after = backlog, !.timely = Fault]
        \/ SampleDrained /\ samples' = [samples EXCEPT !.drained = now]
    BY DEF ExperimentStep, Tick, Arrive, Drain, Notify, HealthCheck, Break, StartLoad, Submit,
     Complete, DeclareRecovered, Sample, SampleBefore,
     SampleAfter, SampleDrained, Reading, Sight, Capture, notes
  <2> QED
    BY <2>1 DEF Typed
<1>same. Sample => UNCHANGED << kind, now, backlog, moments >>
  BY DEF Sample, SampleBefore, SampleAfter, SampleDrained, Reading, system
<1>3. samples'.timely /\ samples'.after > 0 =>
        \E t \in Time : /\ <<"backlog", t>> \in seen'
                        /\ moments'.stopDone # None /\ moments'.stopDone <= t /\ t <= now'
                        /\ moments'.startSub # None => t <= moments'.startSub
  <2> SUFFICES ASSUME samples'.timely, samples'.after > 0
               PROVE  \E t \in Time :
                        /\ <<"backlog", t>> \in seen'
                        /\ moments'.stopDone # None /\ moments'.stopDone <= t /\ t <= now'
                        /\ moments'.startSub # None => t <= moments'.startSub
    OBVIOUS
  <2>1. CASE samples'.after = samples.after /\ samples'.timely = samples.timely
    <3>1. PICK t \in Time : /\ <<"backlog", t>> \in seen
                            /\ moments.stopDone # None /\ moments.stopDone <= t /\ t <= now
                            /\ moments.startSub # None => t <= moments.startSub
      BY <2>1 DEF Past
    <3>2. moments'.stopDone = moments.stopDone
      BY <3>1, <1>mom DEF Onward
    <3>3. moments'.startSub = moments.startSub \/ moments'.startSub = now
      BY <1>mom DEF Note, Typed
    <3>4. t \in Int /\ now \in Int /\ now' \in Int /\ now <= now'
      BY <1>tim DEF Onward
    <3> QED
      BY <3>1, <3>2, <3>3, <3>4 DEF Onward
  <2>2. CASE SampleAfter /\ samples'.after = backlog /\ samples'.timely = Fault
    <3>1. /\ Fault /\ moments.stopDone # None /\ moments.startSub = None /\ kind = "worker"
          /\ UNCHANGED << kind, now, backlog, moments >>
      BY <2>2 DEF SampleAfter, Reading, system, Fault
    <3>2. <<"backlog", now'>> \in seen'
      <4>1. Fault' /\ backlog' # 0 /\ kind' = "worker"
        BY <2>2, <3>1 DEF Fault
      <4> QED
        BY <4>1, Noticed
    <3>3. moments.stopDone <= now
      BY <1>mom DEF Past
    <3> QED
      BY <3>1, <3>2, <3>3, <1>tim
  <2> QED
    BY <2>1, <2>2, <1>sam
<1>4. samples'.drained # None => <<"drained", samples'.drained>> \in seen'
  <2>1. CASE samples'.drained = samples.drained
    BY <2>1 DEF Past, Onward
  <2>2. CASE SampleDrained /\ samples'.drained = now
    <3>1. /\ backlog = 0 /\ kind = "worker"
          /\ UNCHANGED << kind, now, backlog, moments >>
      BY <2>2 DEF SampleDrained, Reading, system
    <3> QED
      BY <2>2, <3>1, Noticed
  <2> QED
    BY <2>1, <2>2, <1>sam
<1>5. kind' = "api" =>
        \A i \in 1..Len(sightings') : <<sightings'[i].state, sightings'[i].at>> \in seen'
  <2>1. sightings' = sightings \/ Sight
    BY DEF ExperimentStep, Tick, Arrive, Drain, Notify, HealthCheck, Break, StartLoad, Submit,
     Complete, DeclareRecovered, Sample, SampleBefore, SampleAfter,
     SampleDrained, Reading, Capture, notes
  <2>2. CASE sightings' = sightings
    BY <2>2 DEF Past, Onward
  <2>3. CASE Sight
    <3>1. /\ sightings' = Append(sightings, [state |-> health, at |-> now])
          /\ kind' = "api" /\ kind = "api" /\ health' = health /\ now' = now
      BY <2>3 DEF Sight, system
    <3>2. <<health, now>> \in seen'
      BY <3>1, Noticed
    <3>3. sightings \in Seq([state : {"healthy", "unhealthy"}, at : Time])
      BY DEF Typed
    <3>4. ASSUME NEW i \in 1..Len(sightings')
          PROVE  <<sightings'[i].state, sightings'[i].at>> \in seen'
      <4>1. CASE i \in 1..Len(sightings)
        <5>1. sightings'[i] = sightings[i]
          BY <3>1, <3>3, <4>1
        <5>2. <<sightings[i].state, sightings[i].at>> \in seen
          BY <4>1, <3>1 DEF Past
        <5>3. <<sightings'[i].state, sightings'[i].at>> = <<sightings[i].state, sightings[i].at>>
          BY <5>1
        <5> QED
          BY <5>2, <5>3 DEF Onward
      <4>2. CASE i = Len(sightings) + 1
        <5>1. sightings'[i] = [state |-> health, at |-> now]
          BY <3>1, <3>3, <4>2
        <5>2. sightings'[i].state = health /\ sightings'[i].at = now
          BY <5>1
        <5>3. <<sightings'[i].state, sightings'[i].at>> = <<health, now>>
          BY <5>2
        <5> QED
          BY <5>3, <3>2
      <4>3. Len(sightings') = Len(sightings) + 1 /\ Len(sightings) \in Nat
        BY <3>1, <3>3
      <4>4. i \in 1..Len(sightings) \/ i = Len(sightings) + 1
        BY <4>3
      <4> QED
        BY <4>1, <4>2, <4>4
    <3> QED
      BY <3>4
  <2> QED
    BY <2>1, <2>2, <2>3
<1> QED
  BY <1>1, <1>2, <1>3, <1>4, <1>5 DEF Past

\* What is written into a file is true of the past.
LEMMA FilesStep ==
  ASSUME Typed, Past, FilesOK, Typed', Onward, ExperimentStep, seen' = seen \union Facts'
  PROVE  FilesOK'
<1>tim. Time \subseteq Int /\ now \in Time /\ None \notin Time
  BY DEF Typed, Time, None
<1>mem. {"load", "stopSub", "stopDone", "startSub", "startDone", "recovered"} = Moments
  BY DEF Moments
<1>names. /\ {"stop_receipt", "start_receipt", "timeline", "mysql", "api"}
              \subseteq InputNames(kind)
          /\ kind = "worker" => InputNames(kind) = {"stop_receipt", "start_receipt", "timeline",
                                       "mysql", "api", "redis", "notification"}
          /\ kind = "api" => InputNames(kind) = {"stop_receipt", "start_receipt", "timeline",
                                    "mysql", "api", "alb"}
  BY DEF InputNames, Typed
<1>1. CASE files' = files
  BY <1>1, FilesStay
<1>2. CASE Complete("stop")
  <2>1. PICK status \in {"Success", "Failed"} :
           /\ files' = [files EXCEPT !["stop_receipt"] = Receipt("stop", status)]
           /\ status = "Success" => up' = FALSE
    BY <1>2 DEF Complete
  <2>2. /\ moments.stopDone = None /\ moments' = [moments EXCEPT !["stopDone"] = now]
        /\ moments.stopSub # None /\ UNCHANGED << kind, now >>
    BY <1>2 DEF Complete, Note
  <2>3. /\ moments'.stopDone = now /\ moments'.stopSub = moments.stopSub
        /\ moments'.startSub = None
    BY <2>2, <1>mem DEF Typed, Past
  <2>4. status = "Success" => <<"down", now>> \in seen'
    BY <2>1, <2>2, <2>3, <1>tim, Noticed DEF Fault
  <2>5. files'["stop_receipt"] = Receipt("stop", status)
    BY <2>1, <1>names DEF Typed
  <2>6. FileOK("stop_receipt", files["stop_receipt"])'
    BY <2>2, <2>3, <2>4, <2>5, <1>tim DEF FileOK, ReceiptOK, Receipt, Service
  <2> QED
    BY <2>1, <2>6, <1>names, FileWritten
<1>3. CASE Complete("start")
  <2>1. PICK status \in {"Success", "Failed"} :
           files' = [files EXCEPT !["start_receipt"] = Receipt("start", status)]
    BY <1>3 DEF Complete
  <2>2. /\ moments' = [moments EXCEPT !["startDone"] = now]
        /\ UNCHANGED << kind, now >>
    BY <1>3 DEF Complete, Note
  <2>3. moments'.startDone = now /\ moments'.startSub = moments.startSub
    BY <2>2, <1>mem DEF Typed
  <2>5. files'["start_receipt"] = Receipt("start", status)
    BY <2>1, <1>names DEF Typed
  <2>6. FileOK("start_receipt", files["start_receipt"])'
    BY <2>2, <2>3, <2>5, <1>tim DEF FileOK, ReceiptOK, Receipt, Service
  <2> QED
    BY <2>1, <2>6, <1>names, FileWritten
<1>4. CASE DeclareRecovered
  <2>1. /\ files' = [files EXCEPT !["timeline"] = Timeline']
        /\ moments' = [moments EXCEPT !["recovered"] = now]
        /\ moments.load # None /\ moments.startDone # None
    BY <1>4 DEF DeclareRecovered, Timeline, Note
  <2>2. \A m \in Moments : moments'[m] # None
    BY <2>1, <1>tim, <1>mem DEF Past, Typed
  <2>3. files'["timeline"] = Timeline'
    BY <2>1, <1>names DEF Typed
  <2>4. FileOK("timeline", files["timeline"])'
    BY <2>2, <2>3 DEF FileOK
  <2> QED
    BY <2>1, <2>4, <1>names, FileWritten
<1>5. ASSUME NEW n \in Captures, Capture(n) PROVE FilesOK'
  <2>1. PICK ok \in BOOLEAN, kept \in {0, backlog} : files' = [files EXCEPT ![n] = Shown(n, ok, kept)]
    BY <1>5 DEF Capture
  <2>2. /\ UNCHANGED << kind, now, unsent, broken, moments, samples, sightings >>
        /\ n = "redis" => \A f \in {"before", "after", "drained"} : samples[f] # None
    BY <1>5 DEF Capture, system
  <2>3. /\ n \in InputNames(kind) /\ n \in {"mysql", "redis", "api", "notification", "alb"}
        /\ n = "alb" => kind = "api"
        /\ n = "notification" => kind = "worker"
    BY <1>names DEF Captures, Typed
  <2>4. files'[n] = Shown(n, ok, kept)
    BY <2>1, <2>3 DEF Typed
  <2>5. CASE n = "redis"
    <3>2. files'[n].run = "this" /\ files'[n].samples = samples
      BY <2>4, <2>5 DEF Shown
    <3> QED
      BY <2>1, <2>2, <2>3, <2>5, <3>2, FileWritten DEF FileOK, RedisOK
  <2>6. CASE n = "alb"
    <3>1. /\ files'[n].run = "this" /\ files'[n].target = "A"
          /\ files'[n].transitions = sightings
      BY <2>4, <2>6 DEF Shown
    <3>2. /\ sightings \in Seq([state : {"healthy", "unhealthy"}, at : Time])
          /\ \A j \in 1..Len(sightings) : <<sightings[j].state, sightings[j].at>> \in seen'
      BY <2>3, <2>6 DEF Typed, Past, Onward
    <3>3. FileOK(n, files[n])'
      BY <2>6, <3>1, <3>2 DEF FileOK, AlbOK
    <3> QED
      BY <2>1, <2>3, <3>3, FileWritten
  <2>7. CASE n \in {"mysql", "api", "notification"}
    <3>1. /\ files'[n].run = "this" /\ files'[n].captured = now
          /\ files'[n].status = (IF ok THEN "PASS" ELSE "FAIL")
          /\ files'[n].pending = (IF n = "notification" /\ ok THEN unsent ELSE 0)
          /\ files'[n].counts = [x \in Tells(n) |-> IF ok THEN Count(x) ELSE 0]
      BY <2>4, <2>7 DEF Shown
    <3>2. files'[n].status = "PASS" => ok
      BY <3>1
    <3>3. ASSUME ok, NEW x \in Tells(n), files'[n].counts[x] = 0 PROVE broken'[x] = None
      BY <3>1, <3>3, <2>2 DEF Count
    <3>4. ASSUME ok, n = "notification", files'[n].pending = 0
          PROVE  <<"settled", now>> \in seen'
      BY <3>1, <3>4, <2>2, <2>3, Noticed
    <3>5. SnapshotOK(n, files[n])'
      BY <3>1, <3>2, <3>3, <3>4, <2>2, <1>tim DEF SnapshotOK, Tells
    <3>6. FileOK(n, files[n])'
      BY <3>5, <2>7 DEF FileOK
    <3> QED
      BY <2>1, <2>3, <3>6, FileWritten
  <2> QED
    BY <2>3, <2>5, <2>6, <2>7
<1> QED
  BY <1>1, <1>2, <1>3, <1>4, <1>5 DEF ExperimentStep, Tick, Arrive, Drain, Notify, HealthCheck,
      Break, StartLoad, Submit, Sample, SampleBefore, SampleAfter, SampleDrained, Reading,
      Sight, notes

-----------------------------------------------------------------------------
(* The builds.                                                              *)

\* What is accepted does not depend on anything but the files.
LEMMA AcceptedStays ==
  ASSUME kind' = kind, files' = files, NEW doc, Accepted(doc)
  PROVE  Accepted(doc)'
  BY DEF Accepted, Collected, Accepts, RecoveryAccepts, ApiFaultAccepts, OneRun, ReceiptHolds,
     ReceiptsHold, Service, TimelineHolds, RedisHolds, SnapshotHolds, AlbHolds, Covers

\* A build changes nothing of the experiment.
LEMMA Quiet ==
  ASSUME Typed, Past, FilesOK, UNCHANGED << kind, now, system, notes >>, seen \subseteq seen'
  PROVE  Typed' /\ Past' /\ FilesOK'
<1>1. Typed'
  BY DEF Typed, system, notes, InputNames
<1>2. Past'
  <2>1. UNCHANGED << kind, now, moments, samples, sightings >>
    BY DEF notes
  <2> QED
    BY <2>1 DEF Past
<1>3. Onward
  <2>1. now \in Int
    BY DEF Typed, Time
  <2> QED
    BY <2>1 DEF Onward, system, notes
<1>4. FilesOK'
  BY <1>1, <1>3, FilesStay DEF notes
<1> QED
  BY <1>1, <1>2, <1>4

\* Nothing but accepted inputs reaches the output.
LEMMA BuiltStep ==
  ASSUME EvidenceInv, UNCHANGED << kind, notes >>,
         \/ ReadAll \/ \E n \in InputNames(kind) : ReadStray(n)
         \/ CheckOutput \/ Link \/ ForeignAppears \/ BuilderKilled
         \/ UNCHANGED << builder, output >>
  PROVE  Built'
<1>same. kind' = kind /\ files' = files
  BY DEF notes
<1>out. ASSUME output' = output PROVE output' = NoFile \/ output' = Foreign \/ Accepted(output)'
  <2>1. PICK o : o = output
    OBVIOUS
  <2>2. Accepted(o) => Accepted(o)'
    BY <1>same, AcceptedStays
  <2> QED
    BY <1>out, <2>1, <2>2 DEF EvidenceInv, Built, Accepted
<1>doc. builder.pc # "idle" /\ builder'.doc = builder.doc => Accepted(builder.doc)'
  <2>1. PICK o : o = builder.doc
    OBVIOUS
  <2>2. Accepted(o) => Accepted(o)'
    BY <1>same, AcceptedStays
  <2> QED
    BY <2>1, <2>2 DEF EvidenceInv, Built, Accepted
<1>read. ASSUME NEW doc, doc = files, Collected, Read(doc) PROVE Built'
  <2>1. CASE Accepts(doc)
    <3>1. builder' = [pc |-> "check", doc |-> doc] /\ output' = output
      BY <1>read, <2>1 DEF Read
    <3>2. Accepted(doc)'
      BY <1>read, <2>1, <1>same, AcceptedStays DEF Accepted
    <3>3. Accepted(builder.doc)'
      BY <3>1, <3>2 DEF Accepted
    <3> QED
      BY <3>1, <3>3, <1>out DEF Built
  <2>2. CASE ~Accepts(doc)
    BY <1>read, <2>2, <1>out DEF Read, Built
  <2> QED
    BY <2>1, <2>2
<1>1. CASE ReadAll
  <2>1. PICK doc : doc = files
    OBVIOUS
  <2> QED
    BY <1>1, <2>1, <1>read DEF ReadAll, Read
<1>2. CASE \E n \in InputNames(kind) : ReadStray(n)
  <2>0. PICK n \in InputNames(kind) :
           Collected /\ \E f \in Stray(n) : Read([files EXCEPT ![n] = f])
    BY <1>2 DEF ReadStray
  <2>1. PICK f \in Stray(n) : Collected /\ Read([files EXCEPT ![n] = f])
    BY <2>0
  <2>2. PICK doc : doc = [files EXCEPT ![n] = f]
    OBVIOUS
  <2>3. Read(doc)
    BY <2>1, <2>2 DEF Read
  <2>4. CASE Accepts(doc)
    <3>1. doc = files
      BY <2>1, <2>2, <2>4, StrayRefused DEF EvidenceInv
    <3> QED
      BY <2>1, <2>3, <3>1, <1>read
  <2>5. CASE ~Accepts(doc)
    <3>1. builder' = builder /\ output' = output /\ builder.pc = "idle"
      BY <2>3, <2>5 DEF Read
    <3> QED
      BY <3>1, <1>out DEF Built
  <2> QED
    BY <2>4, <2>5
<1>3. CASE CheckOutput
  <2>1. output' = output /\ builder.pc = "check"
    BY <1>3 DEF CheckOutput
  <2>2. builder' = [builder EXCEPT !.pc = "link"] \/ builder'.pc = "idle"
    BY <1>3 DEF CheckOutput, Idle
  <2>3. CASE builder'.pc = "idle"
    BY <2>1, <2>3, <1>out DEF Built
  <2>4. CASE builder' = [builder EXCEPT !.pc = "link"]
    <3>1. builder'.doc = builder.doc
      BY <2>4
    <3>2. Accepted(builder.doc)'
      BY <3>1, <2>1, <1>doc
    <3> QED
      BY <2>1, <3>2, <1>out DEF Built
  <2> QED
    BY <2>2, <2>3, <2>4
<1>4. CASE Link
  <2>1. builder'.pc = "idle" /\ builder.pc = "link"
        /\ (output' = output \/ output' = builder.doc)
    BY <1>4 DEF Link, Idle
  <2>2. CASE output' = output
    BY <2>1, <2>2, <1>out DEF Built
  <2>3. CASE output' = builder.doc
    <3>1. PICK o : o = builder.doc
      OBVIOUS
    <3>2. Accepted(o)'
      BY <3>1, <2>1, <1>same, AcceptedStays DEF EvidenceInv, Built
    <3> QED
      BY <2>1, <2>3, <3>1, <3>2 DEF Built, Accepted
  <2> QED
    BY <2>1, <2>2, <2>3
<1>5. CASE ForeignAppears
  <2>1. output' = Foreign /\ builder' = builder
    BY <1>5 DEF ForeignAppears
  <2> QED
    BY <2>1, <1>doc DEF Built
<1>6. CASE BuilderKilled
  BY <1>6, <1>out DEF BuilderKilled, Idle, Built
<1>7. CASE UNCHANGED << builder, output >>
  BY <1>7, <1>doc, <1>out DEF Built
<1> QED
  BY <1>1, <1>2, <1>3, <1>4, <1>5, <1>6, <1>7

\* Every step keeps the invariant.
LEMMA EvidenceStep == EvidenceInv /\ [EvidenceNext]_evidenceVars => EvidenceInv'
<1> SUFFICES ASSUME EvidenceInv, [EvidenceNext]_evidenceVars PROVE EvidenceInv'
  OBVIOUS
<1>1. CASE ~Collected /\ ExperimentStep /\ seen' = seen \union Facts'
  <2>1. Typed' /\ Onward
    BY <1>1, TypedStep, OnwardStep DEF EvidenceInv
  <2>2. Past' /\ FilesOK'
    BY <1>1, <2>1, PastStep, FilesStep DEF EvidenceInv
  <2>3. UNCHANGED << builder, output >>
    BY <1>1 DEF ExperimentStep, Tick, Arrive, Drain, Notify, HealthCheck, Break, StartLoad, Submit,
     Complete, DeclareRecovered, Sample, SampleBefore,
     SampleAfter, SampleDrained, Reading, Sight, Capture
  <2>4. builder.pc = "idle" /\ (output = NoFile \/ output = Foreign)
    BY <1>1 DEF EvidenceInv, Built, Accepted
  <2> QED
    BY <2>1, <2>2, <2>3, <2>4 DEF EvidenceInv, Built
<1>2. CASE /\ \/ ReadAll \/ \E n \in InputNames(kind) : ReadStray(n)
              \/ CheckOutput \/ Link \/ ForeignAppears \/ BuilderKilled
           /\ seen' = seen \union Facts'
  <2>1. UNCHANGED << kind, now, system, notes >> /\ seen \subseteq seen'
    BY <1>2 DEF ReadAll, ReadStray, Read, CheckOutput, Link, ForeignAppears, BuilderKilled
  <2> QED
    BY <1>2, <2>1, Quiet, BuiltStep DEF EvidenceInv
<1>3. CASE UNCHANGED evidenceVars
  <2>1. UNCHANGED << kind, now, system, notes, builder, output >> /\ seen \subseteq seen'
    BY <1>3 DEF evidenceVars
  <2> QED
    BY <2>1, Quiet, BuiltStep DEF EvidenceInv
<1> QED
  BY <1>1, <1>2, <1>3 DEF EvidenceNext

\* It holds at the start.
LEMMA EvidenceInitially == EvidenceInit => EvidenceInv
<1> SUFFICES ASSUME EvidenceInit PROVE EvidenceInv
  OBVIOUS
<1>1. Typed
  BY EvidenceAssumption DEF EvidenceInit, Typed, Time, Broken
<1>2. Past
  BY DEF EvidenceInit, Past, None, Moments
<1>3. FilesOK
  BY DEF EvidenceInit, FilesOK
<1>4. Built
  BY DEF EvidenceInit, Built
<1> QED
  BY <1>1, <1>2, <1>3, <1>4 DEF EvidenceInv

\* The invariant holds in every reachable state.
THEOREM EvidenceInvariance == EvidenceSpec => []EvidenceInv
  BY EvidenceInitially, EvidenceStep, PTL DEF EvidenceSpec

-----------------------------------------------------------------------------
(* What is published is true.                                               *)

\* What both builders have seen to: the order of the fault.
LEMMA AcceptedOrder ==
  ASSUME EvidenceInv, Published
  PROVE  /\ output = files /\ Accepts(files) /\ Collected
         /\ output.timeline.moments = moments /\ \A m \in Moments : moments[m] \in Time
         /\ moments.load <= moments.stopDone /\ moments.stopDone <= moments.startSub
         /\ <<"down", moments.stopDone>> \in seen
<1>1. output = files /\ Accepts(files) /\ Collected
  BY DEF EvidenceInv, Built, Published, Accepted
<1>2. files["timeline"] = Timeline /\ \A m \in Moments : moments[m] \in Time
  BY <1>1 DEF EvidenceInv, FilesOK, FileOK, Typed, Collected, InputNames
<1>3. TimelineHolds(files) /\ ReceiptHolds(files.stop_receipt)
  BY <1>1 DEF Accepts, RecoveryAccepts, ApiFaultAccepts, ReceiptsHold
<1>4. output.timeline.moments = moments
  BY <1>1, <1>2 DEF Timeline
<1>5. moments.load <= moments.stopDone /\ moments.stopDone <= moments.startSub
  <2>1. /\ moments.load <= moments.stopSub /\ moments.stopSub <= moments.stopDone
        /\ moments.stopDone <= moments.startSub
    BY <1>1, <1>3, <1>4 DEF TimelineHolds
  <2>2. moments.load \in Int /\ moments.stopSub \in Int /\ moments.stopDone \in Int
    BY <1>2 DEF Moments, Time
  <2> QED
    BY <2>1, <2>2
<1>6. <<"down", moments.stopDone>> \in seen
  <2>1. FileOK("stop_receipt", files["stop_receipt"])
    BY <1>1 DEF EvidenceInv, FilesOK, Typed, Collected, InputNames
  <2> QED
    BY <2>1, <1>3 DEF FileOK, ReceiptHolds
<1> QED
  BY <1>1, <1>2, <1>4, <1>5, <1>6

\* A clean snapshot that was accepted clears all it speaks of.
LEMMA SnapshotClears ==
  ASSUME EvidenceInv, Published, NEW n \in InputNames(kind),
         n \in {"mysql", "api", "notification"}, SnapshotHolds(files[n], files)
  PROVE  /\ \A x \in Tells(n) : NotBroken(x)
         /\ files[n].captured \in Time /\ files[n].captured >= moments.recovered
         /\ n = "notification" /\ files[n].pending = 0 => <<"settled", files[n].captured>> \in seen
<1>1. SnapshotOK(n, files[n])
  BY AcceptedOrder DEF EvidenceInv, FilesOK, FileOK, Collected, Typed
<1>2. files.timeline.moments = moments /\ output.timeline.moments = moments
  BY AcceptedOrder
<1>3. /\ files[n].status = "PASS" /\ files[n].captured >= moments.recovered
      /\ \A x \in Tells(n) : files[n].counts[x] = 0
  BY <1>1, <1>2 DEF SnapshotHolds, SnapshotOK
<1>4. moments.recovered \in Int /\ files[n].captured \in Int
  BY <1>1, AcceptedOrder DEF SnapshotOK, Moments, Time
<1>5. ASSUME NEW x \in Tells(n) PROVE NotBroken(x)
  <2>1. broken[x] = None \/ broken[x] >= files[n].captured
    BY <1>1, <1>3 DEF SnapshotOK
  <2>2. broken[x] \in Int
    BY DEF EvidenceInv, Typed, Time, None, Tells, Broken
  <2>3. CASE broken[x] = None
    BY <2>3 DEF NotBroken
  <2>4. CASE broken[x] >= files[n].captured
    <3>1. broken[x] >= moments.recovered
      BY <2>2, <2>4, <1>3, <1>4
    <3> QED
      BY <3>1, <1>2 DEF NotBroken
  <2> QED
    BY <2>1, <2>3, <2>4
<1> QED
  BY <1>1, <1>3, <1>5 DEF SnapshotOK

\* A published recovery manifest is true, for any number of mishaps.
LEMMA RecoveryTrue == EvidenceInv => RecoveryIsTrue
<1> SUFFICES ASSUME EvidenceInv, kind = "worker", Published PROVE RecoveryIsTrue
  BY DEF RecoveryIsTrue
<1> DEFINE t == moments
<1>1. /\ output.timeline.moments = moments /\ output = files
      /\ \A m \in Moments : moments[m] \in Time
      /\ Collected /\ RecoveryAccepts(files)
  BY AcceptedOrder DEF Accepts
<1>int. /\ moments.stopDone \in Int /\ moments.startSub \in Int /\ moments.startDone \in Int
        /\ moments.recovered \in Int /\ Time = 0..MaxTime /\ MaxTime \in Int
  BY <1>1, EvidenceAssumption DEF Moments, Time
<1>names. InputNames(kind) = {"stop_receipt", "start_receipt", "timeline",
                              "mysql", "api", "redis", "notification"}
  BY DEF InputNames
<1>2. Known("down", moments.stopDone, moments.startSub) /\ moments.load <= moments.stopDone
  BY <1>int, AcceptedOrder DEF Known
<1>redis. /\ samples.after # None /\ samples.before # None /\ samples.drained # None
          /\ samples.after > samples.before
          /\ files.redis.samples.timely = samples.timely
          /\ moments.startDone <= samples.drained /\ samples.drained <= moments.recovered
  <2>1. RedisOK(files["redis"])
    BY <1>1, <1>names DEF EvidenceInv, FilesOK, FileOK, Collected, Typed
  <2>2. RedisHolds(files)
    BY <1>1 DEF RecoveryAccepts
  <2> QED
    BY <2>1, <2>2, <1>1 DEF RedisOK, RedisHolds
<1>3. output.redis.samples.timely => Known("backlog", moments.stopDone, moments.startSub)
  <2> SUFFICES ASSUME output.redis.samples.timely
               PROVE  Known("backlog", moments.stopDone, moments.startSub)
    OBVIOUS
  <2>1. samples.timely /\ samples.after > 0
    BY <1>1, <1>redis DEF EvidenceInv, Typed
  <2>2. moments.startSub # None
    BY <1>1 DEF Moments, Time, None
  <2>3. PICK u \in Time : /\ <<"backlog", u>> \in seen
                          /\ moments.stopDone <= u /\ u <= moments.startSub
    BY <2>1, <2>2 DEF EvidenceInv, Past
  <2> QED
    BY <2>3, <1>int DEF Known
<1>4. Known("drained", moments.startDone, moments.recovered)
  <2>1. <<"drained", samples.drained>> \in seen /\ samples.drained \in Int
    BY <1>redis, <1>int DEF EvidenceInv, Past, Typed
  <2> QED
    BY <2>1, <1>redis, <1>int DEF Known
<1>5. /\ NotBroken("failed") /\ Known("settled", moments.recovered, MaxTime)
  <2>1. SnapshotHolds(files["notification"], files) /\ files["notification"].pending = 0
    BY <1>1 DEF RecoveryAccepts
  <2>2. /\ NotBroken("failed") /\ files["notification"].captured \in Time
        /\ files["notification"].captured >= moments.recovered
        /\ <<"settled", files["notification"].captured>> \in seen
    BY <2>1, <1>names, SnapshotClears DEF Tells
  <2>3. PICK c \in Time : c >= moments.recovered /\ <<"settled", c>> \in seen
    BY <2>2
  <2> QED
    BY <2>2, <2>3, <1>int DEF Known
<1>6. NotBroken("over") /\ NotBroken("lost")
  <2>1. SnapshotHolds(files["api"], files)
    BY <1>1 DEF RecoveryAccepts
  <2> QED
    BY <2>1, <1>names, SnapshotClears DEF Tells
<1> QED
  BY <1>1, <1>2, <1>3, <1>4, <1>5, <1>6 DEF RecoveryIsTrue

\* So is a published API fault manifest.
LEMMA ApiFaultTrue == EvidenceInv => ApiFaultIsTrue
<1> SUFFICES ASSUME EvidenceInv, kind = "api", Published PROVE ApiFaultIsTrue
  BY DEF ApiFaultIsTrue
<1>1. /\ output.timeline.moments = moments /\ output = files
      /\ \A m \in Moments : moments[m] \in Time
      /\ Collected /\ ApiFaultAccepts(files)
  BY AcceptedOrder DEF Accepts
<1>int. /\ moments.stopDone \in Int /\ moments.startSub \in Int /\ moments.startDone \in Int
        /\ moments.recovered \in Int /\ moments.load \in Int /\ Time \subseteq Int
  BY <1>1, EvidenceAssumption DEF Moments, Time
<1>names. InputNames(kind) = {"stop_receipt", "start_receipt", "timeline", "mysql", "api", "alb"}
  BY DEF InputNames
<1>2. Known("down", moments.stopDone, moments.startSub)
  BY <1>int, AcceptedOrder DEF Known
<1> DEFINE seq == files["alb"].transitions
<1>alb. /\ seq \in Seq([state : {"healthy", "unhealthy"}, at : Time])
        /\ \A i \in 1..Len(seq) : <<seq[i].state, seq[i].at>> \in seen
  <2>1. AlbOK(files["alb"])
    BY <1>1, <1>names DEF EvidenceInv, FilesOK, FileOK, Collected, Typed
  <2> QED
    BY <2>1 DEF AlbOK
<1>cov. /\ Len(seq) >= 3 /\ seq[1].state = "healthy" /\ seq[Len(seq)].state = "healthy"
        /\ Covers(seq, moments)
  <2>1. AlbHolds(files)
    BY <1>1 DEF ApiFaultAccepts
  <2> QED
    BY <2>1, <1>1 DEF AlbHolds
<1> HIDE DEF seq
<1>len. Len(seq) \in Nat /\ \A i \in 1..Len(seq) : seq[i].state \in {"healthy", "unhealthy"}
                                                 /\ seq[i].at \in Int
  <2>1. Len(seq) \in Nat
    BY <1>alb
  <2>2. ASSUME NEW i \in 1..Len(seq)
        PROVE  seq[i].state \in {"healthy", "unhealthy"} /\ seq[i].at \in Int
    <3>0. ASSUME NEW S, NEW q \in Seq(S), NEW k \in 1..Len(q) PROVE q[k] \in S
      OBVIOUS
    <3>1. seq[i] \in [state : {"healthy", "unhealthy"}, at : Time]
      BY <3>0, <1>alb
    <3> QED
      BY <3>1, <1>int
  <2> QED
    BY <2>1, <2>2
<1>3. Known("healthy", moments.load, moments.stopDone)
  <2>1. moments.load <= seq[1].at /\ seq[1].at <= moments.stopDone
    BY <1>cov DEF Covers
  <2>2. <<"healthy", seq[1].at>> \in seen /\ seq[1].at \in Int
    BY <1>alb, <1>cov, <1>len
  <2> QED
    BY <2>1, <2>2, <1>int DEF Known
<1>4. Known("healthy", moments.startDone, moments.recovered)
  <2>1. moments.startDone <= seq[Len(seq)].at /\ seq[Len(seq)].at <= moments.recovered
    BY <1>cov DEF Covers
  <2>2. <<"healthy", seq[Len(seq)].at>> \in seen /\ seq[Len(seq)].at \in Int
    BY <1>alb, <1>cov, <1>len
  <2> QED
    BY <2>1, <2>2, <1>int DEF Known
<1>5. Known("unhealthy", moments.stopDone, moments.startDone)
  <2>1. PICK i \in 2..(Len(seq) - 1) :
           /\ seq[i].state # "healthy"
           /\ moments.stopDone <= seq[i].at /\ seq[i].at <= moments.startDone
    BY <1>cov DEF Covers
  <2>2. i \in 1..Len(seq)
    BY <1>len
  <2>3. <<"unhealthy", seq[i].at>> \in seen /\ seq[i].at \in Int
    BY <2>1, <2>2, <1>alb, <1>len
  <2> QED
    BY <2>1, <2>3, <1>int DEF Known
<1>6. NotBroken("over") /\ NotBroken("lost")
  <2>1. SnapshotHolds(files["api"], files)
    BY <1>1 DEF ApiFaultAccepts
  <2> QED
    BY <2>1, <1>names, SnapshotClears DEF Tells
<1> QED
  BY <1>1, <1>2, <1>3, <1>4, <1>5, <1>6 DEF ApiFaultIsTrue

\* A published recovery manifest is true, whatever order the operator worked in,
\* however much failed, and whichever file of another run or instance was
\* handed in.
THEOREM RecoveryManifestTrue == EvidenceSpec => []RecoveryIsTrue
  BY RecoveryTrue, EvidenceInvariance, PTL

\* A published API fault manifest is true in the same way.
THEOREM ApiFaultManifestTrue == EvidenceSpec => []ApiFaultIsTrue
  BY ApiFaultTrue, EvidenceInvariance, PTL

\* Once there is a file at the output path, no build ever changes it.
THEOREM OutputUntouched == EvidenceSpec => OutputKept
<1>1. [EvidenceNext]_evidenceVars => [output' # output => output = NoFile]_evidenceVars
  BY DEF EvidenceNext, evidenceVars, ExperimentStep, Tick, Arrive, Drain, Notify, HealthCheck,
      Break, StartLoad, Submit, Complete, DeclareRecovered, Sample, SampleBefore,
      SampleAfter, SampleDrained, Reading, Sight, Capture, ReadAll, ReadStray,
     Read, CheckOutput, Link, ForeignAppears, BuilderKilled
<1> QED
  BY <1>1, PTL DEF EvidenceSpec, OutputKept

-----------------------------------------------------------------------------
(* package_loadgen.py.                                                      *)

Modes == {"archive", "manifest", "extract"}

Fields == {"pc", "mode", "got", "temporary"}

\* What a packager has in its hands, after each of its checks, when the
\* manifests in checked have been those of intact archives.
PackagerOK(q, checked) ==
    /\ DOMAIN q = Fields
    /\ q.mode \in Modes
    /\ q.pc = "read" => q.mode # "extract"
    /\ q.pc \in {"embedded", "again"} => q.mode = "extract"
    /\ q.pc = "verify" => q.mode = "archive"
    /\ q.pc = "write" /\ q.mode = "extract" => q.got \in checked
    /\ q.pc = "replace" /\ q.mode = "extract" => q.temporary \in checked
    /\ q.pc = "replace" /\ q.mode = "archive" => q.temporary.payload = q.temporary.manifest

PackageInv ==
    /\ packager = [p \in Packagers |-> packager[p]]
    /\ \A p \in Packagers : PackagerOK(packager[p], verified)
    /\ packaged \in [edits : Nat, damages : Nat]

\* A step of one packager forgets nothing that was verified.
LEMMA OnePackager ==
  ASSUME PackageInv, NEW p \in Packagers, NEW q, PackagerOK(q, verified'),
         packager' = [packager EXCEPT ![p] = q], verified \subseteq verified',
         packaged' \in [edits : Nat, damages : Nat]
  PROVE  PackageInv'
<1>1. \A r \in Packagers : packager'[r] = IF r = p THEN q ELSE packager[r]
  BY DEF PackageInv
<1>2. packager' = [r \in Packagers |-> packager'[r]]
  BY DEF PackageInv
<1>3. \A r \in Packagers : PackagerOK(packager[r], verified) => PackagerOK(packager[r], verified')
  BY DEF PackagerOK
<1> QED
  BY <1>1, <1>2, <1>3 DEF PackageInv

LEMMA PackageInitInv == PackageInit => PackageInv
  BY DEF PackageInit, PackageInv, PackagerOK, Fields, Resting, Modes

\* The sources, and the archive as it lies there, are no packager's.
LEMMA OutsidePackagers ==
  ASSUME PackageInv, NEW f \in Sources, Edit(f) \/ DamageArchive(f)
  PROVE  PackageInv' /\ packaged' # packaged
<1>1. packager' = packager /\ verified' = verified
  BY DEF Edit, DamageArchive
<1>2. packaged' \in [edits : Nat, damages : Nat] /\ packaged' # packaged
  BY DEF Edit, DamageArchive, Damage, PackageInv
<1> QED
  BY <1>1, <1>2 DEF PackageInv

LEMMA DamageCounted ==
  ASSUME PackageInv, Damage
  PROVE  packaged' \in [edits : Nat, damages : Nat]
  BY DEF PackageInv, Damage

LEMMA RestingOK == \A checked : PackagerOK(Resting, checked)
  BY DEF PackagerOK, Fields, Resting, Modes

LEMMA StartKeeps ==
  ASSUME PackageInv, NEW p \in Packagers, NEW mode \in Modes, StartPackager(p, mode)
  PROVE  PackageInv'
<1> DEFINE pc == IF mode = "extract" THEN "embedded" ELSE "read"
           q == [Resting EXCEPT !.pc = pc, !.mode = mode]
<1>1. DOMAIN q = Fields /\ q.pc = pc /\ q.mode = mode
  BY DEF Resting, Fields
<1>2. packager' = [packager EXCEPT ![p] = q] /\ UNCHANGED << verified, packaged >>
  BY DEF StartPackager
<1> HIDE DEF q
<1>3. PackagerOK(q, verified')
  BY <1>1 DEF PackagerOK
<1> QED
  BY <1>2, <1>3, OnePackager DEF PackageInv

LEMMA ReadSourceKeeps ==
  ASSUME PackageInv, NEW p \in Packagers, NEW f \in Sources, ReadSource(p, f)
  PROVE  PackageInv'
<1> DEFINE old == packager[p]
           got == [g \in DOMAIN old.got \union {f} |-> IF g = f THEN source[f] ELSE old.got[g]]
           pc == IF DOMAIN got = Sources THEN "write" ELSE "read"
           q == [old EXCEPT !.got = got, !.pc = pc]
<1>1. PackagerOK(old, verified) /\ old.pc = "read" /\ pc \in {"read", "write"}
  BY DEF PackageInv, ReadSource
<1>2. packager' = [packager EXCEPT ![p] = q] /\ UNCHANGED << verified, packaged >>
  BY DEF ReadSource
<1> HIDE DEF got, pc
<1>3. DOMAIN q = Fields /\ q.pc = pc /\ q.mode = old.mode
  BY <1>1 DEF PackagerOK, Fields
<1> HIDE DEF q
<1>4. PackagerOK(q, verified')
  BY <1>1, <1>3 DEF PackagerOK
<1> QED
  BY <1>2, <1>4, OnePackager DEF PackageInv

LEMMA EmbeddedKeeps ==
  ASSUME PackageInv, NEW p \in Packagers, ReadEmbedded(p) \/ VerifyEmbedded(p)
  PROVE  PackageInv'
<1> DEFINE old == packager[p]
<1>1. /\ PackagerOK(old, verified) /\ old.mode = "extract"
      /\ packaged' = packaged /\ packaged' \in [edits : Nat, damages : Nat]
  BY DEF PackageInv, PackagerOK, ReadEmbedded, VerifyEmbedded
<1>2. CASE Fail(p) /\ verified' = verified
  BY <1>1, <1>2, RestingOK, OnePackager DEF Fail
<1>3. CASE ReadEmbedded(p) /\ ~Fail(p)
  <2> DEFINE q == [old EXCEPT !.got = archive.manifest, !.pc = "again"]
  <2>1. packager' = [packager EXCEPT ![p] = q] /\ verified' = verified
    BY <1>3 DEF ReadEmbedded
  <2>2. DOMAIN q = Fields /\ q.pc = "again" /\ q.mode = old.mode
    BY <1>1 DEF PackagerOK, Fields
  <2> HIDE DEF q
  <2>3. PackagerOK(q, verified')
    BY <1>1, <2>2 DEF PackagerOK
  <2> QED
    BY <1>1, <2>1, <2>3, OnePackager
<1>4. CASE VerifyEmbedded(p) /\ Intact(archive, old.got)
  <2> DEFINE q == [old EXCEPT !.pc = "write"]
  <2>1. packager' = [packager EXCEPT ![p] = q] /\ verified' = verified \union {old.got}
    BY <1>4 DEF VerifyEmbedded, Intact
  <2>2. DOMAIN q = Fields /\ q.pc = "write" /\ q.mode = old.mode /\ q.got = old.got
    BY <1>1 DEF PackagerOK, Fields
  <2> HIDE DEF q
  <2>3. PackagerOK(q, verified')
    BY <1>1, <2>1, <2>2 DEF PackagerOK
  <2> QED
    BY <1>1, <2>1, <2>3, OnePackager
<1> QED
  BY <1>2, <1>3, <1>4 DEF ReadEmbedded, VerifyEmbedded

\* A temporary file is the manifest itself or an archive to be verified.
LEMMA WriteKeeps ==
  ASSUME PackageInv, NEW p \in Packagers, WriteTemporary(p)
  PROVE  PackageInv'
<1> DEFINE old == packager[p]
           pc == IF old.mode = "archive" THEN "verify" ELSE "replace"
           file(payload) == IF old.mode = "archive"
                            THEN [manifest |-> old.got, payload |-> payload] ELSE old.got
<1>1. PackagerOK(old, verified) /\ old.pc = "write" /\ verified' = verified
  BY DEF PackageInv, WriteTemporary
<1>2. PICK payload :
         packager' = [packager EXCEPT ![p].pc = pc, ![p].temporary = file(payload)]
  BY DEF WriteTemporary
<1> DEFINE temporary == file(payload)
           q == [old EXCEPT !.pc = pc, !.temporary = temporary]
<1>3. old.mode # "archive" => temporary = old.got
  OBVIOUS
<1> HIDE DEF temporary
<1>4. packager' = [packager EXCEPT ![p] = q]
  BY <1>2 DEF temporary
<1>5. DOMAIN q = Fields /\ q.pc = pc /\ q.mode = old.mode /\ q.temporary = temporary
  BY <1>1 DEF PackagerOK, Fields
<1> HIDE DEF q
<1>6. PackagerOK(q, verified')
  BY <1>1, <1>3, <1>5 DEF PackagerOK, Modes
<1>7. packaged' \in [edits : Nat, damages : Nat]
  BY DamageCounted DEF WriteTemporary, PackageInv
<1> QED
  BY <1>1, <1>4, <1>6, <1>7, OnePackager

LEMMA VerifyKeeps ==
  ASSUME PackageInv, NEW p \in Packagers, VerifyTemporary(p)
  PROVE  PackageInv'
<1> DEFINE old == packager[p]
           q == [old EXCEPT !.pc = "replace"]
<1>1. /\ PackagerOK(old, verified) /\ old.mode = "archive"
      /\ packaged' \in [edits : Nat, damages : Nat]
  BY DEF PackageInv, PackagerOK, VerifyTemporary
<1>2. CASE Fail(p) /\ verified' = verified
  BY <1>1, <1>2, RestingOK, OnePackager DEF Fail
<1>3. CASE Intact(old.temporary, old.got)
  <2>1. packager' = [packager EXCEPT ![p] = q] /\ verified \subseteq verified'
    BY <1>3 DEF VerifyTemporary
  <2>2. /\ DOMAIN q = Fields /\ q.pc = "replace" /\ q.mode = old.mode
        /\ q.temporary = old.temporary
    BY <1>1 DEF PackagerOK, Fields
  <2> HIDE DEF q
  <2>3. PackagerOK(q, verified')
    BY <1>1, <1>3, <2>2 DEF PackagerOK, Intact
  <2> QED
    BY <1>1, <2>1, <2>3, OnePackager
<1> QED
  BY <1>2, <1>3 DEF VerifyTemporary

LEMMA EndKeeps ==
  ASSUME PackageInv, NEW p \in Packagers, Replace(p) \/ KillPackager(p)
  PROVE  PackageInv'
<1>1. packager' = [packager EXCEPT ![p] = Resting] /\ verified' = verified
  BY DEF Replace, KillPackager, Fail
<1>2. packaged' \in [edits : Nat, damages : Nat]
  BY DamageCounted DEF Replace, KillPackager, PackageInv
<1> QED
  BY <1>1, <1>2, RestingOK, OnePackager

LEMMA PackageStepInv == PackageInv /\ [PackageNext]_packageVars => PackageInv'
<1>1. CASE UNCHANGED packageVars
  BY <1>1 DEF packageVars, PackageInv
<1>2. ASSUME PackageInv, PackageNext PROVE PackageInv'
  BY <1>2, OutsidePackagers, StartKeeps, ReadSourceKeeps, EmbeddedKeeps, WriteKeeps,
     VerifyKeeps, EndKeeps DEF PackageNext, Modes
<1> QED
  BY <1>1, <1>2

\* What a step puts at one of the two paths.
PublishesWhole ==
    /\ archive' # archive /\ packaged' = packaged => archive'.payload = archive'.manifest
    /\ manifest' # manifest /\ manifest'.mode = "extract" => manifest'.files \in verified

\* Only os.replace puts something there, but for damage.
LEMMA OnlyReplace ==
  ASSUME PackageInv, [PackageNext]_packageVars
  PROVE  PublishesWhole
<1>1. CASE archive' = archive /\ manifest' = manifest
  BY <1>1 DEF PublishesWhole
<1>2. ASSUME NEW p \in Packagers, Replace(p) PROVE PublishesWhole
  <2> DEFINE old == packager[p]
  <2>1. PackagerOK(old, verified) /\ old.pc = "replace"
    BY <1>2 DEF PackageInv, Replace
  <2>2. CASE old.mode = "archive"
    <3>1. archive' = old.temporary /\ manifest' = manifest
      BY <1>2, <2>2 DEF Replace
    <3>2. old.temporary.payload = old.temporary.manifest
      BY <2>1, <2>2 DEF PackagerOK
    <3> QED
      BY <3>1, <3>2 DEF PublishesWhole
  <2>3. CASE old.mode # "archive"
    <3>1. archive' = archive /\ manifest' = [mode |-> old.mode, files |-> old.temporary]
      BY <1>2, <2>3 DEF Replace
    <3>2. old.mode = "extract" => old.temporary \in verified
      BY <2>1 DEF PackagerOK
    <3> QED
      BY <3>1, <3>2 DEF PublishesWhole
  <2> QED
    BY <2>2, <2>3
<1>3. ASSUME NEW f \in Sources, DamageArchive(f) PROVE PublishesWhole
  <2>1. packaged' # packaged
    BY <1>3, OutsidePackagers
  <2>2. manifest' = manifest
    BY <1>3 DEF DamageArchive
  <2> QED
    BY <2>1, <2>2 DEF PublishesWhole
<1>4. \/ archive' = archive /\ manifest' = manifest
      \/ \E p \in Packagers : Replace(p)
      \/ \E f \in Sources : DamageArchive(f)
  BY DEF PackageNext, packageVars, Edit, StartPackager, ReadSource, ReadEmbedded, VerifyEmbedded,
         WriteTemporary, VerifyTemporary, KillPackager
<1> QED
  BY <1>1, <1>2, <1>3, <1>4

\* Whatever is edited, badly written, damaged or killed meanwhile, and however
\* many packagers run: an archive that is published holds what its manifest
\* lists, and a manifest that is extracted is that of an archive found intact.
THEOREM PublishedWhole == PackageSpec => PublishedIsWhole
<1>1. PackageSpec => []PackageInv
  BY PackageInitInv, PackageStepInv, PTL DEF PackageSpec
<1>2. PackageInv /\ [PackageNext]_packageVars => [PublishesWhole]_packageVars
  BY OnlyReplace
<1>3. PackageSpec => [][PublishesWhole]_packageVars
  BY <1>1, <1>2, PTL DEF PackageSpec
<1> QED
  BY <1>3 DEF PublishedIsWhole, PublishesWhole

-----------------------------------------------------------------------------
(* aggregate-k6-evidence.py.                                                *)

RunState ==
    [gen : Generators, plan : {ThePlan} \union OtherPlans, package : {"package", "old"},
     start : Nat, next : 0..Users, status : {"running", "completed", "failed"},
     granted : SUBSET Nat, issued : SUBSET Nat, sold_out : Nat, duplicate : Nat,
     dropped : Nat, lost : Nat, cut : Nat]

\* An execution only issues to users of its range it has come to, each once, and
\* what it does not know of is among its lost answers and broken off iterations.
RunOK(r) ==
    /\ r.issued \subseteq r.granted /\ r.granted \subseteq r.start..(r.start + r.next - 1)
    /\ Cardinality(r.granted) <= Cardinality(r.issued) + r.lost + r.cut

RunsOK == runs \in Seq(RunState) /\ \A i \in DOMAIN runs : RunOK(runs[i])

\* What is collected comes from executions that are over.
Gathered ==
    /\ \A i \in DOMAIN runs : runs[i].status # "running"
    /\ bundles \in Seq([Files -> DOMAIN runs]) /\ Len(bundles) = Len(runs)

Confirmed(of) == UNION { runs[i].issued : i \in Range(of) }
Given(of)     == UNION { runs[i].granted : i \in Range(of) }

AggregateState ==
    [pc : {"hash", "load", "report", "open", "write"}, args : Seq(DOMAIN bundles), k : Nat,
     objects : {0} \union DOMAIN runs, of : Seq(DOMAIN runs),
     slots : SUBSET Generators, starts : SUBSET Nat,
     plans : SUBSET ({ThePlan} \union OtherPlans),
     totals : [issued : Nat, sold_out : Nat, duplicate : Nat, dropped : Nat]]

\* What was accumulated is what the executions counted so far add up to.
Tallied(a) ==
    /\ a.slots = { runs[i].gen : i \in Range(a.of) } /\ IsFiniteSet(a.slots)
    /\ Cardinality(a.slots) = Len(a.of)
    /\ a.starts = { runs[i].start : i \in Range(a.of) }
    /\ a.plans = { runs[i].plan : i \in Range(a.of) }
    /\ \A i \in Range(a.of) :
          runs[i].status = "completed" /\ runs[i].package = runs[i].plan.package
    /\ IsFiniteSet(Given(a.of))
    /\ a.totals.issued = Cardinality(Confirmed(a.of))
    /\ Cardinality(Given(a.of)) <= a.totals.issued + Len(a.of) * (Tolerated + Slack)

\* The digests of the files that are loaded next are those of one execution.
Compared(a) ==
    \A n \in RequiredObjects : Digest(n, bundles[a.args[a.k]][n]) = Digest(n, a.objects)

AggregateOK(a) ==
    a # NotStarted =>
        /\ bundles # << >> /\ a \in AggregateState /\ a.k \in DOMAIN a.args
        /\ ~spoiled => Tallied(a)
        /\ a.pc = "load" => a.objects \in DOMAIN runs
        /\ a.pc = "load" /\ ~spoiled => Compared(a)
        /\ a.pc \in {"open", "write"} =>
              Cardinality(a.plans) = 1 /\ \A p \in a.plans : a.totals.issued = p.stock

AggregateInv ==
    /\ RunsOK
    /\ bundles # << >> => Gathered
    /\ AggregateOK(aggregate)
    /\ result.complete => bundles # << >>
    /\ AggregateIsTrue

-----------------------------------------------------------------------------
LEMMA NotStartedIs == NotStarted.pc = "idle"
BY DEF NotStarted, Start

\* Plans differ in nothing that the users, the stock or the package depend on.
LEMMA PlanIs ==
  ASSUME NEW p \in {ThePlan} \union OtherPlans
  PROVE  p.stock = Stock /\ p.package = "package"
BY DEF ThePlan, OtherPlans

\* An execution's users are as many as it has come to, and finitely many.
LEMMA RunFinite ==
  ASSUME AggregateAssumption, NEW r \in RunState, RunOK(r)
  PROVE  /\ IsFiniteSet(r.granted) /\ IsFiniteSet(r.issued)
         /\ Cardinality(r.issued) \in Nat /\ Cardinality(r.granted) \in Nat
         /\ r.granted \subseteq r.start..(r.start + Users - 1)
<1>1. IsFiniteSet(r.start..(r.start + r.next - 1))
  BY FS_Interval DEF RunState, AggregateAssumption
<1>2. IsFiniteSet(r.granted)
  BY <1>1, FS_Subset DEF RunOK
<1>3. IsFiniteSet(r.issued)
  BY <1>2, FS_Subset DEF RunOK
<1>4. r.granted \subseteq r.start..(r.start + Users - 1)
  BY DEF RunOK, RunState, AggregateAssumption
<1> QED BY <1>2, <1>3, <1>4, FS_CardinalityType

\* An execution that passed was not broken off more often than the slack allows.
LEMMA CutWithinSlack ==
  ASSUME AggregateAssumption, NEW r \in RunState, ThresholdsPass(r)
  PROVE  r.cut <= Slack
<1>1. r.next \in 0..Users /\ r.cut \in Nat /\ Users \in Nat /\ Slack \in Nat
  BY DEF RunState, AggregateAssumption
<1>2. r.dropped = 0 /\ r.next - r.dropped - r.cut >= Users - Slack
  BY DEF ThresholdsPass, Made
<1> HIDE DEF RunState
<1> QED BY <1>1, <1>2

-----------------------------------------------------------------------------
\* A step of the executions alone keeps what is known of them; nothing is
\* collected before they are over.
LEMMA LaunchKeeps ==
  ASSUME AggregateAssumption, RunsOK, NEW g \in Generators,
         NEW plan \in {ThePlan} \union OtherPlans, NEW package \in {"package", "old"},
         NEW start \in {Len(runs) * Users, 0, 1}, Launch(g, plan, package, start)
  PROVE  RunsOK'
<1> DEFINE r == [gen |-> g, plan |-> plan, package |-> package, start |-> start,
                 next |-> 0, status |-> "running", granted |-> {}, issued |-> {},
                 sold_out |-> 0, duplicate |-> 0, dropped |-> 0, lost |-> 0, cut |-> 0]
<1>len. Len(runs) \in Nat /\ runs \in Seq(RunState)
  BY DEF RunsOK
<1>start. start \in Nat
  BY <1>len DEF AggregateAssumption
<1>1. r \in RunState
  BY <1>start DEF RunState, AggregateAssumption
<1>2. RunOK(r)
  BY FS_EmptySet DEF RunOK
<1>3. runs' = Append(runs, r)
  BY DEF Launch
<1> HIDE DEF r
<1>4. runs' \in Seq(RunState) /\ DOMAIN runs' = 1..(Len(runs) + 1)
  BY <1>len, <1>1, <1>3
<1>5. ASSUME NEW i \in DOMAIN runs' PROVE RunOK(runs'[i])
  <2>1. CASE i = Len(runs) + 1
    BY <2>1, <1>len, <1>2, <1>3
  <2>2. CASE i # Len(runs) + 1
    <3>1. i \in DOMAIN runs /\ runs'[i] = runs[i]
      BY <2>2, <1>5, <1>4, <1>3, <1>len
    <3> QED BY <3>1 DEF RunsOK
  <2> QED BY <2>1, <2>2
<1>6. \A i \in DOMAIN runs' : RunOK(runs'[i])
  BY <1>5
<1> QED BY <1>4, <1>6 DEF RunsOK, RunOK

LEMMA RunChangeKeeps ==
  ASSUME RunsOK, NEW i \in DOMAIN runs, NEW r \in RunState, RunOK(r),
         runs' = [runs EXCEPT ![i] = r]
  PROVE  RunsOK'
<1>1. runs' \in Seq(RunState) /\ DOMAIN runs' = DOMAIN runs
  BY DEF RunsOK
<1>2. \A j \in DOMAIN runs' : RunOK(runs'[j])
  BY <1>1 DEF RunsOK
<1> QED BY <1>1, <1>2 DEF RunsOK, RunOK

LEMMA IterationKeeps ==
  ASSUME AggregateAssumption, RunsOK, NEW i \in DOMAIN runs, NEW d \in Decisions,
         NEW end \in {"counted", "lost", "cut"}, Iteration(i, d, end)
  PROVE  RunsOK'
<1> DEFINE q == runs[i]
           u == q.start + q.next
           counted == end = "counted"
           r == [q EXCEPT !.next = @ + 1,
                   !.granted = IF d = "issued" THEN @ \union {u} ELSE @,
                   !.issued = IF d = "issued" /\ counted THEN @ \union {u} ELSE @,
                   !.sold_out = IF d = "sold_out" /\ counted THEN @ + 1 ELSE @,
                   !.duplicate = IF d = "duplicate" /\ counted THEN @ + 1 ELSE @,
                   !.lost = IF end = "lost" THEN @ + 1 ELSE @,
                   !.cut = IF end = "cut" THEN @ + 1 ELSE @]
<1>q. q \in RunState /\ RunOK(q)
  BY DEF RunsOK
<1>1. runs' = [runs EXCEPT ![i] = r] /\ q.next < Users
  BY DEF Iteration
<1>2. /\ DOMAIN r = DOMAIN q
      /\ r.gen = q.gen /\ r.plan = q.plan /\ r.package = q.package /\ r.start = q.start
      /\ r.status = q.status /\ r.next = q.next + 1
      /\ r.granted = (IF d = "issued" THEN q.granted \union {u} ELSE q.granted)
      /\ r.issued = (IF d = "issued" /\ counted THEN q.issued \union {u} ELSE q.issued)
      /\ r.lost = (IF end = "lost" THEN q.lost + 1 ELSE q.lost)
      /\ r.cut = (IF end = "cut" THEN q.cut + 1 ELSE q.cut)
      /\ r.sold_out \in {q.sold_out, q.sold_out + 1}
      /\ r.duplicate \in {q.duplicate, q.duplicate + 1}
      /\ r.dropped = q.dropped /\ r = [x \in DOMAIN r |-> r[x]]
  BY <1>q DEF RunState
<1> HIDE DEF r
<1>4. /\ IsFiniteSet(q.granted) /\ IsFiniteSet(q.issued)
      /\ Cardinality(q.issued) \in Nat /\ Cardinality(q.granted) \in Nat
  BY <1>q, RunFinite
<1>5. u \notin q.granted /\ u \notin q.issued
  BY <1>q DEF RunOK, RunState
<1>6. /\ Cardinality(q.granted \union {u}) = Cardinality(q.granted) + 1
      /\ Cardinality(q.issued \union {u}) = Cardinality(q.issued) + 1
  BY <1>4, <1>5, FS_AddElement
<1>nat. q.start \in Nat /\ q.next \in Nat /\ q.lost \in Nat /\ q.cut \in Nat
  BY <1>q DEF RunState, AggregateAssumption
<1>3. r \in RunState
  BY <1>q, <1>1, <1>2, <1>nat DEF RunState, AggregateAssumption
<1>7. r.issued \subseteq r.granted /\ r.granted \subseteq r.start..(r.start + r.next - 1)
  BY <1>2, <1>q, <1>nat DEF RunOK
<1>8. Cardinality(r.granted) <= Cardinality(r.issued) + r.lost + r.cut
  <2>1. Cardinality(q.granted) <= Cardinality(q.issued) + q.lost + q.cut
    BY <1>q DEF RunOK
  <2> HIDE DEF u, q
  <2>2. CASE d = "issued" /\ counted
    BY <2>1, <2>2, <1>2, <1>4, <1>6, <1>nat
  <2>3. CASE d = "issued" /\ ~counted
    BY <2>1, <2>3, <1>2, <1>4, <1>6, <1>nat
  <2>4. CASE d # "issued"
    BY <2>1, <2>4, <1>2, <1>4, <1>6, <1>nat
  <2> QED BY <2>2, <2>3, <2>4
<1>9. RunOK(r)
  BY <1>7, <1>8 DEF RunOK
<1> QED BY <1>1, <1>3, <1>9, RunChangeKeeps

LEMMA DroppedKeeps ==
  ASSUME AggregateAssumption, RunsOK, NEW i \in DOMAIN runs, Dropped(i)
  PROVE  RunsOK'
<1> DEFINE q == runs[i]
           r == [q EXCEPT !.next = @ + 1, !.dropped = @ + 1]
<1>q. q \in RunState /\ RunOK(q)
  BY DEF RunsOK
<1>1. runs' = [runs EXCEPT ![i] = r] /\ q.next < Users
  BY <1>q DEF Dropped, RunsOK, RunState
<1>3. /\ r.issued = q.issued /\ r.granted = q.granted /\ r.lost = q.lost /\ r.cut = q.cut
      /\ r.start = q.start /\ r.next = q.next + 1 /\ r.dropped = q.dropped + 1
      /\ r.gen = q.gen /\ r.plan = q.plan /\ r.package = q.package /\ r.status = q.status
      /\ r.sold_out = q.sold_out /\ r.duplicate = q.duplicate
      /\ DOMAIN r = DOMAIN q /\ r = [x \in DOMAIN r |-> r[x]]
  BY <1>q DEF RunState
<1> HIDE DEF r
<1>2. r \in RunState
  BY <1>q, <1>1, <1>3 DEF RunState, AggregateAssumption
<1>4. RunOK(r)
  BY <1>3, <1>q DEF RunOK, RunState
<1> QED BY <1>1, <1>2, <1>4, RunChangeKeeps

LEMMA EndsKeeps ==
  ASSUME RunsOK, NEW i \in DOMAIN runs, Ends(i)
  PROVE  RunsOK'
<1> DEFINE q == runs[i]
           r(s) == [q EXCEPT !.status = s]
<1>q. q \in RunState /\ RunOK(q)
  BY DEF RunsOK
<1>1. PICK s \in {"completed", "failed"} : runs' = [runs EXCEPT ![i] = r(s)]
  BY DEF Ends
<1>2. r(s) \in RunState
  BY <1>q DEF RunState
<1>3. /\ r(s).issued = q.issued /\ r(s).granted = q.granted /\ r(s).lost = q.lost
      /\ r(s).cut = q.cut /\ r(s).start = q.start /\ r(s).next = q.next
  BY <1>q DEF RunState
<1> HIDE DEF r
<1>4. RunOK(r(s))
  BY <1>3, <1>q DEF RunOK
<1> QED BY <1>1, <1>2, <1>4, RunChangeKeeps

LEMMA DisjointUnion ==
  ASSUME NEW S, NEW T, IsFiniteSet(S), IsFiniteSet(T), S \intersect T = {}
  PROVE  /\ IsFiniteSet(S \union T)
         /\ Cardinality(S \union T) = Cardinality(S) + Cardinality(T)
<1>1. Cardinality(S) \in Nat /\ Cardinality(T) \in Nat /\ Cardinality({}) = 0
  BY FS_CardinalityType, FS_EmptySet
<1>2. /\ IsFiniteSet(S \union T)
      /\ Cardinality(S \union T) = Cardinality(S) + Cardinality(T) - Cardinality(S \intersect T)
  BY FS_Union
<1>3. Cardinality(S \intersect T) = 0
  BY <1>1
<1> QED BY <1>1, <1>2, <1>3

LEMMA RangeOfAppend ==
  ASSUME NEW S, NEW s \in Seq(S), NEW e
  PROVE  Range(Append(s, e)) = Range(s) \union {e}
<1> DEFINE t == Append(s, e)
<1>1. /\ Len(s) \in Nat /\ DOMAIN s = 1..Len(s) /\ DOMAIN t = 1..(Len(s) + 1)
      /\ t[Len(s) + 1] = e /\ \A i \in 1..Len(s) : t[i] = s[i]
  OBVIOUS
<1> HIDE DEF t
<1>2. \A x \in Range(t) : x \in Range(s) \union {e}
  BY <1>1 DEF Range
<1>3. \A x \in Range(s) \union {e} : x \in Range(t)
  BY <1>1 DEF Range
<1> QED BY <1>2, <1>3 DEF t

\* One more execution, by another generator and with other users, is counted
\* right: its users add to those of the executions counted before.
LEMMA OneMoreCounts ==
  ASSUME AggregateAssumption, RunsOK, NEW a \in AggregateState, Tallied(a), NEW o \in DOMAIN runs,
         runs[o].status = "completed", runs[o].package = runs[o].plan.package,
         runs[o].gen \notin a.slots, runs[o].lost <= Tolerated, runs[o].cut <= Slack,
         \A s \in a.starts : runs[o].start + Users <= s \/ s + Users <= runs[o].start,
         NEW b, b.of = Append(a.of, o), b.slots = a.slots \union {runs[o].gen},
         b.starts = a.starts \union {runs[o].start}, b.plans = a.plans \union {runs[o].plan},
         b.totals.issued = a.totals.issued + Cardinality(runs[o].issued)
  PROVE  Tallied(b)
<1> DEFINE r == runs[o]
           S == Range(a.of)
<1>r. r \in RunState /\ RunOK(r)
  BY DEF RunsOK
<1>of. a.of \in Seq(DOMAIN runs) /\ Len(a.of) \in Nat /\ a.totals.issued \in Nat
  BY DEF AggregateState
<1>1. Range(b.of) = S \union {o} /\ Len(b.of) = Len(a.of) + 1
  BY <1>of, RangeOfAppend
<1>2. S \subseteq DOMAIN runs
  BY <1>of DEF Range
<1>3. /\ b.slots = { runs[i].gen : i \in Range(b.of) }
      /\ b.starts = { runs[i].start : i \in Range(b.of) }
      /\ b.plans = { runs[i].plan : i \in Range(b.of) }
  BY <1>1 DEF Tallied
<1>4. IsFiniteSet(b.slots) /\ Cardinality(b.slots) = Len(b.of)
  <2>1. IsFiniteSet(a.slots) /\ Cardinality(a.slots) = Len(a.of)
    BY DEF Tallied
  <2>2. /\ IsFiniteSet(a.slots \union {r.gen})
        /\ Cardinality(a.slots \union {r.gen}) = Cardinality(a.slots) + 1
    BY <2>1, FS_AddElement
  <2> QED BY <2>1, <2>2, <1>1
<1>5. \A i \in Range(b.of) :
          runs[i].status = "completed" /\ runs[i].package = runs[i].plan.package
  BY <1>1 DEF Tallied
<1>6. /\ Given(b.of) = Given(a.of) \union r.granted
      /\ Confirmed(b.of) = Confirmed(a.of) \union r.issued
  BY <1>1 DEF Given, Confirmed
<1>7. Given(a.of) \intersect r.granted = {}
  <2> SUFFICES ASSUME NEW u \in r.granted, NEW i \in S, u \in runs[i].granted
               PROVE  FALSE
    BY DEF Given
  <2>1. runs[i] \in RunState /\ RunOK(runs[i]) /\ runs[i].start \in a.starts
    BY <1>2 DEF RunsOK, Tallied
  <2>2. /\ u \in r.start..(r.start + Users - 1)
        /\ u \in runs[i].start..(runs[i].start + Users - 1)
    BY <2>1, <1>r, RunFinite
  <2>3. r.start \in Nat /\ runs[i].start \in Nat /\ Users \in Nat
    BY <2>1, <1>r DEF RunState, AggregateAssumption
  <2>4. r.start + Users <= runs[i].start \/ runs[i].start + Users <= r.start
    BY <2>1
  <2> HIDE DEF r
  <2> QED BY <2>2, <2>3, <2>4
<1>8. Confirmed(a.of) \subseteq Given(a.of)
  BY <1>2 DEF Confirmed, Given, RunsOK, RunOK
<1>9. Confirmed(a.of) \intersect r.issued = {}
  BY <1>7, <1>8, <1>r DEF RunOK
<1>10. /\ IsFiniteSet(Given(a.of)) /\ IsFiniteSet(Confirmed(a.of))
       /\ IsFiniteSet(r.granted) /\ IsFiniteSet(r.issued)
  BY <1>8, <1>r, RunFinite, FS_Subset DEF Tallied
<1>11. /\ IsFiniteSet(Given(b.of))
       /\ Cardinality(Given(b.of)) = Cardinality(Given(a.of)) + Cardinality(r.granted)
       /\ Cardinality(Confirmed(b.of)) = Cardinality(Confirmed(a.of)) + Cardinality(r.issued)
  <2>1. /\ IsFiniteSet(Given(a.of) \union r.granted)
        /\ Cardinality(Given(a.of) \union r.granted) =
              Cardinality(Given(a.of)) + Cardinality(r.granted)
    BY <1>7, <1>10, DisjointUnion
  <2>2. Cardinality(Confirmed(a.of) \union r.issued) =
              Cardinality(Confirmed(a.of)) + Cardinality(r.issued)
    BY <1>9, <1>10, DisjointUnion
  <2> QED BY <2>1, <2>2, <1>6
<1>12. b.totals.issued = Cardinality(Confirmed(b.of))
  BY <1>11 DEF Tallied
<1>13. Cardinality(Given(b.of)) <= b.totals.issued + Len(b.of) * (Tolerated + Slack)
  <2> DEFINE m == Tolerated + Slack
             t == Len(a.of) * m
  <2>1. /\ Cardinality(Given(a.of)) <= a.totals.issued + t
        /\ Cardinality(r.granted) <= Cardinality(r.issued) + r.lost + r.cut
        /\ r.lost <= Tolerated /\ r.cut <= Slack
    BY <1>r DEF Tallied, RunOK
  <2>2. /\ Cardinality(Given(a.of)) \in Nat /\ Cardinality(r.granted) \in Nat
        /\ Cardinality(r.issued) \in Nat /\ r.lost \in Nat /\ r.cut \in Nat
        /\ Tolerated \in Nat /\ Slack \in Nat /\ m \in Nat
    BY <1>10, <1>r, FS_CardinalityType DEF RunState, AggregateAssumption
  <2>3. Len(b.of) * m = t + m /\ t \in Nat
    <3> HIDE DEF m
    <3> QED BY <1>1, <1>of, <2>2
  <2>4. b.totals.issued = a.totals.issued + Cardinality(r.issued) /\ a.totals.issued \in Nat
    BY <1>of
  <2>5. Cardinality(Given(b.of)) = Cardinality(Given(a.of)) + Cardinality(r.granted)
    BY <1>11
  <2> DEFINE g == Cardinality(Given(a.of))
             h == Cardinality(r.granted)
             i == a.totals.issued
             j == Cardinality(r.issued)
             l == r.lost + r.cut
  <2> HIDE DEF t
  <2>6. g <= i + t /\ h <= j + l /\ l <= m
    BY <2>1, <2>2
  <2>7. g \in Nat /\ h \in Nat /\ i \in Nat /\ j \in Nat /\ l \in Nat /\ t \in Nat
        /\ m \in Nat
    BY <2>2, <2>3, <2>4
  <2> HIDE DEF g, h, i, j, l, m
  <2>8. g + h <= (i + j) + (t + m)
    BY <2>6, <2>7
  <2> QED BY <2>3, <2>4, <2>5, <2>8 DEF g, h, i, j, m
<1> QED BY <1>3, <1>4, <1>5, <1>11, <1>12, <1>13 DEF Tallied

\* What is loaded undisturbed after the digests were compared is of one execution.
LEMMA LoadedIsListed ==
  ASSUME Compared(aggregate)
  PROVE  /\ Loaded("runtime") = Listed /\ Loaded("summary") = Listed
         /\ Loaded("plan").plan = Listed.plan /\ Loaded("result").status = Listed.status
<1> DEFINE at(n) == bundles[Bundle][n]
           o == aggregate.objects
<1>1. \A n \in RequiredObjects : Digest(n, at(n)) = Digest(n, o)
  BY DEF Compared, Bundle
<1> HIDE DEF at, o
<1>2. at("runtime") = o
  BY <1>1 DEF Digest, RequiredObjects
<1>3. at("summary") = o
  BY <1>1 DEF Digest, RequiredObjects
<1>4. runs[at("plan")].plan = runs[o].plan
  BY <1>1 DEF Digest, RequiredObjects
<1>5. runs[at("result")].status = runs[o].status
  BY <1>1 DEF Digest, RequiredObjects
<1> QED BY <1>2, <1>3, <1>4, <1>5 DEF at, o, Loaded, Listed

\* A report of the totals as they are written is true.
LEMMA WrittenIsTrue ==
  ASSUME AggregateAssumption, RunsOK, NEW a \in AggregateState, Tallied(a),
         Cardinality(a.plans) = 1, \A p \in a.plans : a.totals.issued = p.stock,
         result' = [of |-> a.of, complete |-> TRUE], UNCHANGED runs
  PROVE  AggregateIsTrue'
<1> DEFINE S == Range(a.of)
<1>1. S \subseteq DOMAIN runs
  BY DEF Range, AggregateState
<1>2. Len(a.of) \in Nat /\ Tolerated + Slack \in Nat /\ Stock \in Nat
  BY DEF AggregateState, AggregateAssumption
<1>3. a.totals.issued = Stock
  <2>1. a.plans # {}
    BY FS_EmptySet
  <2>2. PICK p \in a.plans : TRUE
    BY <2>1
  <2> QED BY <2>2, PlanIs DEF AggregateState
<1>4. Confirmed(a.of) \subseteq Given(a.of)
  BY <1>1 DEF Confirmed, Given, RunsOK, RunOK
<1>5. /\ Cardinality(Confirmed(a.of)) = Stock
      /\ Cardinality(Given(a.of)) \in Stock..(Stock + Len(a.of) * (Tolerated + Slack))
  <2>1. Cardinality(Given(a.of)) \in Nat /\ Cardinality(Confirmed(a.of)) <= Cardinality(Given(a.of))
    BY <1>4, FS_Subset, FS_CardinalityType DEF Tallied
  <2> DEFINE t == Len(a.of) * (Tolerated + Slack)
  <2>2. t \in Nat
    BY <1>2
  <2>3. Cardinality(Given(a.of)) <= a.totals.issued + t
        /\ a.totals.issued = Cardinality(Confirmed(a.of))
    BY DEF Tallied
  <2> HIDE DEF t
  <2>4. Cardinality(Given(a.of)) \in Stock..(Stock + t)
    BY <2>1, <2>2, <2>3, <1>2, <1>3
  <2> QED BY <2>3, <2>4, <1>3 DEF t
<1>6. /\ Cardinality({ runs[i].gen : i \in S }) = Len(a.of)
      /\ Cardinality({ runs[i].plan : i \in S }) = 1
      /\ \A i \in S : runs[i].status = "completed" /\ runs[i].package = runs[i].plan.package
  BY DEF Tallied
<1>7. result'.of = a.of /\ runs' = runs
  OBVIOUS
<1>8. /\ Cardinality(UNION { runs'[i].issued : i \in Range(result'.of) }) = Stock
      /\ Cardinality(UNION { runs'[i].granted : i \in Range(result'.of) })
           \in Stock..(Stock + Len(result'.of) * (Tolerated + Slack))
  BY <1>5, <1>7, Zenon DEF Confirmed, Given
<1>9. /\ Cardinality({ runs'[i].gen : i \in Range(result'.of) }) = Len(result'.of)
      /\ Cardinality({ runs'[i].plan : i \in Range(result'.of) }) = 1
      /\ \A i \in Range(result'.of) :
            runs'[i].status = "completed" /\ runs'[i].package = runs'[i].plan.package
  BY <1>6, <1>7, Zenon
<1> QED BY <1>8, <1>9, Zenon DEF AggregateIsTrue

-----------------------------------------------------------------------------
LEMMA AggregateStart == ASSUME AggregateAssumption, AggregateInit PROVE AggregateInv
<1>1. runs \in Seq(RunState) /\ \A i \in DOMAIN runs : RunOK(runs[i])
  BY DEF AggregateInit
<1>2. ~result.complete
  BY DEF AggregateInit, Nothing
<1> QED BY <1>1, <1>2 DEF AggregateInit, AggregateInv, RunsOK, AggregateOK, AggregateIsTrue

\* While nothing has been collected there is nothing to aggregate.
LEMMA ExecutionKeeps ==
  ASSUME AggregateInv, bundles = << >>, RunsOK', UNCHANGED << bundles, aggregate, result, spoiled >>
  PROVE  AggregateInv'
<1>1. aggregate = NotStarted /\ ~result.complete
  BY DEF AggregateInv, AggregateOK
<1>2. aggregate' = NotStarted /\ ~result'.complete /\ bundles' = << >>
  BY <1>1
<1> QED BY <1>2 DEF AggregateInv, AggregateOK, AggregateIsTrue, NotStarted, Start

LEMMA ExecutionsKeep ==
  ASSUME AggregateAssumption, AggregateInv, AggregateNext,
         \/ \E g \in Generators, plan \in {ThePlan} \union OtherPlans,
               package \in {"package", "old"}, start \in {Len(runs) * Users, 0, 1} :
               Launch(g, plan, package, start)
         \/ \E i \in DOMAIN runs :
               \/ \E d \in Decisions, end \in {"counted", "lost", "cut"} : Iteration(i, d, end)
               \/ Dropped(i) \/ Ends(i)
  PROVE  AggregateInv'
<1> USE DEF AggregateInv
<1>1. ASSUME NEW g \in Generators, NEW plan \in {ThePlan} \union OtherPlans,
             NEW package \in {"package", "old"}, NEW start \in {Len(runs) * Users, 0, 1},
             Launch(g, plan, package, start)
      PROVE  AggregateInv'
  <2>1. RunsOK'
    BY <1>1, LaunchKeeps
  <2>2. bundles = << >> /\ UNCHANGED << bundles, aggregate, result, spoiled >>
    BY <1>1 DEF Launch
  <2> QED BY <2>1, <2>2, ExecutionKeeps
<1>2. ASSUME NEW i \in DOMAIN runs, runs[i].status = "running"
      PROVE  bundles = << >>
  BY <1>2 DEF Gathered
<1>3. ASSUME NEW i \in DOMAIN runs, NEW d \in Decisions, NEW end \in {"counted", "lost", "cut"},
             Iteration(i, d, end)
      PROVE  AggregateInv'
  <2>1. RunsOK'
    BY <1>3, IterationKeeps
  <2>2. bundles = << >> /\ UNCHANGED << bundles, aggregate, result, spoiled >>
    BY <1>2, <1>3 DEF Iteration
  <2> QED BY <2>1, <2>2, ExecutionKeeps
<1>4. ASSUME NEW i \in DOMAIN runs, Dropped(i)
      PROVE  AggregateInv'
  <2>1. RunsOK'
    BY <1>4, DroppedKeeps
  <2>2. bundles = << >> /\ UNCHANGED << bundles, aggregate, result, spoiled >>
    BY <1>2, <1>4 DEF Dropped
  <2> QED BY <2>1, <2>2, ExecutionKeeps
<1>5. ASSUME NEW i \in DOMAIN runs, Ends(i)
      PROVE  AggregateInv'
  <2>1. RunsOK'
    BY <1>5, EndsKeeps
  <2>2. bundles = << >> /\ UNCHANGED << bundles, aggregate, result, spoiled >>
    BY <1>2, <1>5 DEF Ends
  <2> QED BY <2>1, <2>2, ExecutionKeeps
<1> QED BY <1>1, <1>3, <1>4, <1>5

LEMMA CollectKeeps ==
  ASSUME AggregateInv, Collect
  PROVE  AggregateInv'
<1>1. aggregate' = NotStarted /\ ~result'.complete /\ runs' = runs
  BY DEF AggregateInv, AggregateOK, Collect
<1>2. Gathered'
  <2>1. Len(runs) \in Nat /\ DOMAIN runs = 1..Len(runs)
    BY DEF AggregateInv, RunsOK
  <2>2. bundles' = [i \in 1..Len(runs) |-> [n \in Files |-> i]]
    BY <2>1 DEF Collect
  <2>3. \A i \in 1..Len(runs) : [n \in Files |-> i] \in [Files -> DOMAIN runs]
    BY <2>1
  <2>4. bundles' \in Seq([Files -> DOMAIN runs]) /\ Len(bundles') = Len(runs)
    BY <2>1, <2>2, <2>3
  <2> QED BY <2>4, <1>1 DEF Gathered, Collect
<1>3. RunsOK'
  BY <1>1 DEF AggregateInv, RunsOK, RunOK
<1> QED BY <1>1, <1>2, <1>3 DEF AggregateInv, AggregateOK, AggregateIsTrue

\* Files that are exchanged while a bundle is read either spoil it or are others.
LEMMA BundlesKeep ==
  ASSUME AggregateInv, NEW b \in DOMAIN bundles, NEW f \in [Files -> DOMAIN runs],
         bundles' = [bundles EXCEPT ![b] = f], Spoils(b), UNCHANGED << runs, aggregate, result >>
  PROVE  AggregateInv'
<1>0. bundles # << >> /\ Gathered
  BY DEF AggregateInv
<1>1. /\ bundles' \in Seq([Files -> DOMAIN runs]) /\ Len(bundles') = Len(runs)
      /\ DOMAIN bundles' = DOMAIN bundles /\ bundles' # << >>
      /\ \A c \in DOMAIN bundles : c # b => bundles'[c] = bundles[c]
  BY <1>0 DEF Gathered
<1>2. Gathered' /\ RunsOK'
  BY <1>0, <1>1 DEF Gathered, RunsOK, RunOK, AggregateInv
<1>3. AggregateOK(aggregate)'
  <2> SUFFICES ASSUME aggregate # NotStarted
               PROVE  AggregateOK(aggregate)'
    BY DEF AggregateOK, NotStarted, Start
  <2>1. /\ aggregate \in AggregateState /\ aggregate.k \in DOMAIN aggregate.args
        /\ aggregate.pc = "load" => aggregate.objects \in DOMAIN runs
        /\ aggregate.pc \in {"open", "write"} =>
              /\ Cardinality(aggregate.plans) = 1
              /\ \A p \in aggregate.plans : aggregate.totals.issued = p.stock
    BY DEF AggregateInv, AggregateOK
  <2>2. (aggregate \in AggregateState)'
    BY <2>1, <1>1 DEF AggregateState, ThePlan, OtherPlans
  <2>3. ~spoiled' => Tallied(aggregate)'
    BY DEF Spoils, AggregateInv, AggregateOK, Tallied, Given, Confirmed
  <2>4. ASSUME aggregate.pc = "load", ~spoiled'
        PROVE  Compared(aggregate)'
    <3>1. ~spoiled /\ b # aggregate.args[aggregate.k]
      BY <2>4 DEF Spoils
    <3>2. aggregate.args[aggregate.k] \in DOMAIN bundles
      BY <2>1 DEF AggregateState
    <3>3. bundles'[aggregate.args[aggregate.k]] = bundles[aggregate.args[aggregate.k]]
      BY <3>1, <3>2, <1>1
    <3>4. Compared(aggregate)
      BY <3>1, <2>4 DEF AggregateInv, AggregateOK
    <3> QED BY <3>3, <3>4 DEF Compared, Digest
  <2> QED BY <2>1, <2>2, <2>3, <2>4, <1>1 DEF AggregateOK
<1>4. AggregateIsTrue'
  <2>1. spoiled => spoiled'
    BY DEF Spoils
  <2> QED BY <2>1 DEF AggregateInv, AggregateIsTrue
<1> QED BY <1>1, <1>2, <1>3, <1>4 DEF AggregateInv

LEMMA CopiesKeep ==
  ASSUME AggregateInv, NEW b \in DOMAIN bundles, NEW i \in DOMAIN bundles,
         CopyBundle(b, i) \/ \E n \in Files : MixUp(b, n, i)
  PROVE  AggregateInv'
<1>0. Gathered /\ bundles[b] \in [Files -> DOMAIN runs] /\ i \in DOMAIN runs
  BY DEF AggregateInv, Gathered, RunsOK
<1>1. CASE CopyBundle(b, i)
  <2>1. bundles[i] \in [Files -> DOMAIN runs]
    BY <1>0 DEF Gathered
  <2> QED BY <1>1, <2>1, BundlesKeep DEF CopyBundle
<1>2. ASSUME NEW n \in Files, MixUp(b, n, i) PROVE AggregateInv'
  <2> DEFINE f == [bundles[b] EXCEPT ![n] = i]
  <2>1. f \in [Files -> DOMAIN runs]
    BY <1>0
  <2>2. bundles' = [bundles EXCEPT ![b] = f]
    BY <1>2 DEF MixUp
  <2> HIDE DEF f
  <2> QED BY <1>2, <2>1, <2>2, BundlesKeep DEF MixUp
<1> QED BY <1>1, <1>2

-----------------------------------------------------------------------------
\* A step of the aggregation leaves the executions and the bundles alone.
LEMMA AggregationKeeps ==
  ASSUME AggregateInv, UNCHANGED << runs, bundles >>, AggregateOK(aggregate)',
         result'.complete => bundles # << >>, AggregateIsTrue'
  PROVE  AggregateInv'
BY DEF AggregateInv, RunsOK, RunOK, Gathered

\* The report on disk stays true while it and what it is about are untouched.
LEMMA ReportStays ==
  ASSUME AggregateInv, UNCHANGED << runs, result, spoiled >>
  PROVE  AggregateIsTrue' /\ (result'.complete => bundles # << >>)
BY DEF AggregateInv, AggregateIsTrue

LEMMA RefuseKeeps ==
  ASSUME AggregateInv, Refuse, UNCHANGED << runs, bundles, result, spoiled >>
  PROVE  AggregateInv'
<1>1. AggregateOK(aggregate)'
  BY DEF Refuse, AggregateOK, NotStarted, Start
<1> QED BY <1>1, ReportStays, AggregationKeeps

LEMMA InvokeKeeps ==
  ASSUME AggregateAssumption, AggregateInv, NEW args \in Arguments, Invoke(args)
  PROVE  AggregateInv'
<1>1. PICK m \in 2..Len(bundles) : args \in [1..m -> DOMAIN bundles]
  BY DEF Arguments
<1>2. bundles # << >> /\ Gathered /\ m \in Nat /\ m >= 2
  <2>1. bundles # << >>
    <3> SUFFICES ASSUME bundles = << >> PROVE FALSE
      OBVIOUS
    <3>1. Len(bundles) = 0
      OBVIOUS
    <3> QED BY <1>1, <3>1
  <2>2. Gathered /\ Len(bundles) \in Nat
    BY <2>1 DEF AggregateInv, Gathered
  <2> QED BY <1>1, <2>1, <2>2
<1>3. args \in Seq(DOMAIN bundles) /\ 1 \in DOMAIN args
  BY <1>1, <1>2
<1>4. ~result'.complete /\ aggregate' = Start(args) /\ bundles' = bundles /\ runs' = runs
  BY DEF Invoke, Nothing, Partial
<1>5. (aggregate \in AggregateState)'
  BY <1>3, <1>4, <1>1, <1>2 DEF Start, AggregateState
<1>6. Tallied(aggregate)'
  <2>1. Range(<< >>) = {}
    BY DEF Range
  <2>2. Len(<< >>) = 0 /\ IsFiniteSet({}) /\ Cardinality({}) = 0 /\ 0 * (Tolerated + Slack) = 0
    BY FS_EmptySet DEF AggregateAssumption
  <2>3. Start(args).of = << >> /\ Start(args).slots = {} /\ Start(args).starts = {}
        /\ Start(args).plans = {} /\ Start(args).totals.issued = 0
    BY DEF Start
  <2>4. aggregate'.of = << >> /\ aggregate'.slots = {} /\ aggregate'.starts = {}
        /\ aggregate'.plans = {} /\ aggregate'.totals.issued = 0
    BY <1>4, <2>3
  <2>5. Range(aggregate'.of) = {} /\ Len(aggregate'.of) = 0
    BY <2>1, <2>2, <2>4
  <2>6. Given(aggregate.of)' = {} /\ Confirmed(aggregate.of)' = {}
    BY <2>5 DEF Given, Confirmed
  <2>7. /\ { runs'[i].gen : i \in Range(aggregate'.of) } = {}
        /\ { runs'[i].start : i \in Range(aggregate'.of) } = {}
        /\ { runs'[i].plan : i \in Range(aggregate'.of) } = {}
    BY <2>5
  <2>8. /\ IsFiniteSet(aggregate'.slots) /\ Cardinality(aggregate'.slots) = Len(aggregate'.of)
        /\ IsFiniteSet(Given(aggregate.of)')
        /\ aggregate'.totals.issued = Cardinality(Confirmed(aggregate.of)')
        /\ Cardinality(Given(aggregate.of)')
              <= aggregate'.totals.issued + Len(aggregate'.of) * (Tolerated + Slack)
    <3>1. Cardinality(aggregate'.slots) = 0 /\ Cardinality(Given(aggregate.of)') = 0
          /\ Cardinality(Confirmed(aggregate.of)') = 0
      BY <2>2, <2>4, <2>6
    <3>2. Len(aggregate'.of) * (Tolerated + Slack) = 0
      BY <2>2, <2>5
    <3>3. IsFiniteSet(aggregate'.slots) /\ IsFiniteSet(Given(aggregate.of)')
      BY <2>2, <2>4, <2>6
    <3> QED BY <3>1, <3>2, <3>3, <2>4, <2>5
  <2> QED BY <2>4, <2>5, <2>7, <2>8 DEF Tallied
<1>7. AggregateOK(aggregate)'
  BY <1>2, <1>3, <1>4, <1>5, <1>6 DEF AggregateOK, Start
<1>8. AggregateIsTrue'
  BY <1>4 DEF AggregateIsTrue
<1> QED BY <1>4, <1>7, <1>8, AggregationKeeps

LEMMA HashKeeps ==
  ASSUME AggregateInv, HashBundle
  PROVE  AggregateInv'
<1>1. CASE ~Matches(Bundle)
  BY <1>1, RefuseKeeps DEF HashBundle
<1>2. CASE Matches(Bundle)
  <2> DEFINE a == aggregate
             o == bundles[Bundle]["manifest"]
  <2>0. a # NotStarted
    BY NotStartedIs DEF HashBundle
  <2>1. /\ a \in AggregateState /\ bundles # << >> /\ Gathered /\ a.k \in DOMAIN a.args
        /\ ~spoiled => Tallied(a)
    BY <2>0 DEF AggregateInv, AggregateOK
  <2>2. o \in DOMAIN runs
    BY <2>1 DEF AggregateState, Bundle, Gathered, Files
  <2>3. aggregate' = [a EXCEPT !.pc = "load", !.objects = o]
    BY <1>2 DEF HashBundle
  <2>4. aggregate' \in AggregateState /\ aggregate'.pc = "load" /\ aggregate'.objects = o
        /\ aggregate'.k = a.k /\ aggregate'.args = a.args /\ aggregate'.of = a.of
        /\ aggregate'.slots = a.slots /\ aggregate'.starts = a.starts
        /\ aggregate'.plans = a.plans /\ aggregate'.totals = a.totals
    BY <2>1, <2>2, <2>3 DEF AggregateState
  <2>5. UNCHANGED << runs, bundles, result, spoiled >>
    BY DEF HashBundle
  <2>6. (aggregate \in AggregateState)'
    BY <2>4, <2>5 DEF AggregateState
  <2>7. ~spoiled' => Tallied(aggregate)'
    BY <2>1, <2>4, <2>5 DEF Tallied, Given, Confirmed
  <2>8. Compared(aggregate)'
    BY <1>2, <2>4, <2>5 DEF Compared, Matches, Digest, Bundle
  <2>9. AggregateOK(aggregate)'
    BY <2>1, <2>2, <2>4, <2>5, <2>6, <2>7, <2>8 DEF AggregateOK
  <2> QED BY <2>5, <2>9, ReportStays, AggregationKeeps
<1> QED BY <1>1, <1>2

\* A bundle that fits is counted as the one execution its files are of, unless
\* it was spoiled.
LEMMA LoadKeeps ==
  ASSUME AggregateAssumption, AggregateInv, LoadBundle
  PROVE  AggregateInv'
<1> DEFINE a == aggregate
           summary == Loaded("summary")
           runtime == Loaded("runtime")
<1>0. a # NotStarted /\ UNCHANGED << runs, bundles, result, spoiled >>
  BY NotStartedIs DEF LoadBundle
<1>1. /\ a \in AggregateState /\ bundles # << >> /\ Gathered /\ a.k \in DOMAIN a.args
      /\ RunsOK /\ a.objects \in DOMAIN runs
      /\ ~spoiled => Tallied(a) /\ Compared(a)
  BY <1>0 DEF AggregateInv, AggregateOK, LoadBundle
<1>2. CASE Refuse
  BY <1>0, <1>2, RefuseKeeps
<1>3. ASSUME ~Refuse PROVE AggregateInv'
  <2> DEFINE q == IF a.k = Len(a.args) THEN "report" ELSE "hash"
             k == IF a.k = Len(a.args) THEN a.k ELSE a.k + 1
             b == [a EXCEPT !.pc = q, !.k = k, !.of = Append(@, a.objects),
                     !.slots = @ \union {runtime.gen}, !.starts = @ \union {runtime.start},
                     !.plans = @ \union {Loaded("plan").plan}, !.totals = Sum(summary)]
  <2>1. /\ PlanHolds /\ Loaded("plan").plan.package = Listed.package
        /\ RuntimeHolds /\ ExecutionHolds /\ Reconciles(summary) /\ Fits(runtime)
        /\ ThresholdsPass(summary) /\ aggregate' = b
    BY <1>3 DEF LoadBundle
  <2>2. \A n \in Files : bundles[Bundle][n] \in DOMAIN runs
    BY <1>1 DEF AggregateState, Bundle, Gathered
  <2>3. /\ summary \in RunState /\ RunOK(summary) /\ runtime \in RunState
        /\ Loaded("plan") \in RunState
    BY <1>1, <2>2 DEF RunsOK, Loaded, Files, RequiredObjects
  <2>4. Sum(summary) \in [issued : Nat, sold_out : Nat, duplicate : Nat, dropped : Nat]
        /\ Sum(summary).issued = a.totals.issued + Cardinality(summary.issued)
    <3>1. Cardinality(summary.issued) \in Nat
      BY <2>3, RunFinite
    <3>2. a.totals \in [issued : Nat, sold_out : Nat, duplicate : Nat, dropped : Nat]
      BY <1>1 DEF AggregateState
    <3>3. summary.sold_out \in Nat /\ summary.duplicate \in Nat /\ summary.dropped \in Nat
      BY <2>3 DEF RunState
    <3> HIDE DEF summary
    <3> QED BY <3>1, <3>2, <3>3 DEF Sum
  <2>5. k \in DOMAIN a.args /\ k \in Nat /\ q \in {"hash", "report"}
    BY <1>1 DEF AggregateState
  <2>6. /\ b.pc = q /\ b.k = k /\ b.args = a.args /\ b.objects = a.objects
        /\ b.of = Append(a.of, a.objects) /\ b.slots = a.slots \union {runtime.gen}
        /\ b.starts = a.starts \union {runtime.start}
        /\ b.plans = a.plans \union {Loaded("plan").plan} /\ b.totals = Sum(summary)
        /\ DOMAIN b = DOMAIN a /\ b = [x \in DOMAIN b |-> b[x]]
    BY <1>1 DEF AggregateState
  <2>7. /\ a.of \in Seq(DOMAIN runs) /\ a.slots \in SUBSET Generators /\ a.starts \in SUBSET Nat
        /\ a.plans \in SUBSET ({ThePlan} \union OtherPlans) /\ a.args \in Seq(DOMAIN bundles)
        /\ DOMAIN a = {"pc", "args", "k", "objects", "of", "slots", "starts", "plans", "totals"}
    BY <1>1 DEF AggregateState
  <2>8. runtime.gen \in Generators /\ runtime.start \in Nat
        /\ Loaded("plan").plan \in {ThePlan} \union OtherPlans
    BY <2>3 DEF RunState
  <2> HIDE DEF b, q, k, runtime, summary
  <2>9. b.of \in Seq(DOMAIN runs)
    BY <1>1, <2>6, <2>7
  <2>10. b \in AggregateState
    BY <1>1, <2>4, <2>5, <2>6, <2>7, <2>8, <2>9 DEF AggregateState
  <2>11. ASSUME ~spoiled PROVE Tallied(b)
    <3>1. /\ runtime = runs[a.objects] /\ summary = runs[a.objects]
          /\ Loaded("plan").plan = runs[a.objects].plan
          /\ Loaded("result").status = runs[a.objects].status
      BY <1>1, <2>11, LoadedIsListed DEF runtime, summary, Listed
    <3>2. /\ runs[a.objects].status = "completed"
          /\ runs[a.objects].package = runs[a.objects].plan.package
      BY <2>1, <3>1 DEF ExecutionHolds, Listed
    <3>3. /\ runs[a.objects].gen \notin a.slots
          /\ runs[a.objects].lost <= Tolerated /\ runs[a.objects].cut <= Slack
          /\ \A s \in a.starts : \/ runs[a.objects].start + Users <= s
                                 \/ s + Users <= runs[a.objects].start
      BY <2>1, <2>3, <3>1, CutWithinSlack DEF Fits, ThresholdsPass
    <3>4. Tallied(a)
      BY <1>1, <2>11
    <3>5. /\ b.of = Append(a.of, a.objects) /\ b.slots = a.slots \union {runs[a.objects].gen}
          /\ b.starts = a.starts \union {runs[a.objects].start}
          /\ b.plans = a.plans \union {runs[a.objects].plan}
          /\ b.totals.issued = a.totals.issued + Cardinality(runs[a.objects].issued)
      BY <2>4, <2>6, <3>1
    <3> HIDE DEF a
    <3> QED BY <1>1, <3>2, <3>3, <3>4, <3>5, OneMoreCounts
  <2>12. (aggregate \in AggregateState)'
    BY <1>0, <2>1, <2>10 DEF AggregateState
  <2>13. ~spoiled' => Tallied(aggregate)'
    BY <1>0, <2>1, <2>11 DEF Tallied, Given, Confirmed
  <2>14. AggregateOK(aggregate)'
    BY <1>0, <1>1, <2>1, <2>5, <2>6, <2>12, <2>13 DEF AggregateOK
  <2> QED BY <1>0, <2>14, ReportStays, AggregationKeeps
<1> QED BY <1>2, <1>3

LEMMA ReportKeeps ==
  ASSUME AggregateInv, Report
  PROVE  AggregateInv'
<1> DEFINE a == aggregate
<1>0. a # NotStarted /\ UNCHANGED << runs, bundles, result, spoiled >>
  BY NotStartedIs DEF Report
<1>1. /\ a \in AggregateState /\ bundles # << >> /\ a.k \in DOMAIN a.args
      /\ ~spoiled => Tallied(a)
  BY <1>0 DEF AggregateInv, AggregateOK
<1>2. CASE Refuse
  BY <1>0, <1>2, RefuseKeeps
<1>3. ASSUME ~Refuse PROVE AggregateInv'
  <2>1. /\ Cardinality(a.plans) = 1 /\ \A p \in a.plans : a.totals.issued = p.stock
        /\ aggregate' = [a EXCEPT !.pc = "open"]
    BY <1>3 DEF Report
  <2>2. /\ aggregate' \in AggregateState /\ aggregate'.pc = "open" /\ aggregate'.k = a.k
        /\ aggregate'.args = a.args /\ aggregate'.of = a.of /\ aggregate'.slots = a.slots
        /\ aggregate'.starts = a.starts /\ aggregate'.plans = a.plans
        /\ aggregate'.totals = a.totals
    BY <1>1, <2>1 DEF AggregateState
  <2>3. (aggregate \in AggregateState)'
    BY <1>0, <2>2 DEF AggregateState
  <2>4. ~spoiled' => Tallied(aggregate)'
    BY <1>0, <1>1, <2>2 DEF Tallied, Given, Confirmed
  <2>5. AggregateOK(aggregate)'
    BY <1>0, <1>1, <2>1, <2>2, <2>3, <2>4 DEF AggregateOK
  <2> QED BY <1>0, <2>5, ReportStays, AggregationKeeps
<1> QED BY <1>2, <1>3 DEF Report

LEMMA OpenKeeps ==
  ASSUME AggregateInv, OpenReport
  PROVE  AggregateInv'
<1> DEFINE a == aggregate
<1>0. a # NotStarted /\ UNCHANGED << runs, bundles, spoiled >>
  BY NotStartedIs DEF OpenReport
<1>1. /\ a \in AggregateState /\ bundles # << >> /\ a.k \in DOMAIN a.args
      /\ ~spoiled => Tallied(a)
      /\ Cardinality(a.plans) = 1 /\ \A p \in a.plans : a.totals.issued = p.stock
  BY <1>0 DEF AggregateInv, AggregateOK, OpenReport
<1>2. CASE result # Nothing
  BY <1>0, <1>2, RefuseKeeps DEF OpenReport
<1>3. CASE result = Nothing
  <2>1. ~result'.complete /\ aggregate' = [a EXCEPT !.pc = "write"]
    BY <1>3 DEF OpenReport, Partial
  <2>2. /\ aggregate' \in AggregateState /\ aggregate'.pc = "write" /\ aggregate'.k = a.k
        /\ aggregate'.args = a.args /\ aggregate'.of = a.of /\ aggregate'.slots = a.slots
        /\ aggregate'.starts = a.starts /\ aggregate'.plans = a.plans
        /\ aggregate'.totals = a.totals
    BY <1>1, <2>1 DEF AggregateState
  <2>3. (aggregate \in AggregateState)'
    BY <1>0, <2>2 DEF AggregateState
  <2>4. ~spoiled' => Tallied(aggregate)'
    BY <1>0, <1>1, <2>2 DEF Tallied, Given, Confirmed
  <2>5. AggregateOK(aggregate)'
    BY <1>0, <1>1, <2>2, <2>3, <2>4 DEF AggregateOK
  <2>6. AggregateIsTrue'
    BY <2>1 DEF AggregateIsTrue
  <2> QED BY <1>0, <2>1, <2>5, <2>6, AggregationKeeps
<1> QED BY <1>2, <1>3

LEMMA WriteReportKeeps ==
  ASSUME AggregateAssumption, AggregateInv, WriteReport
  PROVE  AggregateInv'
<1> DEFINE a == aggregate
<1>0. a # NotStarted /\ UNCHANGED << runs, bundles, spoiled >>
  BY NotStartedIs DEF WriteReport
<1>1. /\ a \in AggregateState /\ bundles # << >> /\ RunsOK
      /\ ~spoiled => Tallied(a)
      /\ Cardinality(a.plans) = 1 /\ \A p \in a.plans : a.totals.issued = p.stock
  BY <1>0 DEF AggregateInv, AggregateOK, WriteReport
<1>2. result' = [of |-> a.of, complete |-> TRUE] /\ Refuse
  BY DEF WriteReport
<1>3. spoiled => AggregateIsTrue'
  BY <1>0 DEF AggregateIsTrue
<1>4. ~spoiled => AggregateIsTrue'
  BY <1>0, <1>1, <1>2, WrittenIsTrue
<1>5. AggregateIsTrue'
  BY <1>3, <1>4
<1>6. AggregateOK(aggregate)'
  BY <1>2 DEF Refuse, AggregateOK, NotStarted, Start
<1> QED BY <1>0, <1>1, <1>5, <1>6, AggregationKeeps

LEMMA AggregateKeeps ==
  ASSUME AggregateAssumption, AggregateInv, [AggregateNext]_aggregateVars
  PROVE  AggregateInv'
<1>1. CASE UNCHANGED aggregateVars
  <2>1. UNCHANGED << left, runs, bundles, aggregate, result, spoiled, slips >>
    BY <1>1 DEF aggregateVars
  <2>2. AggregateOK(aggregate)'
    <3>1. (aggregate \in AggregateState)' <=> aggregate \in AggregateState
      BY <2>1 DEF AggregateState
    <3>2. Tallied(aggregate)' <=> Tallied(aggregate)
      BY <2>1 DEF Tallied, Given, Confirmed
    <3>3. Compared(aggregate)' <=> Compared(aggregate)
      BY <2>1 DEF Compared, Digest
    <3>4. AggregateOK(aggregate)
      BY DEF AggregateInv
    <3> QED BY <2>1, <3>1, <3>2, <3>3, <3>4 DEF AggregateOK, NotStarted, Start
  <2> QED BY <2>1, <2>2, ReportStays, AggregationKeeps
<1>2. CASE \/ \E g \in Generators, plan \in {ThePlan} \union OtherPlans,
                 package \in {"package", "old"}, start \in {Len(runs) * Users, 0, 1} :
                 Launch(g, plan, package, start)
           \/ \E i \in DOMAIN runs :
                 \/ \E d \in Decisions, end \in {"counted", "lost", "cut"} : Iteration(i, d, end)
                 \/ Dropped(i) \/ Ends(i)
  BY <1>2, ExecutionsKeep DEF AggregateNext
<1>3. CASE Collect
  BY <1>3, CollectKeeps
<1>4. CASE \E b, i \in DOMAIN bundles : CopyBundle(b, i) \/ \E n \in Files : MixUp(b, n, i)
  BY <1>4, CopiesKeep
<1>5. CASE \E args \in Arguments : Invoke(args)
  BY <1>5, InvokeKeeps
<1>6. CASE HashBundle
  BY <1>6, HashKeeps
<1>7. CASE LoadBundle
  BY <1>7, LoadKeeps
<1>8. CASE Report
  BY <1>8, ReportKeeps
<1>9. CASE OpenReport
  BY <1>9, OpenKeeps
<1>10. CASE WriteReport
  BY <1>10, WriteReportKeeps
<1>11. CASE KillAggregate
  BY <1>11, RefuseKeeps DEF KillAggregate
<1> QED
  BY <1>1, <1>2, <1>3, <1>4, <1>5, <1>6, <1>7, <1>8, <1>9, <1>10, <1>11 DEF AggregateNext

\* A report that was not spoiled is true, for any number of generators, users,
\* executions and slips, whatever the stock, the tolerance and the slack.
THEOREM AggregateReported == AggregateSpec => []AggregateIsTrue
<1>1. AggregateInit => AggregateInv
  BY AggregateAssumption, AggregateStart
<1>2. AggregateInv /\ [AggregateNext]_aggregateVars => AggregateInv'
  BY AggregateAssumption, AggregateKeeps
<1>3. AggregateInv => AggregateIsTrue
  BY DEF AggregateInv
<1> QED BY <1>1, <1>2, <1>3, PTL DEF AggregateSpec

===============================================================================
