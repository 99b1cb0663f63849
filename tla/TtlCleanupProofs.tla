---------------------------- MODULE TtlCleanupProofs ----------------------------
(***************************************************************************)
(* The TTL cleanup proved for any account, any number of extensions,       *)
(* failing calls, kills and restarts, and any clock.                       *)
(*                                                                          *)
(* Nothing is stopped early because what is about to be stopped has been   *)
(* looked at since this invocation began, which was after its expiry       *)
(* (LookedAt).  A failure is reported because, until the end, what was due *)
(* and is not reported yet is still ahead of the loop (Tracked).           *)
(***************************************************************************)
EXTENDS TtlCleanup, TLAPS

LookedAt ==
    /\ run.pc # "idle" => run.text <= clock
    /\ \A r \in run.checked : r \in Own /\ (tag[r] = run.text \/ r \in retagged)
    /\ run.pc = "ec2-stop" => run.found \subseteq run.checked \intersect Instances
    /\ run.pc \in {"rds-tags", "rds-stop"} => run.found \subseteq Databases

Reported(r) == r \in run.failures \/ ScopesOf(r) \intersect run.failures # {}

\* The invocation will still come to the resource.
Ahead(r) ==
    \/ run.pc \in {"ec2-client", "ec2-discovery"}
    \/ run.pc \in {"rds-client", "rds-discovery"} /\ r \in Databases
    \/ run.pc = "ec2-stop" /\ r \in Databases \union run.found
    \/ run.pc \in {"rds-tags", "rds-stop"} /\ r \in run.found

Tracked ==
    /\ run.pc = "idle" => due = {}
    /\ \A r \in due :
          /\ r \in Own /\ (r \in Databases => enableRds)
          /\ \/ Reported(r)
             \/ status[r] = "running" /\ tag[r] = run.text /\ Ahead(r)

CleanupInv == CleanupTypeOK /\ LookedAt /\ Tracked

Pcs == {"idle", "over", "ec2-stop", "rds-tags", "rds-stop"} \union Scopes

RunType == [pc : Pcs, text : Nat, found : SUBSET Resources, checked : SUBSET Resources,
            failures : SUBSET (Scopes \union Resources)]

-----------------------------------------------------------------------------
\* Types.
LEMMA CleanupTypeStep == CleanupTypeOK /\ [CleanupNext]_cleanupVars => CleanupTypeOK'
<1> SUFFICES ASSUME CleanupTypeOK, [CleanupNext]_cleanupVars PROVE CleanupTypeOK'
  OBVIOUS
<1> USE CleanupAssumption
<1>run. run \in RunType
  BY DEF CleanupTypeOK, RunType, Pcs
<1>idle. Idle0 \in RunType
  BY DEF Idle0, RunType, Pcs
<1>new. ASSUME run' \in RunType, UNCHANGED config, clock' \in Nat,
               status' \in [Resources -> {"running", "busy", "stopped"}],
               due' \subseteq Own, retagged' \subseteq Own,
               spent' \in [failures : Nat, restarts : Nat]
        PROVE  CleanupTypeOK'
  BY <1>new DEF CleanupTypeOK, config, RunType, Pcs
<1>cnt. CallFails => spent' \in [failures : Nat, restarts : Nat]
  BY DEF CallFails, CleanupTypeOK
<1>aft. AfterEc2 \in Pcs
  BY DEF AfterEc2, Pcs, Scopes
<1>spent. spent' = [spent EXCEPT !.restarts = spent.restarts + 1]
            => spent' \in [failures : Nat, restarts : Nat]
  BY DEF CleanupTypeOK
<1>stop. ASSUME NEW r \in Resources, NEW failures \in SUBSET (Scopes \union Resources),
                StopDone(r, failures)
         PROVE  run' \in RunType
  BY <1>stop, <1>run DEF StopDone, RunType, Pcs
<1>more. \A r \in Resources : run.failures \union {r} \in SUBSET (Scopes \union Resources)
  BY <1>run DEF RunType
<1>1. ASSUME Tick PROVE CleanupTypeOK'
  BY <1>1, <1>run, <1>new DEF Tick, CleanupTypeOK
<1>2. ASSUME Extend PROVE CleanupTypeOK'
  BY <1>2 DEF Extend, CleanupTypeOK
<1>3. ASSUME ApplyPolicy PROVE CleanupTypeOK'
  BY <1>3 DEF ApplyPolicy, CleanupTypeOK
<1>4. ASSUME ApplyEnv PROVE CleanupTypeOK'
  BY <1>4 DEF ApplyEnv, CleanupTypeOK
<1>5. ASSUME NEW r \in Own, ApplyTag(r) PROVE CleanupTypeOK'
  BY <1>5 DEF ApplyTag, CleanupTypeOK
<1>6. ASSUME NEW d \in Databases, DatabaseBusy(d) PROVE CleanupTypeOK'
  BY <1>6, <1>run, <1>new, <1>spent DEF Resources, DatabaseBusy, CleanupTypeOK
<1>7. ASSUME NEW d \in Databases, DatabaseSettles(d) PROVE CleanupTypeOK'
  BY <1>7, <1>run, <1>new DEF DatabaseSettles, CleanupTypeOK
<1>8. ASSUME NEW r \in Resources, Restart(r) PROVE CleanupTypeOK'
  BY <1>8, <1>run, <1>new, <1>spent DEF Restart, CleanupTypeOK
<1>9. ASSUME NotExpired \/ UNCHANGED cleanupVars PROVE CleanupTypeOK'
  BY <1>9 DEF NotExpired, cleanupVars, config, CleanupTypeOK
<1>10. ASSUME Begin PROVE CleanupTypeOK'
  <2>1. run' \in RunType
    BY <1>10, <1>idle DEF Begin, RunType, Pcs, Scopes, CleanupTypeOK
  <2> QED
    BY <1>10, <2>1, <1>new DEF Begin, CleanupTypeOK
<1>11. ASSUME Ec2Client \/ Ec2Over \/ RdsClient \/ RdsOver PROVE CleanupTypeOK'
  <2>1. run' \in RunType
    BY <1>11, <1>run, <1>aft DEF Ec2Client, Ec2Over, RdsClient, RdsOver, Goto, RunType, Pcs, Scopes
  <2> QED
    BY <1>11, <2>1, <1>new DEF Ec2Client, Ec2Over, RdsClient, RdsOver, CleanupTypeOK
<1>12. ASSUME Ec2Discovery PROVE CleanupTypeOK'
  <2>1. run' \in RunType
    BY <1>12, <1>run DEF Ec2Discovery, RunType, Pcs, Resources
  <2> QED
    BY <1>12, <2>1, <1>new DEF Ec2Discovery, CleanupTypeOK
<1>13. ASSUME Ec2Fails \/ RdsFails PROVE CleanupTypeOK'
  <2>1. run.pc \in Scopes
    BY <1>13 DEF Ec2Fails, RdsFails, Scopes
  <2>2. PICK pc \in Pcs : run' = [run EXCEPT !.pc = pc, !.failures = @ \union {run.pc}]
    BY <1>13, <1>aft DEF Ec2Fails, RdsFails, Pcs
  <2>3. run.failures \union {run.pc} \in SUBSET (Scopes \union Resources)
    BY <2>1, <1>run DEF RunType
  <2>4. run' \in RunType
    BY <2>2, <2>3, <1>run DEF RunType
  <2> QED
    BY <1>13, <2>4, <1>new, <1>cnt DEF Ec2Fails, RdsFails, CleanupTypeOK
<1>14. ASSUME RdsDiscovery PROVE CleanupTypeOK'
  <2>1. run' \in RunType
    BY <1>14, <1>run DEF RdsDiscovery, RunType, Pcs, Resources
  <2> QED
    BY <1>14, <2>1, <1>new DEF RdsDiscovery, CleanupTypeOK
<1>15. ASSUME NEW d \in Databases, RdsTags(d) PROVE CleanupTypeOK'
  <2>1. run' \in RunType
    BY <1>15, <1>run DEF RdsTags, RunType, Pcs, Resources
  <2> QED
    BY <1>15, <2>1, <1>new DEF RdsTags, CleanupTypeOK
<1>16. ASSUME NEW d \in Databases, RdsTagsFail(d) PROVE CleanupTypeOK'
  <2>1. run.failures \union {d} \in SUBSET (Scopes \union Resources)
    BY <1>run DEF RunType, Resources
  <2>2. run' = [run EXCEPT !.found = run.found \ {d}, !.failures = run.failures \union {d}]
    BY <1>16 DEF RdsTagsFail
  <2>3. run' \in RunType
    BY <2>1, <2>2, <1>run DEF RunType
  <2> QED
    BY <1>16, <2>3, <1>new, <1>cnt DEF RdsTagsFail, CleanupTypeOK
<1>17. ASSUME NEW r \in Resources, Stop(r) PROVE CleanupTypeOK'
  <2>1. run' \in RunType
    <3>1. run.failures \in SUBSET (Scopes \union Resources)
      BY <1>run DEF RunType
    <3> QED
      BY <1>17, <3>1, <1>stop, <1>more DEF Stop
  <2> QED
    BY <1>17, <2>1, <1>new DEF Stop, CleanupTypeOK
<1>18. ASSUME NEW r \in Resources, StopFails(r) PROVE CleanupTypeOK'
  <2>1. run' \in RunType
    BY <1>18, <1>stop, <1>more DEF StopFails
  <2> QED
    BY <1>18, <2>1, <1>new, <1>cnt DEF StopFails, CleanupTypeOK
<1>19. ASSUME Finish PROVE CleanupTypeOK'
  BY <1>19, <1>idle, <1>new DEF Finish, CleanupTypeOK
<1>20. ASSUME Killed PROVE CleanupTypeOK'
  BY <1>20, <1>idle, <1>new, <1>cnt DEF Killed, CleanupTypeOK
<1> QED
  BY <1>1, <1>2, <1>3, <1>4, <1>5, <1>6, <1>7, <1>8, <1>9, <1>10, <1>11, <1>12, <1>13, <1>14,
     <1>15, <1>16, <1>17, <1>18, <1>19, <1>20 DEF CleanupNext, HandlerStep

-----------------------------------------------------------------------------
\* An invocation only goes on to stop what it has looked at.
LEMMA LookedAtStep ==
  CleanupTypeOK /\ LookedAt /\ [CleanupNext]_cleanupVars => LookedAt'
<1> SUFFICES ASSUME CleanupTypeOK, LookedAt, [CleanupNext]_cleanupVars PROVE LookedAt'
  OBVIOUS
<1> USE CleanupAssumption
<1>run. run \in RunType /\ clock \in Nat /\ env \in Nat
  BY DEF CleanupTypeOK, RunType, Pcs
\* A step of the handler's that looks at nothing new.
<1>same. ASSUME UNCHANGED << clock, tag, retagged >>, run'.text = run.text,
                run'.checked = run.checked, run'.found \subseteq run.found,
                run.pc # "idle",
                run'.pc = "ec2-stop" => run.pc = "ec2-stop",
                run'.pc \in {"rds-tags", "rds-stop"} => run.pc \in {"rds-tags", "rds-stop"}
         PROVE  LookedAt'
  BY <1>same DEF LookedAt
<1>over. ASSUME run' = Idle0 PROVE LookedAt'
  BY <1>over DEF LookedAt, Idle0
<1>1. ASSUME Tick PROVE LookedAt'
  <2>1. run' = run /\ tag' = tag /\ retagged' = retagged /\ clock' >= clock
    BY <1>1, <1>run DEF Tick, config
  <2>2. clock' \in Nat /\ run.text \in Nat
    BY <1>1, <1>run DEF Tick, RunType
  <2>3. run'.pc # "idle" => run'.text <= clock'
    BY <2>1, <2>2, <1>run DEF LookedAt
  <2> QED
    BY <2>1, <2>3 DEF LookedAt
<1>2. ASSUME UNCHANGED << clock, tag, run, retagged >> PROVE LookedAt'
  BY <1>2 DEF LookedAt
<1>3. ASSUME NEW r \in Own, ApplyTag(r) PROVE LookedAt'
  <2>1. \A q \in Own \ {r} : tag'[q] = tag[q]
    BY <1>3 DEF ApplyTag, CleanupTypeOK
  <2>2. ASSUME NEW q \in run.checked
        PROVE  q \in Own /\ (tag'[q] = run.text \/ q \in retagged')
    BY <1>3, <2>1, <2>2 DEF ApplyTag, LookedAt
  <2> QED
    BY <1>3, <2>2 DEF ApplyTag, LookedAt
<1>4. ASSUME Begin PROVE LookedAt'
  <2>1. run' = [Idle0 EXCEPT !.pc = "ec2-client", !.text = env] /\ env <= clock
        /\ clock' = clock
    BY <1>4, <1>run DEF Begin
  <2> QED
    BY <2>1 DEF LookedAt, Idle0
<1>5. ASSUME Ec2Client \/ Ec2Over \/ RdsClient \/ RdsOver PROVE LookedAt'
  BY <1>5, <1>run, <1>same
     DEF Ec2Client, Ec2Over, RdsClient, RdsOver, Goto, AfterEc2, RunType, config
<1>6. ASSUME Ec2Fails \/ RdsFails PROVE LookedAt'
  BY <1>6, <1>run, <1>same DEF Ec2Fails, RdsFails, AfterEc2, RunType, config
<1>7. ASSUME Ec2Discovery PROVE LookedAt'
  <2> DEFINE ids == { i \in Instances : Matches(i) /\ status[i] = "running" }
  <2>1. run' = [run EXCEPT !.pc = "ec2-stop", !.found = ids, !.checked = ids]
        /\ UNCHANGED << clock, tag, retagged >> /\ run.pc # "idle"
    BY <1>7 DEF Ec2Discovery, config
  <2>2. \A r \in ids : r \in Own /\ tag[r] = run.text
    BY DEF Matches, Own, Resources
  <2>3. /\ run'.pc = "ec2-stop" /\ run'.text = run.text
        /\ run'.found = ids /\ run'.checked = ids
    BY <2>1, <1>run DEF RunType
  <2> QED
    BY <2>1, <2>2, <2>3 DEF LookedAt
<1>8. ASSUME RdsDiscovery PROVE LookedAt'
  <2>1. /\ run'.pc = "rds-tags" /\ run'.text = run.text /\ run'.checked = run.checked
        /\ run'.found \subseteq Databases
        /\ UNCHANGED << clock, tag, retagged >> /\ run.pc # "idle"
    BY <1>8, <1>run DEF RdsDiscovery, config, RunType
  <2> QED
    BY <2>1 DEF LookedAt
<1>9. ASSUME NEW d \in Databases, RdsTags(d) PROVE LookedAt'
  <2>1. CASE ~Matches(d)
    BY <1>9, <2>1, <1>run, <1>same DEF RdsTags, RunType, config
  <2>2. CASE Matches(d)
    <3>1. /\ run'.pc = "rds-stop" /\ run'.text = run.text /\ run'.found = run.found
          /\ run'.checked = run.checked \union {d}
          /\ UNCHANGED << clock, tag, retagged >> /\ run.pc = "rds-tags"
      BY <1>9, <2>2, <1>run DEF RdsTags, config, RunType
    <3>2. d \in Own /\ tag[d] = run.text
      BY <2>2 DEF Matches, Own, Resources
    <3> QED
      BY <3>1, <3>2 DEF LookedAt
  <2> QED
    BY <2>1, <2>2
<1>10. ASSUME NEW d \in Databases, RdsTagsFail(d) PROVE LookedAt'
  BY <1>10, <1>run, <1>same DEF RdsTagsFail, RunType, config
<1>11. ASSUME NEW r \in Resources, NEW failures, AboutToStop(r), StopDone(r, failures),
              UNCHANGED << clock, config, retagged >>
       PROVE  LookedAt'
  <2>1. /\ run'.pc = (IF r \in Databases THEN "rds-tags" ELSE "ec2-stop")
        /\ run'.text = run.text /\ run'.checked = run.checked
        /\ run'.found = run.found \ {r}
    BY <1>11, <1>run DEF StopDone, RunType
  <2>2. r \in Databases <=> run.pc = "rds-stop"
    BY <1>11 DEF AboutToStop, LookedAt
  <2> QED
    BY <1>11, <2>1, <2>2, <1>same DEF AboutToStop, config
<1> QED
  BY <1>over, <1>1, <1>2, <1>3, <1>4, <1>5, <1>6, <1>7, <1>8, <1>9, <1>10, <1>11
     DEF CleanupNext, HandlerStep, Stop, StopFails, Finish, Killed, NotExpired, cleanupVars,
         config, Extend, ApplyPolicy, ApplyEnv, DatabaseBusy, DatabaseSettles, Restart

-----------------------------------------------------------------------------
\* What is due and not reported is not passed over.
LEMMA TrackedStep == CleanupInv /\ [CleanupNext]_cleanupVars => Tracked'
<1> SUFFICES ASSUME CleanupInv, [CleanupNext]_cleanupVars PROVE Tracked'
  OBVIOUS
<1> USE CleanupAssumption DEF CleanupInv
<1>run. run \in RunType
  BY DEF CleanupTypeOK, RunType, Pcs
<1>own. \A r \in due : r \in Own /\ (r \in Instances \/ r \in Databases)
  BY DEF Tracked, Own, Resources
\* The invocation goes on: each of what is still due is reported by then, or it
\* is as it was and still ahead.
<1>keep. ASSUME due' \subseteq due, enableRds' = enableRds, run'.text = run.text,
                run.failures \subseteq run'.failures, run'.pc # "idle" \/ due' = {},
                \A r \in due' : \/ Reported(r)'
                                \/ /\ status'[r] = status[r] /\ tag'[r] = tag[r]
                                   /\ ~Reported(r) /\ Ahead(r) => Ahead(r)'
         PROVE  Tracked'
  <2>1. \A r \in due : Reported(r) => Reported(r)'
    BY <1>keep DEF Reported, ScopesOf
  <2> QED
    BY <1>keep, <2>1 DEF Tracked
\* The rest of the world: what it touches is no longer due.
<1>world. ASSUME due' \subseteq due, enableRds' = enableRds, run' = run,
                 \A r \in due' : \/ Reported(r)
                                 \/ status'[r] = status[r] /\ tag'[r] = tag[r]
          PROVE  Tracked'
  <2>1. run'.pc # "idle" \/ due' = {}
    BY <1>world DEF Tracked
  <2>2. \A r \in due' : (Reported(r) => Reported(r)') /\ (Ahead(r) => Ahead(r)')
    BY <1>world DEF Reported, ScopesOf, Ahead
  <2> QED
    BY <1>world, <2>1, <2>2, <1>keep
<1>1. ASSUME Tick \/ Extend \/ ApplyPolicy \/ ApplyEnv \/ NotExpired \/ UNCHANGED cleanupVars
      PROVE Tracked'
  BY <1>1, <1>world DEF Tick, Extend, ApplyPolicy, ApplyEnv, NotExpired, cleanupVars, config
<1>2. ASSUME NEW r \in Own, ApplyTag(r) PROVE Tracked'
  <2>1. \A q \in due' : tag'[q] = tag[q]
    BY <1>2, <1>own DEF ApplyTag, CleanupTypeOK
  <2> QED
    BY <1>2, <2>1, <1>world DEF ApplyTag
<1>3. ASSUME NEW d \in Databases, DatabaseBusy(d) PROVE Tracked'
  <2>1. \A q \in due' : status'[q] = status[q]
    BY <1>3, <1>own DEF DatabaseBusy, CleanupTypeOK, Resources
  <2> QED
    BY <1>3, <2>1, <1>world DEF DatabaseBusy, config
\* What is not running and due is reported already.
<1>4. ASSUME NEW r \in Resources, status[r] # "running", due' = due, UNCHANGED config, run' = run,
             NEW x, status' = [status EXCEPT ![r] = x]
      PROVE  Tracked'
  <2>1. \A q \in due : Reported(q) \/ status'[q] = status[q]
    BY <1>4 DEF Tracked, CleanupTypeOK
  <2> QED
    BY <1>4, <2>1, <1>world DEF config
<1>5. ASSUME Begin PROVE Tracked'
  <2>1. /\ run' = [Idle0 EXCEPT !.pc = "ec2-client", !.text = env]
        /\ due' = { r \in Own : /\ tag[r] = env /\ status[r] = "running"
                                /\ r \in Databases => enableRds }
        /\ UNCHANGED << enableRds, tag, status >>
    BY <1>5 DEF Begin, config
  <2>2. run'.pc = "ec2-client" /\ run'.text = env
    BY <2>1 DEF Idle0
  <2> QED
    BY <2>1, <2>2 DEF Tracked, Ahead
<1>6. ASSUME Ec2Client \/ RdsClient PROVE Tracked'
  <2>1. /\ run'.text = run.text /\ run'.failures = run.failures
        /\ \/ run.pc = "ec2-client" /\ run'.pc = "ec2-discovery"
           \/ run.pc = "rds-client" /\ run'.pc = "rds-discovery"
        /\ UNCHANGED << due, enableRds, tag, status >>
    BY <1>6, <1>run DEF Ec2Client, RdsClient, Goto, RunType, config
  <2>2. \A r \in due : Ahead(r) => Ahead(r)'
    BY <2>1 DEF Ahead
  <2> QED
    BY <2>1, <2>2, <1>keep
<1>7. ASSUME Ec2Discovery PROVE Tracked'
  <2>1. /\ run'.text = run.text /\ run'.failures = run.failures /\ run'.pc = "ec2-stop"
        /\ run'.found = { i \in Instances : Matches(i) /\ status[i] = "running" }
        /\ UNCHANGED << due, enableRds, tag, status >>
    BY <1>7, <1>run DEF Ec2Discovery, RunType, config
  <2>2. \A r \in due : Reported(r)' \/ Ahead(r)'
    <3>1. \A r \in due : Reported(r) => Reported(r)'
      BY <2>1 DEF Reported, ScopesOf
    <3>2. \A r \in due : ~Reported(r) => Ahead(r)'
      BY <2>1, <1>own DEF Tracked, Ahead, Matches, Own
    <3> QED
      BY <3>1, <3>2
  <2> QED
    BY <2>1, <2>2, <1>keep
<1>8. ASSUME Ec2Fails PROVE Tracked'
  <2>1. /\ run'.text = run.text /\ run'.failures = run.failures \union {run.pc}
        /\ run.pc \in {"ec2-client", "ec2-discovery"} /\ run'.pc = AfterEc2
        /\ UNCHANGED << due, enableRds, tag, status >>
    BY <1>8, <1>run DEF Ec2Fails, RunType, config
  <2>2. \A r \in due : r \in Instances => Reported(r)'
    BY <2>1 DEF Reported, ScopesOf
  <2>3. \A r \in due : r \in Databases => Ahead(r)'
    BY <2>1 DEF Ahead, AfterEc2, Tracked
  <2>4. run'.pc # "idle"
    BY <2>1 DEF AfterEc2
  <2> QED
    BY <2>1, <2>2, <2>3, <2>4, <1>own, <1>keep
<1>9. ASSUME Ec2Over PROVE Tracked'
  <2>1. /\ run'.text = run.text /\ run'.failures = run.failures
        /\ run.pc = "ec2-stop" /\ run.found = {} /\ run'.pc = AfterEc2
        /\ UNCHANGED << due, enableRds, tag, status >>
    BY <1>9, <1>run DEF Ec2Over, Goto, RunType, config
  <2>2. \A r \in due : Ahead(r) => Ahead(r)'
    BY <2>1 DEF Ahead, AfterEc2, Tracked
  <2>3. run'.pc # "idle"
    BY <2>1 DEF AfterEc2
  <2> QED
    BY <2>1, <2>2, <2>3, <1>keep
<1>10. ASSUME RdsDiscovery PROVE Tracked'
  <2>1. /\ run'.text = run.text /\ run'.failures = run.failures
        /\ run.pc = "rds-discovery" /\ run'.pc = "rds-tags"
        /\ run'.found = { d \in Databases : status[d] = "running" }
        /\ UNCHANGED << due, enableRds, tag, status >>
    BY <1>10, <1>run DEF RdsDiscovery, RunType, config
  <2>2. \A r \in due : Reported(r)' \/ Ahead(r)'
    <3>1. \A r \in due : Reported(r) => Reported(r)'
      BY <2>1 DEF Reported, ScopesOf
    <3>2. \A r \in due : ~Reported(r) => Ahead(r)'
      BY <2>1 DEF Tracked, Ahead
    <3> QED
      BY <3>1, <3>2
  <2> QED
    BY <2>1, <2>2, <1>keep
<1>11. ASSUME RdsFails PROVE Tracked'
  <2>1. /\ run'.text = run.text /\ run'.failures = run.failures \union {run.pc}
        /\ run.pc \in {"rds-client", "rds-discovery"} /\ run'.pc = "over"
        /\ UNCHANGED << due, enableRds, tag, status >>
    BY <1>11, <1>run DEF RdsFails, RunType, config
  <2>2. \A r \in due : Ahead(r) => Reported(r)'
    BY <2>1 DEF Reported, ScopesOf, Ahead
  <2>3. \A r \in due : Reported(r) => Reported(r)'
    BY <2>1 DEF Reported, ScopesOf
  <2> QED
    BY <2>1, <2>2, <2>3, <1>keep DEF Tracked
<1>12. ASSUME NEW d \in Databases, RdsTags(d) PROVE Tracked'
  <2>1. /\ run'.text = run.text /\ run'.failures = run.failures /\ run.pc = "rds-tags"
        /\ \/ Matches(d) /\ run'.pc = "rds-stop" /\ run'.found = run.found
           \/ ~Matches(d) /\ run'.pc = "rds-tags" /\ run'.found = run.found \ {d}
        /\ UNCHANGED << due, enableRds, tag, status >>
    BY <1>12, <1>run DEF RdsTags, RunType, config
  <2>2. \A r \in due : Reported(r) => Reported(r)'
    BY <2>1 DEF Reported, ScopesOf
  <2>3. \A r \in due : ~Reported(r) => Ahead(r)'
    BY <2>1, <1>own DEF Tracked, Ahead, Matches, Own
  <2> QED
    BY <2>1, <2>2, <2>3, <1>keep
<1>13. ASSUME NEW d \in Databases, RdsTagsFail(d) PROVE Tracked'
  <2>1. /\ run'.text = run.text /\ run'.failures = run.failures \union {d}
        /\ run.pc = "rds-tags" /\ run'.pc = "rds-tags" /\ run'.found = run.found \ {d}
        /\ UNCHANGED << due, enableRds, tag, status >>
    BY <1>13, <1>run DEF RdsTagsFail, RunType, config
  <2>2. d \in due => Reported(d)'
    BY <2>1 DEF Reported
  <2>3. \A r \in due \ {d} : Ahead(r) => Ahead(r)'
    BY <2>1 DEF Ahead
  <2> QED
    BY <2>1, <2>2, <2>3, <1>keep
<1>14. ASSUME RdsOver PROVE Tracked'
  <2>1. /\ run'.text = run.text /\ run'.failures = run.failures
        /\ run.pc = "rds-tags" /\ run.found = {} /\ run'.pc = "over"
        /\ UNCHANGED << due, enableRds, tag, status >>
    BY <1>14, <1>run DEF RdsOver, Goto, RunType, config
  <2>2. \A r \in due : ~Ahead(r)
    BY <2>1 DEF Ahead
  <2> QED
    BY <2>1, <2>2, <1>keep
\* One resource is dealt with: it is stopped, or reported.
<1>15. ASSUME NEW r \in Resources, NEW failures, run.failures \subseteq failures,
              AboutToStop(r), StopDone(r, failures), UNCHANGED config,
              due' \subseteq due, r \in due' => r \in failures,
              \/ status' = status
              \/ status' = [status EXCEPT ![r] = "stopped"]
       PROVE  Tracked'
  <2>1. /\ run'.text = run.text /\ run'.failures = failures
        /\ run'.pc = (IF r \in Databases THEN "rds-tags" ELSE "ec2-stop")
        /\ run'.found = run.found \ {r}
        /\ UNCHANGED << enableRds, tag >>
    BY <1>15, <1>run DEF StopDone, RunType, config
  <2>2. r \in Databases <=> run.pc = "rds-stop"
    BY <1>15 DEF AboutToStop, LookedAt
  <2>3. r \in due' => Reported(r)'
    BY <1>15, <2>1 DEF Reported
  <2>4. \A q \in due \ {r} : (Ahead(q) => Ahead(q)') /\ status'[q] = status[q]
    BY <1>15, <2>1, <2>2, <1>own DEF Ahead, AboutToStop, CleanupTypeOK, Own
  <2> QED
    BY <1>15, <2>1, <2>3, <2>4, <1>keep
<1>16. ASSUME NEW r \in Resources, Stop(r) \/ StopFails(r) PROVE Tracked'
  BY <1>16, <1>15 DEF Stop, StopFails
<1>17. ASSUME Finish \/ Killed PROVE Tracked'
  BY <1>17 DEF Finish, Killed, Tracked
<1>18. ASSUME NEW d \in Databases, DatabaseSettles(d) PROVE Tracked'
  BY <1>18, <1>4 DEF DatabaseSettles, Resources
<1>19. ASSUME NEW r \in Resources, Restart(r) PROVE Tracked'
  BY <1>19, <1>4 DEF Restart
<1> QED
  BY <1>1, <1>2, <1>3, <1>5, <1>6, <1>7, <1>8, <1>9, <1>10, <1>11, <1>12, <1>13, <1>14, <1>16,
     <1>17, <1>18, <1>19 DEF CleanupNext, HandlerStep

\* No invocation has begun.
LEMMA CleanupInitially == CleanupInit => CleanupInv
<1> SUFFICES ASSUME CleanupInit PROVE CleanupInv
  OBVIOUS
<1>1. CleanupTypeOK
  BY DEF CleanupInit, CleanupTypeOK, Idle0, Scopes
<1>2. LookedAt /\ Tracked
  BY DEF CleanupInit, LookedAt, Tracked, Idle0
<1> QED
  BY <1>1, <1>2 DEF CleanupInv

\* The strengthened invariant holds in every reachable state.
THEOREM CleanupInvariance == CleanupSpec => []CleanupInv
<1>1. CleanupInv /\ [CleanupNext]_cleanupVars => CleanupInv'
  BY CleanupTypeStep, LookedAtStep, TrackedStep DEF CleanupInv
<1> QED
  BY <1>1, CleanupInitially, PTL DEF CleanupSpec

\* Type correctness: an invocation only finds, checks and names resources it
\* was told of, and only expiries that some extension wrote are carried around.
THEOREM TypeCorrect == CleanupSpec => []CleanupTypeOK
<1>1. CleanupInv => CleanupTypeOK
  BY DEF CleanupInv
<1> QED
  BY <1>1, CleanupInvariance, PTL

-----------------------------------------------------------------------------
\* An invocation that comes to its end has stopped what was due when it began,
\* or names it, or the scope that hid it, among its failures.
THEOREM FailuresReported == CleanupSpec => []FailuresAreReported
<1>1. CleanupInv => FailuresAreReported
  BY DEF CleanupInv, Tracked, FailuresAreReported, Reported, Ahead
<1> QED
  BY <1>1, CleanupInvariance, PTL

\* No step stops what is not the deployment's, nor, but for the one race with an
\* extension, what has not expired.
LEMMA DueStep ==
  ASSUME CleanupInv, [CleanupNext]_cleanupVars, NEW r \in Resources,
         status[r] # "stopped", status'[r] = "stopped"
  PROVE  r \in Own /\ (tag[r] <= clock \/ (r \in retagged /\ policy = tag[r]))
<1>1. \E q \in Resources : Stop(q) \/ StopFails(q)
  BY DEF CleanupNext, HandlerStep, Tick, Extend, ApplyPolicy, ApplyEnv, ApplyTag, DatabaseBusy,
     DatabaseSettles, Restart, NotExpired, Begin, Ec2Client, Ec2Discovery, Ec2Fails, Ec2Over,
     RdsClient, RdsDiscovery, RdsFails, RdsTags, RdsTagsFail, RdsOver, Finish, Killed,
     cleanupVars, config, CleanupInv, CleanupTypeOK, Resources
<1>2. AboutToStop(r) /\ Permitted(r)
  BY <1>1 DEF Stop, StopFails, CleanupInv, CleanupTypeOK
<1>3. r \in run.checked /\ run.pc # "idle"
  BY <1>2 DEF AboutToStop, CleanupInv, LookedAt
<1> QED
  BY <1>2, <1>3 DEF Permitted, CleanupInv, LookedAt

\* Nothing of another deployment is ever stopped, and nothing of this one before
\* its time, whatever order an extension reaches tags, function and policy in,
\* unless its new tag and the new policy both arrive after it was looked at.
THEOREM StoppedWhenDue == CleanupSpec => StoppedOnlyWhenDue
<1>1. CleanupInv /\ [CleanupNext]_cleanupVars =>
        [\A r \in Resources :
           status[r] # "stopped" /\ status'[r] = "stopped" =>
               /\ r \in Own
               /\ tag[r] <= clock \/ (r \in retagged /\ policy = tag[r])]_cleanupVars
  BY DueStep
<1> QED
  BY <1>1, CleanupInvariance, PTL DEF CleanupSpec, StoppedOnlyWhenDue

=============================================================================
