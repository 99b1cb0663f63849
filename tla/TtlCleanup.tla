------------------------------ MODULE TtlCleanup ------------------------------
(***************************************************************************)
(* The TTL safety net of a benchmark deployment: every five minutes        *)
(* EventBridge invokes lambda_handler, which, once EXPIRES_AT has passed,  *)
(* stops the EC2 instances and (in Seoul) the RDS databases that carry the *)
(* deployment's Project, Owner and ExpiresAt tags.                         *)
(*                                                                          *)
(* Terraform keeps expires_at in three places, the resources' tags, the    *)
(* environment of the function and the condition of its IAM policy, and    *)
(* changes them one at a time when the deployment is extended.  Times are  *)
(* natural numbers; a later expires_at is a larger one.                    *)
(***************************************************************************)
EXTENDS Integers, FiniteSets

CONSTANTS
    Instances, Databases,   \* what the account runs
    Foreign,                \* those of them with another Project or Owner
    Extension,              \* by how much expires_at is moved
    MaxExpiry,              \* bound: the last expires_at
    MaxCallFailures,        \* bound: AWS calls that fail, invocations killed
    MaxRestarts             \* bound: resources started again, databases made busy

Resources == Instances \union Databases

ASSUME CleanupAssumption ==
    /\ Instances \intersect Databases = {}
    /\ Foreign \subseteq Resources
    /\ Extension \in Nat \ {0} /\ MaxExpiry \in Nat
    /\ MaxCallFailures \in Nat /\ MaxRestarts \in Nat

Own == Resources \ Foreign

VARIABLES
    clock,
    enableRds,  \* ENABLE_RDS: Seoul's function has it, Tokyo's has not
    planned,    \* expires_at as last applied by the operator
    policy,     \* the one in the condition of the IAM policy
    env,        \* the one in the function's environment
    tag,        \* the one in the tags of each resource of the deployment
    status,     \* running (pending, available), busy (a database that cannot be stopped), stopped
    run,        \* the invocation: where it is, expires_text, what it has still to
                \* look at, what it is about to stop, and its failures
    due,        \* history: to be stopped when it began, and not changed by others since
    retagged,   \* history: given a new tag after the invocation looked at it
    spent       \* the failures and restarts (or busy databases) so far

config == << enableRds, planned, policy, env, tag >>
cleanupVars == << clock, config, status, run, due, retagged, spent >>

Scopes == {"ec2-client", "ec2-discovery", "rds-client", "rds-discovery"}

Idle0 == [pc |-> "idle", text |-> 0, found |-> {}, checked |-> {}, failures |-> {}]

CleanupInit ==
    /\ clock = 0
    /\ enableRds \in BOOLEAN
    /\ planned = 1 /\ policy = 1 /\ env = 1
    /\ tag = [r \in Own |-> 1]
    /\ status \in [Resources -> {"running", "busy"}]
    /\ \A i \in Instances : status[i] = "running"
    /\ run = Idle0 /\ due = {} /\ retagged = {}
    /\ spent = [failures |-> 0, restarts |-> 0]

-----------------------------------------------------------------------------
(* The account, the operator and the clock.                                 *)

Tick ==
    /\ clock < MaxExpiry
    /\ clock' = clock + 1
    /\ UNCHANGED << config, status, run, due, retagged, spent >>

\* terraform apply with a later expires_at ...
Extend ==
    /\ planned + Extension <= MaxExpiry
    /\ planned' = planned + Extension
    /\ UNCHANGED << clock, enableRds, policy, env, tag, status, run, due, retagged, spent >>

\* ... which reaches the policy, the function and each resource in any order.
ApplyPolicy ==
    /\ policy # planned
    /\ policy' = planned
    /\ UNCHANGED << clock, enableRds, planned, env, tag, status, run, due, retagged, spent >>

ApplyEnv ==
    /\ env # planned
    /\ env' = planned
    /\ UNCHANGED << clock, enableRds, planned, policy, tag, status, run, due, retagged, spent >>

ApplyTag(r) ==
    /\ tag[r] # planned
    /\ tag' = [tag EXCEPT ![r] = planned]
    /\ due' = due \ {r}
    /\ retagged' = IF r \in run.checked THEN retagged \union {r} ELSE retagged
    /\ UNCHANGED << clock, enableRds, planned, policy, env, status, run, spent >>

\* A database is backed up or changed: it is not "available" for a while.
DatabaseBusy(d) ==
    /\ status[d] = "running"
    /\ spent.restarts < MaxRestarts
    /\ spent' = [spent EXCEPT !.restarts = @ + 1]
    /\ status' = [status EXCEPT ![d] = "busy"]
    /\ due' = due \ {d}
    /\ UNCHANGED << clock, config, run, retagged >>

DatabaseSettles(d) ==
    /\ status[d] = "busy"
    /\ status' = [status EXCEPT ![d] = "running"]
    /\ UNCHANGED << clock, config, run, due, retagged, spent >>

\* RDS starts a stopped database after seven days, an operator any resource.
Restart(r) ==
    /\ status[r] = "stopped"
    /\ spent.restarts < MaxRestarts
    /\ spent' = [spent EXCEPT !.restarts = @ + 1]
    /\ status' = [status EXCEPT ![r] = IF r \in Databases THEN "busy" ELSE "running"]
    /\ UNCHANGED << clock, config, run, due, retagged >>

-----------------------------------------------------------------------------
(* lambda_handler.                                                          *)

\* Faulty: the ExpiresAt filter is missing.
Matches_AnyExpiry(r) == r \notin Foreign

\* The tag filters of EC2, and the comparison of RDS.
Matches(r) == r \notin Foreign /\ tag[r] = run.text

\* The IAM policy lets it stop what carries the policy's own tags.
Permitted(r) == r \notin Foreign /\ tag[r] = policy

Goto(pc) == run' = [run EXCEPT !.pc = pc]

\* Faulty: the handler returns after EC2.
AfterEc2_Stops == "over"

AfterEc2 == IF enableRds THEN "rds-client" ELSE "over"

\* An AWS call that raises.
CallFails ==
    /\ spent.failures < MaxCallFailures
    /\ spent' = [spent EXCEPT !.failures = @ + 1]

\* Not expired: nothing is touched, not even a client is created.
NotExpired ==
    /\ run.pc = "idle" /\ clock < env
    /\ UNCHANGED cleanupVars

Begin ==
    /\ run.pc = "idle" /\ clock >= env
    /\ run' = [Idle0 EXCEPT !.pc = "ec2-client", !.text = env]
    /\ due' = { r \in Own : /\ tag[r] = env /\ status[r] = "running"
                            /\ r \in Databases => enableRds }
    /\ UNCHANGED << clock, config, status, retagged, spent >>

Ec2Client ==
    /\ run.pc = "ec2-client"
    /\ Goto("ec2-discovery")
    /\ UNCHANGED << clock, config, status, due, retagged, spent >>

\* describe_instances with the filters, all pages.
Ec2Discovery ==
    /\ run.pc = "ec2-discovery"
    /\ LET ids == { i \in Instances : Matches(i) /\ status[i] = "running" }
       IN  run' = [run EXCEPT !.pc = "ec2-stop", !.found = ids, !.checked = ids]
    /\ UNCHANGED << clock, config, status, due, retagged, spent >>

\* What fails is noted, and RDS is cleaned up nevertheless.
Ec2Fails ==
    /\ run.pc \in {"ec2-client", "ec2-discovery"}
    /\ CallFails
    /\ run' = [run EXCEPT !.pc = AfterEc2, !.failures = @ \union {run.pc}]
    /\ UNCHANGED << clock, config, status, due, retagged >>

Ec2Over ==
    /\ run.pc = "ec2-stop" /\ run.found = {}
    /\ Goto(AfterEc2)
    /\ UNCHANGED << clock, config, status, due, retagged, spent >>

RdsClient ==
    /\ run.pc = "rds-client"
    /\ Goto("rds-discovery")
    /\ UNCHANGED << clock, config, status, due, retagged, spent >>

\* describe_db_instances: all databases of the region, with their status now.
RdsDiscovery ==
    /\ run.pc = "rds-discovery"
    /\ run' = [run EXCEPT !.pc = "rds-tags",
                          !.found = { d \in Databases : status[d] = "running" }]
    /\ UNCHANGED << clock, config, status, due, retagged, spent >>

RdsFails ==
    /\ run.pc \in {"rds-client", "rds-discovery"}
    /\ CallFails
    /\ run' = [run EXCEPT !.pc = "over", !.failures = @ \union {run.pc}]
    /\ UNCHANGED << clock, config, status, due, retagged >>

\* list_tags_for_resource decides whether this database is stopped.
RdsTags(d) ==
    /\ run.pc = "rds-tags" /\ d \in run.found
    /\ run' = IF Matches(d) THEN [run EXCEPT !.pc = "rds-stop", !.checked = @ \union {d}]
                            ELSE [run EXCEPT !.found = @ \ {d}]
    /\ UNCHANGED << clock, config, status, due, retagged, spent >>

RdsTagsFail(d) ==
    /\ run.pc = "rds-tags" /\ d \in run.found
    /\ CallFails
    /\ run' = [run EXCEPT !.found = @ \ {d}, !.failures = @ \union {d}]
    /\ UNCHANGED << clock, config, status, due, retagged >>

RdsOver ==
    /\ run.pc = "rds-tags" /\ run.found = {}
    /\ Goto("over")
    /\ UNCHANGED << clock, config, status, due, retagged, spent >>

\* The next of the loop: any instance found, the database just looked at.
AboutToStop(r) ==
    /\ r \in run.found
    /\ \/ run.pc = "ec2-stop"
       \/ run.pc = "rds-stop" /\ r \in run.checked

\* Faulty: an exception is passed over in silence.
StopDone_Silent(r, failures) ==
    run' = [run EXCEPT !.pc = IF r \in Databases THEN "rds-tags" ELSE "ec2-stop",
                       !.found = @ \ {r}]

StopDone(r, failures) ==
    run' = [run EXCEPT !.pc = IF r \in Databases THEN "rds-tags" ELSE "ec2-stop",
                       !.found = @ \ {r}, !.failures = failures]

\* stop_instances, stop_db_instance.  A database that is no longer available
\* cannot be stopped; an instance that is stopped stays so.
Stop(r) ==
    /\ AboutToStop(r)
    /\ IF Permitted(r) /\ (r \in Databases => status[r] = "running")
         THEN /\ status' = [status EXCEPT ![r] = "stopped"]
              /\ due' = due \ {r}
              /\ StopDone(r, run.failures)
         ELSE /\ StopDone(r, run.failures \union {r})
              /\ UNCHANGED << status, due >>
    /\ UNCHANGED << clock, config, retagged, spent >>

\* The call fails, with or without effect; the others are still tried.
StopFails(r) ==
    /\ AboutToStop(r)
    /\ CallFails
    /\ StopDone(r, run.failures \union {r})
    /\ \/ UNCHANGED status
       \/ Permitted(r) /\ status' = [status EXCEPT ![r] = "stopped"]
    /\ UNCHANGED << clock, config, due, retagged >>

\* The result is logged; with failures it is an error of the invocation.
Finish ==
    /\ run.pc = "over"
    /\ run' = Idle0 /\ due' = {} /\ retagged' = {}
    /\ UNCHANGED << clock, config, status, spent >>

\* The function is killed, after 30 seconds at the latest.
Killed ==
    /\ run.pc # "idle"
    /\ CallFails
    /\ run' = Idle0 /\ due' = {} /\ retagged' = {}
    /\ UNCHANGED << clock, config, status >>

HandlerStep ==
    \/ NotExpired \/ Begin
    \/ Ec2Client \/ Ec2Discovery \/ Ec2Over
    \/ RdsClient \/ RdsDiscovery \/ RdsOver
    \/ \E d \in Databases : RdsTags(d)
    \/ \E r \in Resources : Stop(r)
    \/ Finish

CleanupNext ==
    \/ HandlerStep
    \/ Ec2Fails \/ RdsFails \/ Killed
    \/ \E d \in Databases : RdsTagsFail(d) \/ DatabaseBusy(d) \/ DatabaseSettles(d)
    \/ \E r \in Resources : StopFails(r) \/ Restart(r)
    \/ \E r \in Own : ApplyTag(r)
    \/ Tick \/ Extend \/ ApplyPolicy \/ ApplyEnv

\* Time passes, an apply is brought to its end, a database is not busy for
\* ever, and EventBridge goes on invoking the function.
CleanupFairness ==
    /\ WF_cleanupVars(Tick) /\ WF_cleanupVars(ApplyPolicy) /\ WF_cleanupVars(ApplyEnv)
    /\ \A r \in Own : WF_cleanupVars(ApplyTag(r))
    /\ \A d \in Databases : WF_cleanupVars(DatabaseSettles(d))
    /\ WF_cleanupVars(HandlerStep)

CleanupSpec == CleanupInit /\ [][CleanupNext]_cleanupVars /\ CleanupFairness

-----------------------------------------------------------------------------
(* Properties.                                                              *)

CleanupTypeOK ==
    /\ clock \in Nat /\ enableRds \in BOOLEAN
    /\ planned \in Nat /\ policy \in Nat /\ env \in Nat
    /\ tag \in [Own -> Nat]
    /\ status \in [Resources -> {"running", "busy", "stopped"}]
    /\ run \in [pc : {"idle", "over", "ec2-stop", "rds-tags", "rds-stop"} \union Scopes,
                text : Nat, found : SUBSET Resources, checked : SUBSET Resources,
                failures : SUBSET (Scopes \union Resources)]
    /\ due \subseteq Own /\ retagged \subseteq Own
    /\ spent \in [failures : Nat, restarts : Nat]

\* Nothing is stopped before its own expiry, and nothing of another project or
\* owner ever, although an extension reaches tags, function and policy one by
\* one: only what got its new tag between being looked at and being stopped,
\* with the policy changed by then as well, can be stopped too early.
StoppedOnlyWhenDue ==
    [][\A r \in Resources :
         status[r] # "stopped" /\ status'[r] = "stopped" =>
             /\ r \in Own
             /\ tag[r] <= clock \/ (r \in retagged /\ policy = tag[r])]_cleanupVars

\* The scope whose failure keeps a resource from being looked at.
ScopesOf(r) == IF r \in Instances THEN {"ec2-client", "ec2-discovery"}
                                  ELSE {"rds-client", "rds-discovery"}

\* One failing call hides nothing: when an invocation comes to its end, what
\* was to be stopped when it began has been, or the failure it raises names the
\* resource or the scope that kept it from being looked at.
FailuresAreReported ==
    run.pc = "over" =>
        \A r \in due : r \in run.failures \/ ScopesOf(r) \intersect run.failures # {}

\* In the end everything of the deployment is stopped, however calls failed,
\* whatever was started again and however the extensions were applied.
AllStopped ==
    <>[](\A r \in Own : (r \in Databases => enableRds) => status[r] = "stopped")

=============================================================================
