----------------------------- MODULE K6Aggregate ------------------------------
(***************************************************************************)
(* aggregate-k6-evidence.py: whether an event was sold out correctly under *)
(* the load of several generators is read from the six files that each of  *)
(* their k6 executions published.                                          *)
(*                                                                          *)
(* The executions take the stock of one event user by user.  Their files   *)
(* are published with their digests in a manifest; the operator collects   *)
(* them into bundles, one for each execution, may mix files up, also while *)
(* the aggregation runs, and hands in the bundles to be aggregated.        *)
(*                                                                          *)
(* A local file is known by the execution it is from.  An execution that   *)
(* was repeated on the same instance has the same place, another version.  *)
(***************************************************************************)
EXTENDS Integers, Sequences, FiniteSets, Functions

CONSTANTS
    Generators,
    Users,              \* users of each generator's range
    Stock,
    Tolerated,          \* answers that an execution may lose by its thresholds
    Slack,              \* attempts of an execution that need not have been made
    MaxRuns,            \* bound: executions
    MaxSlips            \* bound: what goes wrong, on either side

ASSUME AggregateAssumption ==
    /\ Users \in Nat \ {0} /\ Stock \in Nat \ {0} /\ Tolerated \in Nat /\ Slack \in Nat
    /\ MaxRuns \in Nat /\ MaxSlips \in Nat

RequiredObjects == {"plan", "runtime", "result", "package", "summary", "console"}
Files == RequiredObjects \union {"manifest"}

VARIABLES
    left,       \* stock of the event
    runs,       \* the executions
    bundles,    \* bundles[b][n]: the execution whose file n is in bundle b
    aggregate,  \* the aggregation that runs
    result,     \* the report at the output path
    spoiled,    \* history: a file was changed between its two readings
    slips       \* slips so far

aggregateVars == << left, runs, bundles, aggregate, result, spoiled, slips >>

Nothing == [of |-> << >>, complete |-> FALSE]
Partial == [of |-> << 0 >>, complete |-> FALSE]

\* What collect accumulates, and how far it is.
Start(args) ==
    [pc |-> "hash", args |-> args, k |-> 1, objects |-> 0, of |-> << >>,
     slots |-> {}, starts |-> {}, plans |-> {},
     totals |-> [issued |-> 0, sold_out |-> 0, duplicate |-> 0, dropped |-> 0]]

NotStarted == [Start(<< >>) EXCEPT !.pc = "idle"]

AggregateInit ==
    /\ left = Stock
    /\ runs = << >> /\ bundles = << >>
    /\ aggregate = NotStarted
    /\ result = Nothing
    /\ spoiled = FALSE /\ slips = 0

Slip == slips < MaxSlips /\ slips' = slips + 1

SlipIf(wrong) == IF wrong THEN Slip ELSE UNCHANGED slips

-----------------------------------------------------------------------------
(* The executions.                                                          *)

\* The plan of this run, and that of another one (another policy or another
\* run identity) that an operator may use by mistake.
ThePlan == [run |-> "this", stock |-> Stock, policy |-> "sold-out", package |-> "package"]
OtherPlans == { [ThePlan EXCEPT !.run = "that"], [ThePlan EXCEPT !.policy = "normal"] }

\* invoke-loadgen.ps1 gives the generators consecutive ranges; an execution on
\* its own, with another plan, package or range, or repeated, is a slip.
Launch(g, plan, package, start) ==
    /\ bundles = << >> /\ Len(runs) < MaxRuns
    /\ SlipIf(\/ plan # ThePlan \/ package # plan.package
              \/ start # Len(runs) * Users \/ \E i \in DOMAIN runs : runs[i].gen = g)
    /\ runs' = Append(runs,
          [gen |-> g, plan |-> plan, package |-> package, start |-> start,
           next |-> 0, status |-> "running", granted |-> {}, issued |-> {},
           sold_out |-> 0, duplicate |-> 0, dropped |-> 0, lost |-> 0, cut |-> 0])
    /\ UNCHANGED << left, bundles, aggregate, result, spoiled >>

\* All users the service has issued to.
Holders == UNION { runs[i].granted : i \in DOMAIN runs }

\* One iteration: the service decides, and the answer is counted, or lost, or k6
\* breaks the iteration off as its time is over, and counts nothing of it.
Iteration(i, decision, end) ==
    LET r == runs[i]
        u == r.start + r.next
        counted == end = "counted"
    IN  /\ r.status = "running" /\ r.next < Users
        /\ SlipIf(\/ end # "counted"
                  \/ decision # (IF u \in Holders THEN "duplicate"
                                 ELSE IF left > 0 THEN "issued" ELSE "sold_out"))
        /\ left' = IF decision = "issued" THEN left - 1 ELSE left
        /\ runs' = [runs EXCEPT ![i] =
              [r EXCEPT !.next = @ + 1,
                        !.granted = IF decision = "issued" THEN @ \union {u} ELSE @,
                        !.issued = IF decision = "issued" /\ counted THEN @ \union {u} ELSE @,
                        !.sold_out = IF decision = "sold_out" /\ counted THEN @ + 1 ELSE @,
                        !.duplicate = IF decision = "duplicate" /\ counted THEN @ + 1 ELSE @,
                        !.lost = IF end = "lost" THEN @ + 1 ELSE @,
                        !.cut = IF end = "cut" THEN @ + 1 ELSE @]]
        /\ UNCHANGED << bundles, aggregate, result, spoiled >>

\* k6 had no virtual user free.
Dropped(i) ==
    /\ runs[i].status = "running" /\ runs[i].next < Users
    /\ Slip
    /\ runs' = [runs EXCEPT ![i].next = @ + 1, ![i].dropped = @ + 1]
    /\ UNCHANGED << left, bundles, aggregate, result, spoiled >>

\* The iterations that were completed.
Made(r) == r.next - r.dropped - r.cut

ThresholdsPass(r) ==
    r.duplicate = 0 /\ r.dropped = 0 /\ r.lost <= Tolerated /\ Made(r) >= Users - Slack

\* k6 exits with an error when a threshold is crossed, or is killed; or it has
\* started too few iterations.  The six files are published in either case.
Ends(i) ==
    LET verdict == IF ThresholdsPass(runs[i]) THEN "completed" ELSE "failed" IN
    /\ runs[i].status = "running"
    /\ SlipIf(runs[i].next # Users)
    /\ \E status \in IF runs[i].next = Users THEN {verdict} ELSE {verdict, "failed"} :
          runs' = [runs EXCEPT ![i].status = status]
    /\ UNCHANGED << left, bundles, aggregate, result, spoiled >>

-----------------------------------------------------------------------------
(* The local copies.                                                        *)

\* collect-evidence.ps1 downloads what was published.
Collect ==
    /\ bundles = << >> /\ runs # << >>
    /\ \A i \in DOMAIN runs : runs[i].status # "running"
    /\ bundles' = [i \in DOMAIN runs |-> [n \in Files |-> i]]
    /\ UNCHANGED << left, runs, aggregate, result, spoiled, slips >>

\* The aggregation is between comparing the digests of a bundle and loading it.
Spoils(b) ==
    spoiled' = (spoiled \/ (aggregate.pc = "load" /\ b = aggregate.args[aggregate.k]))

\* A file is replaced by that of another execution.
MixUp(b, n, i) ==
    /\ bundles[b][n] # i
    /\ Slip
    /\ bundles' = [bundles EXCEPT ![b][n] = i]
    /\ Spoils(b)
    /\ UNCHANGED << left, runs, aggregate, result >>

\* A whole bundle is a copy of another one.
CopyBundle(b, i) ==
    /\ bundles[b] # bundles[i]
    /\ Slip
    /\ bundles' = [bundles EXCEPT ![b] = bundles[i]]
    /\ Spoils(b)
    /\ UNCHANGED << left, runs, aggregate, result >>

\* What a digest tells of file n of execution i: the runtime, the summary and
\* the console of two executions always differ, in their timestamps.
Digest(n, i) ==
    CASE n = "plan" -> << runs[i].plan >>
      [] n = "result" -> << runs[i].plan.run, runs[i].status >>
      [] n = "package" -> << runs[i].package >>
      [] OTHER -> << i >>

-----------------------------------------------------------------------------
(* The aggregation.                                                         *)

Refuse == aggregate' = NotStarted

\* At least two summaries, none twice (and in one order, for all come to the same).
Arguments ==
    { args \in UNION { [1..m -> DOMAIN bundles] : m \in 2..Len(bundles) } :
          \A i, j \in DOMAIN args : i < j => args[i] < args[j] }

Invoke(args) ==
    /\ aggregate.pc = "idle" /\ result \in {Nothing, Partial}
    /\ aggregate' = Start(args)
    /\ spoiled' = FALSE
    /\ UNCHANGED << left, runs, bundles, result, slips >>

\* Faulty: only the summary is compared.
Matches_SummaryOnly(b) ==
    LET local == bundles[b]
    IN  Digest("summary", local["summary"]) = Digest("summary", local["manifest"])

\* Each local file has the digest that the manifest lists for it.
Matches(b) ==
    LET local == bundles[b]
    IN  \A n \in RequiredObjects : Digest(n, local[n]) = Digest(n, local["manifest"])

Bundle == aggregate.args[aggregate.k]

HashBundle ==
    /\ aggregate.pc = "hash"
    /\ IF Matches(Bundle)
         THEN aggregate' = [aggregate EXCEPT !.pc = "load",
                                             !.objects = bundles[Bundle]["manifest"]]
         ELSE Refuse
    /\ UNCHANGED << left, runs, bundles, result, spoiled, slips >>

\* File n of the bundle, as it is when it is loaded.
Loaded(n) == runs[bundles[Bundle][n]]
Listed == runs[aggregate.objects]

PlanHolds == Loaded("plan").plan.policy = "sold-out"

\* The execution's own account of its plan, package, generator and users.
RuntimeHolds ==
    LET r == Loaded("runtime")
    IN  /\ r.plan.run = Loaded("plan").plan.run
        /\ r.plan = Listed.plan /\ r.package = Listed.package
        /\ r.start % Users = 0
        \* the place of the files is that of the run and the generator
        /\ Loaded("plan").plan.run = Listed.plan.run /\ r.gen = Listed.gen

\* It has ended well, and is of the plan's run.
ExecutionHolds ==
    Loaded("result").status = "completed" /\ Loaded("result").plan.run = Loaded("plan").plan.run

\* The attempts of the plan were made but for the slack, and their outcomes add up.
Reconciles(r) ==
    /\ Made(r) <= Users /\ Made(r) >= Users - Slack
    /\ Cardinality(r.issued) + r.sold_out + r.duplicate <= Made(r)

\* Faulty: the users of two generators may overlap.
Fits_Overlapping(r) == r.gen \notin aggregate.slots

\* Another generator, with other users.
Fits(r) ==
    /\ r.gen \notin aggregate.slots
    /\ \A s \in aggregate.starts : r.start + Users <= s \/ s + Users <= r.start

Sum(r) ==
    LET t == aggregate.totals
    IN  [issued |-> t.issued + Cardinality(r.issued), sold_out |-> t.sold_out + r.sold_out,
         duplicate |-> t.duplicate + r.duplicate, dropped |-> t.dropped + r.dropped]

\* The files are read again, validated and added to the totals.
LoadBundle ==
    /\ aggregate.pc = "load"
    /\ IF /\ PlanHolds /\ Loaded("plan").plan.package = Listed.package
          /\ RuntimeHolds /\ ExecutionHolds
          /\ Reconciles(Loaded("summary"))
          /\ Fits(Loaded("runtime"))
          /\ ThresholdsPass(Loaded("summary"))
         THEN aggregate' = [aggregate EXCEPT
                !.pc = IF aggregate.k = Len(aggregate.args) THEN "report" ELSE "hash",
                !.k = IF aggregate.k = Len(aggregate.args) THEN aggregate.k ELSE aggregate.k + 1,
                !.of = Append(@, aggregate.objects),
                !.slots = @ \union {Loaded("runtime").gen},
                !.starts = @ \union {Loaded("runtime").start},
                !.plans = @ \union {Loaded("plan").plan},
                !.totals = Sum(Loaded("summary"))]
         ELSE Refuse
    /\ UNCHANGED << left, runs, bundles, result, spoiled, slips >>

\* One plan; as many issued as its stock, some sold out, none twice or dropped.
Report ==
    /\ aggregate.pc = "report"
    /\ LET t == aggregate.totals
       IN  IF /\ Cardinality(aggregate.plans) = 1
              /\ \A p \in aggregate.plans : t.issued = p.stock
              /\ t.sold_out # 0 /\ t.duplicate = 0 /\ t.dropped = 0
             THEN aggregate' = [aggregate EXCEPT !.pc = "open"]
             ELSE Refuse
    /\ UNCHANGED << left, runs, bundles, result, spoiled, slips >>

\* The report must be a new file ...
OpenReport ==
    /\ aggregate.pc = "open"
    /\ IF result = Nothing
         THEN result' = Partial /\ aggregate' = [aggregate EXCEPT !.pc = "write"]
         ELSE Refuse /\ UNCHANGED result
    /\ UNCHANGED << left, runs, bundles, spoiled, slips >>

\* ... and is written in place.
WriteReport ==
    /\ aggregate.pc = "write"
    /\ result' = [of |-> aggregate.of, complete |-> TRUE]
    /\ Refuse
    /\ UNCHANGED << left, runs, bundles, spoiled, slips >>

KillAggregate ==
    /\ aggregate.pc # "idle"
    /\ Slip
    /\ Refuse
    /\ UNCHANGED << left, runs, bundles, result, spoiled >>

Decisions == {"issued", "sold_out", "duplicate"}

AggregateNext ==
    \/ \E g \in Generators, plan \in {ThePlan} \union OtherPlans,
          package \in {"package", "old"}, start \in {Len(runs) * Users, 0, 1} :
          Launch(g, plan, package, start)
    \/ \E i \in DOMAIN runs :
          \/ \E d \in Decisions, end \in {"counted", "lost", "cut"} : Iteration(i, d, end)
          \/ Dropped(i) \/ Ends(i)
    \/ Collect
    \/ \E b, i \in DOMAIN bundles : CopyBundle(b, i) \/ \E n \in Files : MixUp(b, n, i)
    \/ \E args \in Arguments : Invoke(args)
    \/ HashBundle \/ LoadBundle \/ Report \/ OpenReport \/ WriteReport
    \/ KillAggregate

AggregateSpec == AggregateInit /\ [][AggregateNext]_aggregateVars

-----------------------------------------------------------------------------
(* Properties.                                                              *)

\* A report is true, whatever was executed by mistake, lost, mixed up or handed
\* in: its executions ran under one plan with its package, on different
\* generators and to the end, each user it counts as issued is another one, and
\* the service has issued to no fewer than the stock and to no more than the
\* answers lost within the tolerance, and the iterations missing within the
\* slack, can hide.  (It speaks of whole reports, and of files that are not
\* changed after their digests were compared and before they are read again:
\* what such a change smuggles in is reported as if it had been verified.)
AggregateIsTrue ==
    LET of == Range(result.of) IN
    result.complete /\ ~spoiled =>
        /\ Cardinality({ runs[i].gen : i \in of }) = Len(result.of)
        /\ Cardinality({ runs[i].plan : i \in of }) = 1
        /\ \A i \in of : runs[i].status = "completed" /\ runs[i].package = runs[i].plan.package
        /\ LET confirmed == UNION { runs[i].issued : i \in of }
               granted   == UNION { runs[i].granted : i \in of }
           IN  /\ Cardinality(confirmed) = Stock
               /\ Cardinality(granted) \in Stock..(Stock + Len(result.of) * (Tolerated + Slack))

=============================================================================
