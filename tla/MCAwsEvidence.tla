---------------------------- MODULE MCAwsEvidence -----------------------------
(***************************************************************************)
(* The tools that make and judge the evidence of an AWS load test, each on *)
(* its own: they share no files, so a behaviour is one tool's.             *)
(***************************************************************************)
EXTENDS FaultEvidence, PackageLoadgen, K6Aggregate, TLC

VARIABLE tool

Symmetry == Permutations(Generators)

ToolsInit ==
    /\ tool \in {"fault", "package", "aggregate"}
    /\ EvidenceInit /\ PackageInit /\ AggregateInit
    /\ tool # "fault" => kind = "worker"

ToolsNext ==
    /\ UNCHANGED tool
    /\ \/ tool = "fault" /\ EvidenceNext /\ UNCHANGED << packageVars, aggregateVars >>
       \/ tool = "package" /\ PackageNext /\ UNCHANGED << evidenceVars, aggregateVars >>
       \/ tool = "aggregate" /\ AggregateNext /\ UNCHANGED << evidenceVars, packageVars >>

ToolsSpec == ToolsInit /\ [][ToolsNext]_<< tool, evidenceVars, packageVars, aggregateVars >>

===============================================================================
