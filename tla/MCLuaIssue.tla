------------------------------ MODULE MCLuaIssue ------------------------------
(***************************************************************************)
(* LuaIssue for TLC: model values come from the .cfg; people, requests,    *)
(* instances and operators are interchangeable.  No run checks liveness    *)
(* (the refinement has no fairness), so the symmetry is sound.             *)
(***************************************************************************)
EXTENDS LuaIssue, TLC

Symmetry ==
    Permutations(Requests) \union Permutations(Users) \union Permutations(Instances)
        \union Permutations(Admins)

\* Bound: where the producer's buffer multiplies the states, one status change.
OneChangeWithKafka == (\E r \in Requests : req[r].mode = "kafka") => changes <= 1

=============================================================================
