-------------------------- MODULE MCPessimisticIssue --------------------------
(***************************************************************************)
(* PessimisticIssue for TLC; no symmetry, a run checks liveness.           *)
(***************************************************************************)
EXTENDS PessimisticIssue

=============================================================================
