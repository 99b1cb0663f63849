---------------------------- MODULE MCRedissonIssue ----------------------------
(***************************************************************************)
(* RedissonIssue for TLC; no symmetry, a run checks liveness.              *)
(***************************************************************************)
EXTENDS RedissonIssue

=============================================================================
