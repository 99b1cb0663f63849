---------------------------- MODULE MCKafkaWorker ----------------------------
(***************************************************************************)
(* Both workers for TLC, one deployment each; no symmetry, the run checks  *)
(* liveness.                                                               *)
(***************************************************************************)
EXTENDS KafkaWorker

=============================================================================
