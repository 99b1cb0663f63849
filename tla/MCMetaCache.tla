------------------------------ MODULE MCMetaCache ------------------------------
(***************************************************************************)
(* MetaCache for TLC; no symmetry, a run checks liveness.                  *)
(***************************************************************************)
EXTENDS MetaCache

=============================================================================
