----------------------------- MODULE MCTtlCleanup -----------------------------
(***************************************************************************)
(* Two instances, one of them of another deployment, and two databases,    *)
(* for TLC.                                                                *)
(***************************************************************************)
EXTENDS TtlCleanup

===============================================================================
