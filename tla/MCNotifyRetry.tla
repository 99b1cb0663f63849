----------------------------- MODULE MCNotifyRetry -----------------------------
(***************************************************************************)
(* NotifyRetry for TLC; no symmetry, a run checks liveness.                *)
(***************************************************************************)
EXTENDS NotifyRetry

Crashed   == budget.crashes < MaxCrashes
Failed    == budget.faults < MaxFaults
Restarted == budget.restarts < MaxRestarts

\* Bound: a restart of Redis comes with a crash or a failed call, not with both,
\* and a snapshot that is not empty is only there while one entry is.
RestartBound ==
    /\ ~(Crashed /\ Failed /\ Restarted)
    /\ saved # {} => \E ch \in Chains : \A k \in Chains \ {ch} : chain[k].pc = "unused"

=============================================================================
