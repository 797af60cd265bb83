------------------------- MODULE MCClusterOwnership -------------------------
(* Instances of ClusterOwnership for TLC. *)
EXTENDS ClusterOwnership

\* NoGhostOwner says nothing about what follows a stranding event.  One thing
\* goes wrong in a behaviour, a write, a read, the network or the process, and
\* then perhaps the write of the recovery from it.
OneFault ==
    /\ strands = {}
    /\ fails + shocks <= 1 \/ (Blocked("health", "recover") /\ Failed("health"))
=============================================================================
