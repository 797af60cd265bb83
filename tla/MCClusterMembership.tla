------------------------ MODULE MCClusterMembership ------------------------
(* ClusterMembership with two voters and one node that comes and goes.     *)
EXTENDS ClusterMembership, FiniteSets, TLC

VoterSymmetry == Permutations(Voters)

Pruning == {p \in Voters \X Loops : prune[p[1]][p[2]] # "idle"}

\* Three membership changes, the third a promotion or a second join, or an
\* event from outside before or after the promotion; removals at the leader,
\* one prune at a time.
Bounded ==
    /\ events > 0 => Len(config) <= 1 \/ config = <<"learner", "voter">>
    /\ removal.at = "none" \/ removal.by = leader
    /\ Len(config) = 3 => config[3] # "out"
    /\ Cardinality(Pruning) <= 1

\* Up to the second change a prune of the health loop is overtaken by joins,
\* removals and heartbeats that are under way.
Overtaken ==
    Pruning # {} /\ prune' = prune =>
        /\ \A p \in Pruning : p[2] = "health"
        /\ Len(config) <= 2 /\ events = 0
        /\ UNCHANGED <<config, own, events>>
=============================================================================
