----------------------------- MODULE StreamLease -----------------------------
(***************************************************************************)
(* What the cluster promises about the ownership of one live stream: a     *)
(* lease with fencing epochs.  One node at a time holds the lease, only    *)
(* the holder may renew it, every grant has an epoch above all earlier     *)
(* ones, the node Me stamps its media only with epochs that were granted   *)
(* to it, and accepts media only under leases that were really given.      *)
(* Nothing is promised about how soon a node learns of a change.           *)
(***************************************************************************)
EXTENDS Naturals

CONSTANTS Nodes, NoNode, Me

VARIABLES
    lease,    \* the lease as committed: [node, epoch]
    given,    \* every lease given so far
    stamps,   \* the epochs the publishers of Me stamp on their frames
    believed  \* the lease Me accepts media from

Free == [node |-> NoNode, epoch |-> 0]

LeaseInit ==
    /\ lease = Free
    /\ given = {}
    /\ stamps = {}
    /\ believed = Free

Grant(n) ==
    /\ lease.node \in {NoNode, n}
    /\ lease'.node = n
    /\ \A g \in given : g.epoch < lease'.epoch
    /\ given' = given \cup {lease'}
    /\ UNCHANGED <<stamps, believed>>

Revoke ==
    /\ lease' = Free
    /\ UNCHANGED <<given, stamps, believed>>

\* A step of the media path of Me: it takes up or drops epochs of its own, or
\* changes its mind about whom to accept media from.
Follow ==
    /\ stamps' \subseteq {g.epoch : g \in {x \in given : x.node = Me}}
    /\ believed' \in given \cup {Free}
    /\ UNCHANGED <<lease, given>>

LeaseNext == Revoke \/ Follow \/ \E n \in Nodes : Grant(n)

LeaseSpec == LeaseInit /\ [][LeaseNext]_<<lease, given, stamps, believed>>
=============================================================================
