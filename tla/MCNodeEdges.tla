----------------------------- MODULE MCNodeEdges -----------------------------
(***************************************************************************)
(* Four questions about what a node keeps of its connections, asked in one *)
(* run.  A behaviour belongs to one part, chosen at the start; the         *)
(* variables of the others keep their initial values.                      *)
(*                                                                         *)
(*   slots    PlayerSlots: three sessions of one play key, one more than   *)
(*            the cap, and one of another;                                 *)
(*   roles    ConnRoles: one connection that publishes and plays;          *)
(*   shards   ShardRelay: two shards that hand frames and route ends over; *)
(*   poll     PollReadiness: the descriptors a shard waits on.             *)
(***************************************************************************)
EXTENDS PlayerSlots, TLC

CONSTANTS v1, v2, p1, p2, p3, q1, NoRoute,
          MaxRequests, RoleFaults,                                     \* ConnRoles
          Shards, Conns, Home, Routes, Wants, InboxCap, MaxFrames, MaxEnds,  \* ShardRelay
          Fds, Listener, MaxConns, MaxId                               \* PollReadiness

MCViewerOf == (p1 :> v1) @@ (p2 :> v1) @@ (p3 :> v1) @@ (q1 :> v2)
MCStreamKeys == {{v1}, {v2}}
MCHome == [c1 |-> 1, d1 |-> 2]
MCWants == [c1 |-> {"q", "r"}, d1 |-> {"r"}]
MCSymmetry == Permutations({p1, p2, p3})

\* Every connection has a shard and routes it may publish; NoRoute is none.
ASSUME RelayAssumption ==
    /\ Home \in [Conns -> Shards] /\ Wants \in [Conns -> SUBSET Routes]
    /\ NoRoute \notin Conns \cup Routes

\* The listener's descriptor is no connection's.
ASSUME PollAssumption == Listener \notin Fds /\ MaxId \in Nat

VARIABLES
    part,
    asked, pending, on, jobs, answers, held, stream, known, relay, pc, leaving, idle, forced,
    closed, roleFaults, newest, running, lost, calm,
    phase, publishes, exported, routes, connRoute, renamed, pendingEnds, serving, frames, ends, dirty,
    inbox, claims, wake,
    polling, connOf, backlog, lastId, registered, kernel, readable, onlyAt, slept

Roles == INSTANCE ConnRoles WITH faults <- roleFaults, MaxFaults <- RoleFaults
Relay == INSTANCE ShardRelay WITH None <- NoRoute
Poll == INSTANCE PollReadiness

rolesPart == <<asked, pending, on, jobs, answers, held, stream, known, relay, pc, leaving, idle,
               forced, closed, roleFaults, newest, running, lost, calm>>
shardsPart == <<phase, publishes, exported, routes, connRoute, renamed, pendingEnds, serving, frames,
                ends, dirty, inbox, claims, wake>>
pollPart == <<polling, connOf, backlog, lastId, registered, kernel, readable, onlyAt, slept>>
EdgeVars == <<vars, part, rolesPart, shardsPart, pollPart>>

EdgeInit ==
    /\ part \in {"slots", "roles", "shards", "poll"}
    /\ Init /\ Roles!Init /\ Relay!Init /\ Poll!Init

SlotsStep == part = "slots" /\ Next /\ UNCHANGED <<rolesPart, shardsPart, pollPart>>
RolesStep == part = "roles" /\ Roles!Next /\ UNCHANGED <<vars, shardsPart, pollPart>>
ShardsStep == part = "shards" /\ Relay!Next /\ UNCHANGED <<vars, rolesPart, pollPart>>
PollStep == part = "poll" /\ Poll!Next /\ UNCHANGED <<vars, rolesPart, shardsPart>>

EdgeNext ==
    /\ UNCHANGED part
    /\ SlotsStep \/ RolesStep \/ ShardsStep \/ PollStep

EdgeSpec == EdgeInit /\ [][EdgeNext]_EdgeVars

(***************************************************************************)
(* An undisturbed tick without a failing write leaves a connection with    *)
(* exactly the sessions of the roles it is in, whatever answers came late, *)
(* requests replaced each other and releases failed before it; and a       *)
(* release meant for an earlier session does not remove a newer one, but   *)
(* for the events NewestKept names (process_server_connections,            *)
(* apply_auth_completion, release_publisher_if_id, release_player_if_id).  *)
(***************************************************************************)
RolesKept == Roles!RolesAgree /\ Roles!NewestKept

(***************************************************************************)
(* No hand-over is lost: a route that ended on one shard is not claimed    *)
(* for ever on another, a full inbox still leads to a wakeup, and a        *)
(* descriptor with unread bytes is registered with the kernel or looked at *)
(* without it (ShardRelay, PollReadiness).                                 *)
(***************************************************************************)
HandOversKept == Relay!NoStrandedClaim /\ Relay!NoLostWakeup /\ Poll!NoDeafConnection
=============================================================================
