-------------------------- MODULE ClusterMembership --------------------------
(***************************************************************************)
(* One node id joins, is promoted, drained, removed, crashes and joins     *)
(* again, as its own process and the voters of the cluster see it          *)
(* (manager.rs, membership.rs, health.rs, admission.rs, the control plane  *)
(* of network.rs).                                                         *)
(*                                                                         *)
(* `config` is the part of the Raft membership log about that id.  A voter *)
(* reads membership in two places: accept_join asks Raft (`view`), the     *)
(* callbacks use the copy of the metrics loop (`seen`), which lags behind. *)
(* What a voter keeps of the id in its maps is one Boolean per map.        *)
(***************************************************************************)
EXTENDS Integers, Sequences

CONSTANTS
    Voters,      \* the other members, voters throughout
    Joiner,      \* the node whose id this is about
    Tls,         \* CLUSTER_TLS: are the addresses in a heartbeat trusted?
    MaxConfigs,  \* bound: membership changes
    MaxEvents    \* bound: crashes, lost answers, elections, quorum losses,
                 \* load peaks, operator drains and timers that run out

ASSUME MembershipAssumption ==
    Joiner \notin Voters /\ Voters # {} /\ Tls \in BOOLEAN /\ MaxConfigs \in Nat /\ MaxEvents \in Nat

VARIABLES
    config,    \* the id's place in each committed membership
    leader,    \* the voter that is Raft's leader
    view,      \* membership each node's Raft has
    seen,      \* last_metrics of the voters
    peer,      \* HealthTracker: what a voter records of the id
    meta, counts, awaiting,          \* maps of a voter that have an entry of the id
    unspent, spent,                  \* its join proof in pending_join_proofs, used_admin_proofs
    prune,     \* where the two loops of a voter that prune its topology are
    beat,      \* where a voter's heartbeat handler is
    join,      \* the join request under way
    removal,   \* the remove_peer under way
    local,     \* health of the joining process, "off" when it does not run
    manual, draining, \* AdmissionController of that process
    store,     \* health a thread of it has decided on and not yet stored
    quorum,    \* does that process count a majority of voters alive?
    stray,     \* history: a handler the cleanup overtook still found a member
    torn,      \* history: the address of a join was taken while it was recorded
    events

maps == <<meta, counts, awaiting>>
hist == <<stray, torn>>
proofs == <<unspent, spent>>
own == <<local, manual, draining, store, quorum>>
raft == <<config, leader, view, seen>>
vars == <<raft, peer, maps, prune, proofs, beat, join, removal, own, hist, events>>

Nodes == Voters \cup {Joiner}
Loops == {"metrics", "health"}
Place(k) == IF k = 0 THEN "out" ELSE config[k]
Member(k) == Place(k) # "out"
Up == local \notin {"off", "Joining"}

Event == events < MaxEvents /\ events' = events + 1

\* A membership change is committed; the leader's Raft has it at once.
Change(place) ==
    /\ Len(config) < MaxConfigs
    /\ config' = Append(config, place)
    /\ view' = [view EXCEPT ![leader] = Len(config) + 1]
    /\ UNCHANGED <<leader, seen>>

-----------------------------------------------------------------------------
(***************************************************************************)
(* A join: start of the joining node, accept_join on the node it asks and, *)
(* when that is a follower, on the leader.                                 *)
(***************************************************************************)
NoJoin == [at |-> "none", via |-> leader, to |-> leader]
NoRemoval == [at |-> "none", by |-> leader]

\* A process with Raft state resumes; the peer it asks for the topology has
\* to know it as a member.
Resume(n) ==
    /\ local = "off" /\ view[Joiner] > 0 /\ join.at = "none"
    /\ Member(seen[n])
    /\ local' = IF Place(view[Joiner]) = "voter" THEN "Ready" ELSE "Learner"
    /\ UNCHANGED <<raft, peer, maps, prune, proofs, beat, join, removal, manual, draining, store, quorum, hist, events>>

\* An empty one sends a JoinRequest with its configured proof.
Ask(n) ==
    /\ local = "off" /\ view[Joiner] = 0 /\ join.at = "none"
    /\ local' = "Joining"
    /\ join' = [at |-> "asked", via |-> n, to |-> n]
    /\ UNCHANGED <<raft, peer, maps, prune, proofs, beat, removal, manual, draining, store, quorum, hist, events>>

\* start returns the error and the process ends.
Refuse ==
    /\ join' = NoJoin
    /\ local' = "off"

\* verify_admin_proof, active_member_blocks_rejoin
ProofValid(n) == ~spent[n]
BlocksRejoin(n) == Member(seen[n]) /\ peer[n] # "down"

RefuseJoin ==
    LET n == join.to
    IN  /\ join.at = "asked"
        /\ \/ ~ProofValid(n)
           \/ Member(view[n]) /\ BlocksRejoin(n)
           \/ n # leader /\ n # join.via
        /\ Refuse
        /\ UNCHANGED <<raft, peer, maps, prune, proofs, beat, removal, manual, draining, store, quorum, hist, events>>

Admissible(n) == join.at = "asked" /\ join.to = n /\ ProofValid(n) /\ ~(Member(view[n]) /\ BlocksRejoin(n))

ForwardJoin ==
    /\ Admissible(join.via) /\ join.via # leader
    /\ join' = [join EXCEPT !.to = leader]
    /\ UNCHANGED <<raft, peer, maps, prune, proofs, beat, removal, own, hist, events>>

\* SetNodes: the id keeps its place, its log is sent to the new address.
AcceptRejoin ==
    /\ Admissible(leader) /\ Member(view[leader])
    /\ join' = [join EXCEPT !.at = "accepted"]
    /\ UNCHANGED <<raft, peer, maps, prune, proofs, beat, removal, own, hist, events>>

\* add_learner commits first and then waits for the learner to catch up.
AddLearner ==
    /\ Admissible(leader) /\ ~Member(view[leader])
    /\ Change("learner")
    /\ join' = [join EXCEPT !.at = "catchup"]
    /\ UNCHANGED <<peer, maps, prune, proofs, beat, removal, own, hist, events>>

CaughtUp ==
    /\ join.at = "catchup" /\ view[Joiner] = Len(config)
    /\ join' = [join EXCEPT !.at = "accepted"]
    /\ UNCHANGED <<raft, peer, maps, prune, proofs, beat, removal, own, hist, events>>

\* JOIN_CATCHUP_TIMEOUT: the half-added learner is unlinked, or that fails.
CatchUpTimesOut ==
    /\ join.at = "catchup"
    /\ Refuse
    /\ \/ Place(Len(config)) = "learner" /\ Change("out") /\ UNCHANGED events
       \/ Event /\ UNCHANGED raft
    /\ UNCHANGED <<peer, maps, prune, proofs, beat, removal, manual, draining, store, quorum, hist>>

\* record_joined_peer_addresses: the addresses first, on the leader or on the
\* follower that forwarded the join, ...
Recorder == IF join.at \in {"accepted", "noting"} THEN join.to ELSE join.via
Recording(n) == join.at \in {"noting", "relaying"} /\ Recorder = n

RecordAddrs ==
    /\ join.at \in {"accepted", "relay"}
    /\ meta' = [meta EXCEPT ![Recorder] = TRUE]
    /\ torn' = [torn EXCEPT ![Recorder] = FALSE]
    /\ join' = [join EXCEPT !.at = IF @ = "accepted" THEN "noting" ELSE "relaying"]
    /\ UNCHANGED <<raft, peer, counts, awaiting, prune, proofs, beat, removal, own, stray, events>>

\* ... then, under a lock of its own, the hold.  A prune that has looked for
\* the hold and not found it is late by now.
Hold(n) ==
    /\ awaiting' = [awaiting EXCEPT ![n] = TRUE]
    /\ prune' = [prune EXCEPT ![n] = [w \in Loops |-> IF @[w] = "forget" THEN "late" ELSE @[w]]]

defer_join_proof_burn(n) ==
    /\ unspent' = [unspent EXCEPT ![n] = TRUE]
    /\ UNCHANGED spent

JoinAccepted ==
    /\ join.at = "noting"
    /\ Hold(join.to)
    /\ peer' = [peer EXCEPT ![join.to] = "up"]
    /\ defer_join_proof_burn(join.to)
    /\ join' = [join EXCEPT !.at = IF join.to = join.via THEN "answer" ELSE "relay"]
    /\ UNCHANGED <<raft, meta, counts, beat, removal, own, hist, events>>

\* The follower that forwarded it only keeps the addresses and the proof.
JoinRelayed ==
    /\ join.at = "relaying"
    /\ Hold(join.via)
    /\ defer_join_proof_burn(join.via)
    /\ join' = [join EXCEPT !.at = "answer"]
    /\ UNCHANGED <<raft, peer, meta, counts, beat, removal, own, hist, events>>

JoinAnswered ==
    /\ join.at = "answer"
    /\ join' = NoJoin
    /\ local' = "Learner"
    /\ UNCHANGED <<raft, peer, maps, prune, proofs, beat, removal, manual, draining, store, quorum, hist, events>>

JoinLost ==
    /\ join.at \in {"asked", "relay", "answer"} /\ Event
    /\ Refuse
    /\ UNCHANGED <<raft, peer, maps, prune, proofs, beat, removal, manual, draining, store, quorum, hist>>

-----------------------------------------------------------------------------
(***************************************************************************)
(* Operator requests: promote_learner and remove_peer.                     *)
(***************************************************************************)
Promote ==
    /\ Place(Len(config)) = "learner" /\ Change("voter")
    /\ UNCHANGED <<peer, maps, prune, proofs, beat, join, removal, own, hist, events>>

\* RemoveVoters unlinks a voter and leaves a learner as it is.
RemoveVoter(n) ==
    /\ removal.at = "none" /\ Member(Len(config))
    /\ removal' = [at |-> "unlink", by |-> n]
    /\ IF Place(Len(config)) = "voter" THEN Change("out") ELSE UNCHANGED raft
    /\ UNCHANGED <<peer, maps, prune, proofs, beat, join, own, hist, events>>

\* RemoveNodes is best effort.
RemoveNode ==
    /\ removal.at = "unlink"
    /\ removal' = [removal EXCEPT !.at = "clean"]
    /\ \/ Member(Len(config)) /\ Change("out") /\ UNCHANGED events
       \/ ~Member(Len(config)) /\ UNCHANGED <<raft, events>>
       \/ Member(Len(config)) /\ Event /\ UNCHANGED raft
    /\ UNCHANGED <<peer, maps, prune, proofs, beat, join, own, hist>>

\* What is forgotten of an id that is not a member: its addresses and its
\* health, and the counts of its heartbeats.
ForgetAddrs(n) ==
    /\ meta' = [meta EXCEPT ![n] = FALSE]
    /\ peer' = [peer EXCEPT ![n] = "none"]
    /\ beat' = [beat EXCEPT ![n] = IF @ = "noted" THEN "overtaken" ELSE @]

DropCounts(n) == counts' = [counts EXCEPT ![n] = FALSE]

RemovalForgets ==
    /\ removal.at = "clean"
    /\ removal' = [removal EXCEPT !.at = "unhold"]
    /\ ForgetAddrs(removal.by)
    /\ torn' = [torn EXCEPT ![removal.by] = @ \/ Recording(removal.by)]
    /\ UNCHANGED <<raft, counts, awaiting, prune, proofs, join, own, stray, events>>

\* remove_peer has removed the addresses of the id and still has to end its
\* hold and drop its counts.
Cleaning(n) == removal.at = "unhold" /\ removal.by = n

RemovalCleans ==
    /\ removal.at = "unhold"
    /\ removal' = NoRemoval
    /\ DropCounts(removal.by)
    /\ awaiting' = [awaiting EXCEPT ![removal.by] = FALSE]
    /\ UNCHANGED <<raft, peer, meta, prune, beat, proofs, join, own, hist, events>>

-----------------------------------------------------------------------------
(***************************************************************************)
(* What the voters do in the background.                                   *)
(***************************************************************************)
\* A node gets the next membership; a removed one may not hear of it.
Replicate(n) ==
    /\ view[n] < Len(config)
    /\ n = Joiner => (local # "off" /\ Member(Len(config))) \/ Up
    /\ view' = [view EXCEPT ![n] = @ + 1]
    /\ UNCHANGED <<config, leader, seen, peer, maps, prune, proofs, beat, join, removal, own, hist, events>>

\* metrics_loop copies the metrics and prunes the topology; health_loop prunes
\* it, too, on a task of its own.  prune_topology_to_membership clones the
\* membership, ends the hold of an id that is in it and goes through the
\* addresses it finds, ...
Prune(n, w, k) ==
    /\ prune[n][w] = "idle"
    /\ prune' = [prune EXCEPT ![n][w] = IF ~Member(k) /\ meta[n] THEN "out" ELSE "idle"]
    /\ awaiting' = [awaiting EXCEPT ![n] = @ /\ ~Member(k)]
    /\ torn' = [torn EXCEPT ![n] = @ /\ (Recording(n) \/ ~Member(k))]

MetricsChange(n) ==
    /\ seen' = [seen EXCEPT ![n] = view[n]]
    /\ Prune(n, "metrics", view[n])
    /\ UNCHANGED <<config, leader, view, peer, meta, counts, proofs, beat, join, removal, own, stray, events>>

HealthTick(n) ==
    /\ Prune(n, "health", seen[n])
    /\ UNCHANGED <<raft, peer, meta, counts, proofs, beat, join, removal, own, stray, events>>

\* Mutant: holds are not looked at.
prune_unheld(n) == TRUE

\* A join the leader accepted may not be in this node's membership yet.
Prunable(n) == ~awaiting[n]

\* ... looks for the hold of one that is not in the membership ...
PruneLooks(n, w) ==
    /\ prune[n][w] = "out"
    /\ prune' = [prune EXCEPT ![n][w] = IF Prunable(n) THEN "forget" ELSE "idle"]
    /\ UNCHANGED <<raft, peer, maps, proofs, beat, join, removal, own, hist, events>>

\* ... and removes the id from the maps, one lock after the other.
PruneForgets(n, w) ==
    /\ prune[n][w] \in {"forget", "late"}
    /\ ForgetAddrs(n) /\ DropCounts(n)
    /\ prune' = [prune EXCEPT ![n][w] = "idle"]
    /\ torn' = [torn EXCEPT ![n] = @ \/ (prune[n][w] = "late" /\ awaiting[n]) \/ Recording(n)]
    /\ UNCHANGED <<raft, awaiting, proofs, join, removal, own, stray, events>>

\* JOIN_MEMBERSHIP_HOLD is over.
HoldExpires(n) ==
    /\ awaiting[n] /\ join.at \notin {"relay", "relaying"} /\ Event
    /\ awaiting' = [awaiting EXCEPT ![n] = FALSE]
    /\ torn' = [torn EXCEPT ![n] = @ /\ Recording(n)]
    /\ UNCHANGED <<raft, peer, meta, counts, prune, proofs, beat, join, removal, own, stray>>

\* note_peer_heartbeat: the membership is checked, the proof spent and the
\* health recorded, ...
HeartbeatArrives(n) ==
    /\ Up /\ beat[n] = "none" /\ Member(seen[n])
    /\ beat' = [beat EXCEPT ![n] = "noted"]
    /\ peer' = [peer EXCEPT ![n] = "up"]
    /\ unspent' = [unspent EXCEPT ![n] = FALSE]
    /\ spent' = [spent EXCEPT ![n] = @ \/ unspent[n]]
    /\ meta' = [meta EXCEPT ![n] = @ \/ Tls]
    /\ stray' = [stray EXCEPT ![n] = FALSE]
    /\ UNCHANGED <<raft, counts, awaiting, prune, join, removal, own, torn, events>>

\* The second check of the membership, after the counts are in.
CountsKept(n) == Member(seen[n])

\* ... then the session counts are stored, and dropped again when the id was
\* removed meanwhile.
HeartbeatCounts(n) ==
    /\ beat[n] # "none"
    /\ beat' = [beat EXCEPT ![n] = "none"]
    /\ counts' = [counts EXCEPT ![n] = CountsKept(n)]
    /\ stray' = [stray EXCEPT ![n] = beat[n] = "overtaken" /\ Member(seen[n])]
    /\ UNCHANGED <<raft, peer, meta, awaiting, prune, proofs, join, removal, own, torn, events>>

\* sweep_stale: the heartbeats of the id are missing.
Sweep(n) ==
    /\ peer[n] = "up"
    /\ IF Up THEN Event ELSE UNCHANGED events
    /\ peer' = [peer EXCEPT ![n] = "down"]
    /\ UNCHANGED <<raft, maps, prune, proofs, beat, join, removal, own, hist>>

\* The leader released the owners of a node that is down for long.
DownReleased(n) ==
    /\ n = leader /\ peer[n] = "down" /\ counts[n]
    /\ counts' = [counts EXCEPT ![n] = FALSE]
    /\ UNCHANGED <<raft, peer, meta, awaiting, prune, proofs, beat, join, removal, own, hist, events>>

\* expire_pending_join_proofs after ADMIN_PROOF_REPLAY_TTL, which is longer
\* than any request
ProofExpires(n) ==
    /\ unspent[n] /\ join.at = "none" /\ Event
    /\ unspent' = [unspent EXCEPT ![n] = FALSE]
    /\ spent' = [spent EXCEPT ![n] = TRUE]
    /\ UNCHANGED <<raft, peer, maps, prune, beat, join, removal, own, hist>>

\* purge_expired_admin_proofs
ProofPurged(n) ==
    /\ spent[n] /\ Event
    /\ spent' = [spent EXCEPT ![n] = FALSE]
    /\ UNCHANGED <<raft, peer, maps, prune, unspent, beat, join, removal, own, hist>>

\* An election; who wins has the whole log.
LeaderMoves(n) ==
    /\ n # leader /\ view[n] = Len(config) /\ Event
    /\ leader' = n
    /\ UNCHANGED <<config, view, seen, peer, maps, prune, proofs, beat, join, removal, own, hist>>

-----------------------------------------------------------------------------
(***************************************************************************)
(* The joining process: its health and its admission control.  The load    *)
(* probe and the admin handler read the health, decide and store it later; *)
(* the loops may have stored another one meanwhile.                        *)
(***************************************************************************)
\* prune_topology_to_membership on the node itself
Promoted ==
    /\ local = "Learner" /\ Place(view[Joiner]) = "voter"
    /\ local' = "Ready"
    /\ UNCHANGED <<raft, peer, maps, prune, proofs, beat, join, removal, manual, draining, store, quorum, hist, events>>

Leaves ==
    /\ Up /\ local # "Leaving" /\ view[Joiner] > 0 /\ ~Member(view[Joiner])
    /\ local' = "Leaving"
    /\ manual' = TRUE
    /\ UNCHANGED <<raft, peer, maps, prune, proofs, beat, join, removal, draining, store, quorum, hist, events>>

\* health_loop: the quorum is lost or restored.
Isolates ==
    /\ Up /\ ~quorum /\ local # "Isolated"
    /\ local' = "Isolated"
    /\ UNCHANGED <<raft, peer, maps, prune, proofs, beat, join, removal, manual, draining, store, quorum, hist, events>>

\* Mutant: every node serves again when the quorum is back.
restored_ready == "Ready"

Restored == IF Place(view[Joiner]) = "voter" THEN "Ready" ELSE "Learner"

Recovers ==
    /\ local = "Isolated" /\ quorum
    /\ local' = Restored
    /\ UNCHANGED <<raft, peer, maps, prune, proofs, beat, join, removal, manual, draining, store, quorum, hist, events>>

QuorumChanges ==
    /\ \/ quorum /\ Event
       \/ ~quorum /\ UNCHANGED events
    /\ quorum' = ~quorum
    /\ UNCHANGED <<raft, peer, maps, prune, proofs, beat, join, removal, local, manual, draining, store, hist>>

Decide(value, when) == store' = IF when THEN value ELSE "none"

\* update_load at the drain and at the resume threshold
LoadHigh ==
    /\ Up /\ store = "none" /\ ~draining /\ Event
    /\ draining' = TRUE
    /\ Decide("Draining", local = "Ready")
    /\ UNCHANGED <<raft, peer, maps, prune, proofs, beat, join, removal, local, manual, quorum, hist>>

LoadLow ==
    /\ Up /\ store = "none" /\ draining
    /\ draining' = FALSE
    /\ Decide("Ready", ~manual /\ local = "Draining")
    /\ UNCHANGED <<raft, peer, maps, prune, proofs, beat, join, removal, local, manual, quorum, hist, events>>

force_drain ==
    /\ Up /\ store = "none" /\ Event
    /\ manual' = TRUE
    /\ Decide("Draining", local \in {"Ready", "Draining"})
    /\ UNCHANGED <<raft, peer, maps, prune, proofs, beat, join, removal, local, draining, quorum, hist>>

force_resume ==
    /\ Up /\ store = "none" /\ (manual \/ draining \/ local = "Draining")
    /\ manual' = FALSE /\ draining' = FALSE
    /\ Decide("Ready", local = "Draining")
    /\ UNCHANGED <<raft, peer, maps, prune, proofs, beat, join, removal, local, quorum, hist, events>>

SetLocal ==
    /\ Up /\ store # "none"
    /\ local' = store
    /\ store' = "none"
    /\ UNCHANGED <<raft, peer, maps, prune, proofs, beat, join, removal, manual, draining, quorum, hist, events>>

\* The process ends; it may come back with an empty database.
Crash(reseeded) ==
    /\ Up /\ Event
    /\ local' = "off" /\ manual' = FALSE /\ draining' = FALSE /\ store' = "none"
    /\ view' = [view EXCEPT ![Joiner] = IF reseeded THEN 0 ELSE @]
    /\ UNCHANGED <<config, leader, seen, peer, maps, prune, proofs, beat, join, removal, quorum, hist>>

Init ==
    /\ config = <<>>
    /\ leader \in Voters
    /\ view = [n \in Nodes |-> 0]
    /\ seen = [n \in Voters |-> 0]
    /\ peer = [n \in Voters |-> "none"]
    /\ meta = [n \in Voters |-> FALSE] /\ counts = [n \in Voters |-> FALSE]
    /\ awaiting = [n \in Voters |-> FALSE]
    /\ unspent = [n \in Voters |-> FALSE] /\ spent = [n \in Voters |-> FALSE]
    /\ stray = [n \in Voters |-> FALSE] /\ torn = [n \in Voters |-> FALSE]
    /\ prune = [n \in Voters |-> [w \in Loops |-> "idle"]]
    /\ beat = [n \in Voters |-> "none"]
    /\ join = NoJoin
    /\ removal = NoRemoval
    /\ local = "off" /\ manual = FALSE /\ draining = FALSE /\ store = "none" /\ quorum = TRUE
    /\ events = 0

Next ==
    \/ RefuseJoin \/ ForwardJoin \/ AcceptRejoin \/ AddLearner \/ CaughtUp \/ CatchUpTimesOut
    \/ RecordAddrs \/ JoinAccepted \/ JoinRelayed \/ JoinAnswered \/ JoinLost
    \/ Promote \/ RemoveNode \/ RemovalForgets \/ RemovalCleans
    \/ Promoted \/ Leaves \/ Isolates \/ Recovers \/ QuorumChanges
    \/ LoadHigh \/ LoadLow \/ force_drain \/ force_resume \/ SetLocal
    \/ \E reseeded \in BOOLEAN : Crash(reseeded)
    \/ \E n \in Nodes : Replicate(n)
    \/ \E n \in Voters :
          \/ Resume(n) \/ Ask(n) \/ RemoveVoter(n)
          \/ MetricsChange(n) \/ HealthTick(n) \/ HoldExpires(n)
          \/ \E w \in Loops : PruneLooks(n, w) \/ PruneForgets(n, w)
          \/ HeartbeatArrives(n) \/ HeartbeatCounts(n)
          \/ Sweep(n) \/ DownReleased(n) \/ ProofExpires(n) \/ ProofPurged(n) \/ LeaderMoves(n)

Spec == Init /\ [][Next]_vars

-----------------------------------------------------------------------------
(***************************************************************************)
(* Properties.                                                             *)
(***************************************************************************)
Flags == [Voters -> BOOLEAN]

(* Every variable has its type, no node is ahead of the membership log,    *)
(* and the process is joining exactly while its request is under way.      *)
TypeOK ==
    /\ config \in Seq({"out", "learner", "voter"})
    /\ leader \in Voters
    /\ view \in [Nodes -> Nat] /\ seen \in [Voters -> Nat]
    /\ \A n \in Nodes : view[n] <= Len(config)
    /\ \A n \in Voters : seen[n] <= view[n]
    /\ peer \in [Voters -> {"none", "up", "down"}]
    /\ meta \in Flags /\ counts \in Flags /\ awaiting \in Flags
    /\ unspent \in Flags /\ spent \in Flags /\ stray \in Flags /\ torn \in Flags
    /\ prune \in [Voters -> [Loops -> {"idle", "out", "forget", "late"}]]
    /\ beat \in [Voters -> {"none", "noted", "overtaken"}]
    /\ join \in [at : {"none", "asked", "catchup", "accepted", "noting", "relay", "relaying", "answer"}, via : Voters, to : Voters]
    /\ (local = "Joining") = (join.at # "none")
    /\ removal \in [at : {"none", "unlink", "clean", "unhold"}, by : Voters]
    /\ local \in {"off", "Joining", "Learner", "Ready", "Draining", "Isolated", "Leaving"}
    /\ store \in {"none", "Ready", "Draining"}
    /\ manual \in BOOLEAN /\ draining \in BOOLEAN /\ quorum \in BOOLEAN
    /\ events \in Nat

(* A node serves publishers only after it applied its promotion to voter:  *)
(* a drain and a resume, an isolation, a restart or a rejoin with an empty *)
(* database never open the gate of a learner.                              *)
LearnerWaits ==
    local \in {"Ready", "Draining"} => \E k \in 1..view[Joiner] : config[k] = "voter"

(* The session counts of an id that is no longer a member do not stay in a *)
(* voter's caches: the topology prune, which walks meta, remove_peer or    *)
(* the handler that stored them still removes them.  Escaped have only the *)
(* counts of a handler that the cleanup overtook and that then found the   *)
(* id in last_metrics (`stray`): those lag behind remove_peer, the cleanup *)
(* worked on an older clone of them, or the id had joined again.  Without  *)
(* TLS a heartbeat leaves no addresses and nothing is claimed.             *)
CountsPruned ==
    \A n \in Voters : Tls /\ counts[n] /\ ~Member(seen[n]) => meta[n] \/ stray[n] \/ Cleaning(n)

(* While the hold of an accepted join is in force the address it is for is *)
(* there: a prune that looks for the hold when it is in place does not take*)
(* the address, however old the membership it cloned is.  remove_peer ends *)
(* the hold a moment after it removed the address.  Not protected is a     *)
(* join whose recording overlaps a removal or the look and the removals of *)
(* a prune (`torn`): addresses and holds have two locks.                   *)
JoinHeld ==
    \A n \in Voters :
        awaiting[n] => meta[n] \/ torn[n] \/ Cleaning(n)

(* Until the joining node has its answer the proof stays good on the nodes *)
(* that accepted it: if the answer is lost it can ask again.               *)
RetryPossible ==
    join.at \in {"relay", "relaying", "answer"} =>
        ~spent[join.to] /\ (join.at = "answer" => ~spent[join.via])

(* What the voters remember of a node follows its membership: no counts of *)
(* a removed one (but for strays), no address forgotten under a hold (but  *)
(* for one torn out while it was recorded), no spent proof of one that may *)
(* have to ask again (manager.rs note_peer_heartbeat,                      *)
(* prune_topology_to_membership, defer_join_proof_burn).                   *)
CachesFollowMembership == CountsPruned /\ JoinHeld /\ RetryPossible
=============================================================================
