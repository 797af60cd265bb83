--------------------------- MODULE ReplicatedState ---------------------------
(***************************************************************************)
(* SqliteStateMachine (raft/state_machine.rs): how each node turns the     *)
(* committed Raft log into its tables, builds snapshots on a task of its   *)
(* own and installs the snapshots of others, with crashes between any two  *)
(* SQLite commits.  apply, build_snapshot and install_snapshot exclude     *)
(* each other by apply_lock; `lock` says who holds it and how far it is.   *)
(*                                                                         *)
(* OpenRaft is external: it commits an entry once a quorum has it in its   *)
(* log, hands a node the entries of its log in order, from the one after   *)
(* the last_applied it is told, purges a log only up to the node's stored  *)
(* snapshot, and sends a snapshot to a peer that lacks an entry the sender *)
(* has purged.                                                             *)
(***************************************************************************)
EXTENDS ClusterCommands, Sequences

CONSTANTS
    Nodes,       \* the nodes that hold a copy of the state
    Proposals,   \* bound: the entries that may be proposed
    Quorums,     \* the sets of nodes that can commit an entry
    MaxLog,      \* bound: length of the log
    MaxCrashes,  \* bound: crashes of all nodes together
    CrashAt,     \* where a crash may strike (values of lock)
    Builders,    \* bound: the nodes whose snapshot policy fires
    MaxUnlocked  \* MAX_UNLOCKED_ATTEMPTS

LockStates == {"free", "apply", "build", "publish", "install", "indexed"}

ASSUME ProposalAssumption ==
    Proposals \subseteq Commands /\ Nodes \subseteq NodeIds /\ Quorums \subseteq SUBSET Nodes
ASSUME LimitAssumption ==
    /\ MaxLog \in Nat /\ MaxCrashes \in Nat /\ MaxUnlocked \in Nat
    /\ CrashAt \subseteq LockStates
    /\ Builders \subseteq Nodes

VARIABLES
    log,      \* the committed entries (external)
    hist,     \* history: tables and voters after each prefix of the log
    received, \* the last entry in the log of each node (external)
    tables,   \* the replicated tables of each node
    members,  \* last_membership
    applied,  \* last_applied, 0 for none
    ahead,    \* history: 1 from a crash between a command's commit and its index
              \* until the command is applied again
    lock,     \* holder of apply_lock
    incoming, \* the snapshot being installed
    built,    \* the snapshot the builder has captured
    retries,  \* its retries
    current,  \* current_snapshot, in memory
    stored,   \* raft_snapshots
    purged,   \* last_purged_log_id (external)
    crashes

nodeVars == <<received, tables, members, applied, ahead, lock, incoming, built, retries, current,
              stored, purged>>
vars == <<log, hist, nodeVars, crashes>>

\* `ahead` (history) is that of the node that captured the snapshot.
Snapshot(at, t, m, d) == [at |-> at, tables |-> t, members |-> m, ahead |-> d]
NoSnapshot == Snapshot(-1, EmptyTables, {}, 0)

\* last_membership as the next entry leaves it.
MembersAfter(m, c) == IF c.op = "members" THEN c.members ELSE m

Init ==
    /\ log = <<>>
    /\ hist = [k \in {0} |-> [tables |-> EmptyTables, members |-> {}]]
    /\ received = [n \in Nodes |-> 0]
    /\ tables = [n \in Nodes |-> EmptyTables]
    /\ members = [n \in Nodes |-> {}]
    /\ applied = [n \in Nodes |-> 0]
    /\ ahead = [n \in Nodes |-> 0]
    /\ lock = [n \in Nodes |-> "free"]
    /\ incoming = [n \in Nodes |-> NoSnapshot]
    /\ built = [n \in Nodes |-> NoSnapshot]
    /\ retries = [n \in Nodes |-> 0]
    /\ current = [n \in Nodes |-> NoSnapshot]
    /\ stored = [n \in Nodes |-> NoSnapshot]
    /\ purged = [n \in Nodes |-> 0]
    /\ crashes = 0

\* OpenRaft commits one more entry (external).
Commit(c, Q) ==
    /\ Len(log) < MaxLog
    /\ \A n \in Q : received[n] = Len(log)
    /\ received' = [n \in Nodes |-> IF n \in Q THEN Len(log) + 1 ELSE received[n]]
    /\ log' = Append(log, c)
    /\ hist' = [k \in 0..(Len(log) + 1) |->
                  IF k <= Len(log) THEN hist[k]
                  ELSE [tables |-> apply_command(hist[Len(log)].tables, c, Len(log) + 1),
                        members |-> MembersAfter(hist[Len(log)].members, c)]]
    /\ UNCHANGED <<tables, members, applied, ahead, lock, incoming, built, retries, current,
                   stored, purged, crashes>>

\* A node gets an entry from one that still has it (external).
Replicates(n, m) ==
    /\ lock[n] \notin {"install", "indexed"}
    /\ purged[m] <= received[n] /\ received[n] < received[m]
    /\ received' = [received EXCEPT ![n] = @ + 1]
    /\ UNCHANGED <<log, hist, tables, members, applied, ahead, lock, incoming, built, retries,
                   current, stored, purged, crashes>>

-----------------------------------------------------------------------------
Free(n) == lock[n] = "free"
Goes(n, where) == lock' = [lock EXCEPT ![n] = where]

\* apply: the command's own transaction first ...
Applies(n) ==
    /\ Free(n)
    /\ applied[n] < received[n]
    /\ tables' = [tables EXCEPT ![n] = apply_command(@, log[applied[n] + 1], applied[n] + 1)]
    /\ Goes(n, "apply")
    /\ UNCHANGED <<log, hist, received, members, applied, ahead, incoming, built, retries,
                   current, stored, purged, crashes>>

\* ... then persist_applied_tx: the index, with the voters of a membership
\* entry in the same transaction.
PersistsApplied(n) ==
    /\ lock[n] = "apply"
    /\ applied' = [applied EXCEPT ![n] = @ + 1]
    /\ members' = [members EXCEPT ![n] = MembersAfter(@, log[applied[n] + 1])]
    /\ ahead' = [ahead EXCEPT ![n] = 0]
    /\ Goes(n, "free")
    /\ UNCHANGED <<log, hist, received, tables, incoming, built, retries, current,
                   stored, purged, crashes>>

-----------------------------------------------------------------------------
\* Mutant: the capture does not wait for apply_lock.
CapturesUnlocked(n) ==
    /\ n \in Builders
    /\ built[n] = NoSnapshot
    /\ applied[n] > current[n].at \/ retries[n] > 0
    /\ built' = [built EXCEPT ![n] = Snapshot(applied[n], tables[n], members[n], ahead[n])]
    /\ UNCHANGED <<log, hist, received, tables, members, applied, ahead, lock, incoming, retries,
                   current, stored, purged, crashes>>

\* build_snapshot, asked for when there is something new (external): read
\* everything under the lock; let it go for the encoding unless that has failed
\* too often.
Captures(n) ==
    /\ n \in Builders /\ Free(n)
    /\ built[n] = NoSnapshot
    /\ applied[n] > current[n].at \/ retries[n] > 0
    /\ built' = [built EXCEPT ![n] = Snapshot(applied[n], tables[n], members[n], ahead[n])]
    /\ Goes(n, IF retries[n] < MaxUnlocked THEN "free" ELSE "build")
    /\ UNCHANGED <<log, hist, received, tables, members, applied, ahead, incoming, retries,
                   current, stored, purged, crashes>>

\* Mutant: publish what was captured, whatever has happened since.
PublishesBlindly(n) ==
    /\ lock[n] \in {"free", "build"} /\ built[n] # NoSnapshot
    /\ current' = [current EXCEPT ![n] = built[n]]
    /\ Goes(n, "publish")
    /\ UNCHANGED <<log, hist, received, tables, members, applied, ahead, incoming, built,
                   retries, stored, purged, crashes>>

\* Publication, under the lock again: not behind a newer snapshot, and not
\* behind the entries applied meanwhile.
Publishes(n) ==
    /\ lock[n] \in {"free", "build"} /\ built[n] # NoSnapshot
    /\ IF current[n].at > built[n].at
       THEN /\ built' = [built EXCEPT ![n] = NoSnapshot]
            /\ retries' = [retries EXCEPT ![n] = 0]
            /\ Goes(n, "free")
            /\ UNCHANGED current
       ELSE IF applied[n] > built[n].at
       THEN /\ built' = [built EXCEPT ![n] = NoSnapshot]
            /\ retries' = [retries EXCEPT ![n] = @ + 1]
            /\ Goes(n, "free")
            /\ UNCHANGED current
       ELSE /\ current' = [current EXCEPT ![n] = built[n]]
            /\ Goes(n, "publish")
            /\ UNCHANGED <<built, retries>>
    /\ UNCHANGED <<log, hist, received, tables, members, applied, ahead, incoming, stored,
                   purged, crashes>>

PersistsBuilt(n) ==
    /\ lock[n] = "publish"
    /\ stored' = [stored EXCEPT ![n] = built[n]]
    /\ built' = [built EXCEPT ![n] = NoSnapshot]
    /\ retries' = [retries EXCEPT ![n] = 0]
    /\ Goes(n, "free")
    /\ UNCHANGED <<log, hist, received, tables, members, applied, ahead, incoming, current,
                   purged, crashes>>

\* Log compaction (external; SqliteLogStore::purge).
Purges(n) ==
    /\ purged[n] < stored[n].at
    /\ purged' = [purged EXCEPT ![n] = stored[n].at]
    /\ UNCHANGED <<log, hist, received, tables, members, applied, ahead, lock, incoming, built,
                   retries, current, stored, crashes>>

-----------------------------------------------------------------------------
\* install_snapshot on n of what get_current_snapshot returns on m: first the
\* tables (install_app_snapshot) ...
InstallsTables(n, m) ==
    /\ Free(n) /\ n # m
    /\ purged[m] > received[n]
    /\ current[m].at > applied[n]
    /\ incoming' = [incoming EXCEPT ![n] = current[m]]
    /\ tables' = [tables EXCEPT ![n] = current[m].tables]
    /\ ahead' = [ahead EXCEPT ![n] = current[m].ahead]
    /\ Goes(n, "install")
    /\ UNCHANGED <<log, hist, received, members, applied, built, retries, current,
                   stored, purged, crashes>>

\* Mutant: the boundary is recorded without the snapshot's voters.
InstallsBoundary(n) ==
    /\ lock[n] = "install"
    /\ applied' = [applied EXCEPT ![n] = incoming[n].at]
    /\ Goes(n, "indexed")
    /\ UNCHANGED <<log, hist, received, tables, ahead, members, incoming, built, retries, current,
                   stored, purged, crashes>>

\* Mutant: only the voters are recorded, last_applied stays.
InstallsMembers(n) ==
    /\ lock[n] = "install"
    /\ members' = [members EXCEPT ![n] = incoming[n].members]
    /\ Goes(n, "indexed")
    /\ UNCHANGED <<log, hist, received, tables, applied, ahead, incoming, built, retries, current,
                   stored, purged, crashes>>

\* ... then the boundary and the voters ...
InstallsIndex(n) ==
    /\ lock[n] = "install"
    /\ applied' = [applied EXCEPT ![n] = incoming[n].at]
    /\ members' = [members EXCEPT ![n] = incoming[n].members]
    /\ Goes(n, "indexed")
    /\ UNCHANGED <<log, hist, received, tables, ahead, incoming, built, retries, current,
                   stored, purged, crashes>>

\* A log that ends before the applied index is taken to end there (external).
LogEnd(end, k) == IF end < k THEN k ELSE end

\* ... then the snapshot itself.
InstallsSnapshot(n) ==
    /\ lock[n] = "indexed"
    /\ current' = [current EXCEPT ![n] = incoming[n]]
    /\ stored' = [stored EXCEPT ![n] = incoming[n]]
    /\ incoming' = [incoming EXCEPT ![n] = NoSnapshot]
    /\ received' = [received EXCEPT ![n] = LogEnd(@, incoming[n].at)]
    /\ Goes(n, "free")
    /\ UNCHANGED <<log, hist, tables, members, applied, ahead, built, retries, purged,
                   crashes>>

\* Mutant: the stored snapshot is not loaded again.
CrashesForgetting(n) ==
    /\ crashes < MaxCrashes /\ lock[n] \in CrashAt
    /\ crashes' = crashes + 1
    /\ Goes(n, "free")
    /\ incoming' = [incoming EXCEPT ![n] = NoSnapshot]
    /\ built' = [built EXCEPT ![n] = NoSnapshot]
    /\ retries' = [retries EXCEPT ![n] = 0]
    /\ current' = [current EXCEPT ![n] = NoSnapshot]
    /\ received' = [received EXCEPT ![n] = LogEnd(@, applied[n])]
    /\ ahead' = [ahead EXCEPT ![n] = IF lock[n] = "apply" THEN 1 ELSE @]
    /\ UNCHANGED <<log, hist, tables, members, applied, stored, purged>>

\* A crash and the restart: what is committed stays (SqliteStateMachine::new,
\* get_current_snapshot).  A storage error ends the node the same way.
Crashes(n) ==
    /\ crashes < MaxCrashes /\ lock[n] \in CrashAt
    /\ crashes' = crashes + 1
    /\ Goes(n, "free")
    /\ incoming' = [incoming EXCEPT ![n] = NoSnapshot]
    /\ built' = [built EXCEPT ![n] = NoSnapshot]
    /\ retries' = [retries EXCEPT ![n] = 0]
    /\ current' = [current EXCEPT ![n] = stored[n]]
    /\ received' = [received EXCEPT ![n] = LogEnd(@, applied[n])]
    /\ ahead' = [ahead EXCEPT ![n] = IF lock[n] = "apply" THEN 1 ELSE @]
    /\ UNCHANGED <<log, hist, tables, members, applied, stored, purged>>

NodeNext(n) ==
    \/ Applies(n) \/ PersistsApplied(n)
    \/ Captures(n) \/ Publishes(n) \/ PersistsBuilt(n)
    \/ Purges(n)
    \/ \E m \in Nodes : Replicates(n, m) \/ InstallsTables(n, m)
    \/ InstallsIndex(n) \/ InstallsSnapshot(n)

Next ==
    \/ \E c \in Proposals, Q \in Quorums : Commit(c, Q)
    \/ \E n \in Nodes : NodeNext(n) \/ Crashes(n)

Spec == Init /\ [][Next]_vars

(***************************************************************************)
(* A node goes on with what it has begun and with the entries it has (its  *)
(* state machine worker never stops), and OpenRaft keeps replicating to a  *)
(* node that is behind, by entries or by snapshot.  Snapshots need never   *)
(* be built, and clients owe nothing.                                      *)
(***************************************************************************)
Fairness ==
    \A n \in Nodes :
        /\ WF_vars(Applies(n) \/ PersistsApplied(n) \/ InstallsIndex(n) \/ InstallsSnapshot(n))
        /\ WF_vars(Publishes(n) \/ PersistsBuilt(n))
        /\ SF_vars(\E m \in Nodes : Replicates(n, m) \/ InstallsTables(n, m))

FairSpec == Spec /\ Fairness

-----------------------------------------------------------------------------
Snapshots == [at : -1..Len(log), tables : Tables, members : SUBSET NodeIds, ahead : {0, 1}]
Histories == [tables : Tables, members : SUBSET NodeIds]

\* Every variable has its type.
TypeOK ==
    /\ log \in Seq(Commands) /\ Len(log) <= MaxLog
    /\ hist \in [0..Len(log) -> Histories]
    /\ received \in [Nodes -> 0..Len(log)]
    /\ tables \in [Nodes -> Tables]
    /\ members \in [Nodes -> SUBSET NodeIds]
    /\ applied \in [Nodes -> 0..Len(log)]
    /\ ahead \in [Nodes -> {0, 1}]
    /\ lock \in [Nodes -> LockStates]
    /\ incoming \in [Nodes -> Snapshots]
    /\ built \in [Nodes -> Snapshots]
    /\ retries \in [Nodes -> Nat]
    /\ current \in [Nodes -> Snapshots]
    /\ stored \in [Nodes -> Snapshots]
    /\ purged \in [Nodes -> 0..Len(log)]
    /\ crashes \in 0..MaxCrashes

\* Tables t are exactly those of the log up to k + d.
Matches(t, k, d) == k + d <= Len(log) /\ t = hist[k + d].tables

\* "order still safe: lagging last_applied re-applies idempotently after
\* crash": the tables of a node are exactly those of its index, or of the entry
\* after it between that entry's two commits, and from a crash there until the
\* entry has been applied again.
TablesMatchLog ==
    \A n \in Nodes :
        Matches(tables[n], IF lock[n] = "install" THEN incoming[n].at ELSE applied[n],
                           IF lock[n] = "apply" THEN 1 ELSE ahead[n])

\* The same of a node that has applied the whole log: it agrees with every
\* other one.
CaughtUpAgree ==
    \A n \in Nodes : Free(n) /\ applied[n] = Len(log) => tables[n] = hist[Len(log)].tables

\* A snapshot, in memory, on disk or on its way, holds exactly the tables and
\* the voters of its index, although it is captured on a task of its own while
\* entries are applied in two commits each.  The one exception is a snapshot
\* that descends from one captured after a crash between those two commits and
\* before the entry was applied again: it holds exactly that entry more.
SnapshotMatches(s) ==
    s.at >= 0 => Matches(s.tables, s.at, s.ahead) /\ s.members = hist[s.at].members
SnapshotsMatchLog ==
    \A n \in Nodes :
        SnapshotMatches(built[n]) /\ SnapshotMatches(current[n])
          /\ SnapshotMatches(stored[n]) /\ SnapshotMatches(incoming[n])

\* The voters of a node are those of its index, exactly: "restart could resume
\* with the wrong voter set" otherwise.
MembersMatchLog == \A n \in Nodes : members[n] = hist[applied[n]].members

\* What a node has purged is covered by the snapshot it would send: a lagging
\* peer can always be brought up to date.
PurgedCovered == \A n \in Nodes : purged[n] <= stored[n].at \/ purged[n] = 0

\* An owner's epoch is the index of the entry that granted it, so no epoch is
\* granted twice, whatever is applied again.
EpochsNameGrants ==
    \A n \in Nodes, id \in Ids :
        LET o == tables[n].owner[id]
        IN o # NoOwner => /\ o.epoch \in 1..Len(log)
                          /\ log[o.epoch] = [op |-> "acquire", id |-> id, node |-> o.node]

\* A stream always keeps its own play key, and no key or owner outlives it.
KeysRemain ==
    \A n \in Nodes, id \in Ids :
        IF Exists(tables[n], id) THEN <<id, Default>> \in tables[n].viewers
        ELSE ViewersOf(tables[n], id) = {} /\ tables[n].owner[id] = NoOwner

\* A row is removed only after a delete was begun for that very row (or for
\* any row): a retried delete never takes a replacement with the same id.
DeletesAreMeant ==
    [][\A n \in Nodes, id \in Ids :
          /\ lock[n] = "free" /\ lock'[n] = "apply"
          /\ Exists(tables[n], id) /\ ~Exists(tables'[n], id)
          => \E k \in 1..Len(log) :
               /\ log[k].op = "begin" /\ log[k].id = id
               /\ log[k].token \in {NoToken, tables[n].stream[id].token}]_vars

\* No node is left behind: whatever was purged, compacted or lost in a crash,
\* it comes to have applied the whole log.
CatchesUp == \A n \in Nodes, k \in 1..MaxLog : Len(log) >= k ~> applied[n] >= k
=============================================================================
