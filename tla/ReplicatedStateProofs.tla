------------------------ MODULE ReplicatedStateProofs ------------------------
(***************************************************************************)
(* Proofs about ReplicatedState.  The commands are idempotent, so a node   *)
(* that crashed between a command and its index may apply it again; the    *)
(* inductive invariant says where each node's tables and snapshots stand   *)
(* in the history of the log.                                              *)
(***************************************************************************)
EXTENDS ReplicatedState, TLAPS

-----------------------------------------------------------------------------
\* A new stream with its default viewer.
LEMMA AddStreamTables ==
  ASSUME NEW t \in Tables, NEW id \in Ids, NEW token \in Tokens
  PROVE  stream_add_with_viewer(t, id, token) \in Tables
<1> DEFINE r == [token |-> token, enabled |-> TRUE, pending |-> FALSE]
<1>1. r \in StreamRows
  BY DEF StreamRows
<1>2. t.viewers \cup {<<id, Default>>} \in SUBSET (Ids \X (Viewers \cup {Default}))
  BY DEF Tables
<1> HIDE DEF r
<1>3. [t EXCEPT !.stream[id] = r, !.viewers = @ \cup {<<id, Default>>}] \in Tables
  BY <1>1, <1>2 DEF Tables
<1> QED
  BY <1>3 DEF stream_add_with_viewer, r

\* Another viewer.
LEMMA AddViewerTables ==
  ASSUME NEW t \in Tables, NEW id \in Ids, NEW v \in Viewers
  PROVE  [t EXCEPT !.viewers = @ \cup {<<id, v>>}] \in Tables
<1>1. t.viewers \cup {<<id, v>>} \in SUBSET (Ids \X (Viewers \cup {Default}))
  BY DEF Tables
<1> QED
  BY <1>1 DEF Tables

\* Changed flags of a row.
LEMMA MarkTables ==
  ASSUME NEW t \in Tables, NEW id \in Ids, Exists(t, id), NEW on \in BOOLEAN, NEW p \in BOOLEAN
  PROVE  [t EXCEPT !.stream[id].enabled = on, !.stream[id].pending = p] \in Tables
<1>1. t.stream[id] \in StreamRows
  BY DEF Exists, Tables
<1>2. [t.stream[id] EXCEPT !.enabled = on, !.pending = p] \in StreamRows
  BY <1>1 DEF StreamRows
<1>3. [t EXCEPT !.stream[id].enabled = on, !.stream[id].pending = p]
        = [t EXCEPT !.stream[id] = [@ EXCEPT !.enabled = on, !.pending = p]]
  BY <1>1 DEF Tables, StreamRows
<1> QED
  BY <1>2, <1>3 DEF Tables

\* Flags that a row already has.
LEMMA SameFlags ==
  ASSUME NEW t \in Tables, NEW id \in Ids, Exists(t, id), NEW on, NEW p,
         t.stream[id].enabled = on, t.stream[id].pending = p
  PROVE  [t EXCEPT !.stream[id].enabled = on, !.stream[id].pending = p] = t
<1>1. t.stream[id] \in StreamRows
  BY DEF Exists, Tables
<1>2. [t.stream[id] EXCEPT !.enabled = on, !.pending = p] = t.stream[id]
  BY <1>1 DEF StreamRows
<1>3. [t EXCEPT !.stream[id].enabled = on, !.stream[id].pending = p]
        = [t EXCEPT !.stream[id] = [@ EXCEPT !.enabled = on, !.pending = p]]
  BY <1>1 DEF Tables, StreamRows
<1>4. [t EXCEPT !.stream[id] = t.stream[id]] = t
  BY DEF Tables
<1> QED
  BY <1>2, <1>3, <1>4

\* Every command leaves well-formed tables.
LEMMA ApplyTables ==
  ASSUME NEW t \in Tables, NEW c \in Commands, NEW k \in Nat
  PROVE  apply_command(t, c, k) \in Tables
<1>0. NoRow \in StreamRows \cup {NoRow} /\ NoOwner \in [node : NodeIds, epoch : Nat] \cup {NoOwner}
  OBVIOUS
<1>1. CASE c.op = "create"
  <2>1. c \in [op : {"create"}, id : Ids, token : Tokens]
    BY <1>1 DEF Commands
  <2> QED
    BY <1>1, <2>1, AddStreamTables DEF apply_command
<1>2. CASE c.op = "begin"
  <2>1. c \in [op : {"begin"}, id : Ids, token : Tokens \cup {NoToken}]
    BY <1>2 DEF Commands
  <2> QED
    BY <1>2, <2>1, MarkTables DEF apply_command, stream_disable_expecting
<1>3. CASE c.op = "finalize"
  <2>1. c \in [op : {"finalize"}, id : Ids]
    BY <1>3 DEF Commands
  <2> QED
    BY <1>3, <2>1 DEF apply_command, stream_delete_if_pending, Tables
<1>4. CASE c.op = "enable"
  <2>1. c \in [op : {"enable"}, id : Ids, on : BOOLEAN]
    BY <1>4 DEF Commands
  <2> QED
    BY <1>4, <2>1, MarkTables DEF apply_command, stream_set_enabled
<1>5. CASE c.op = "add_viewer"
  <2>1. c \in [op : {"add_viewer"}, id : Ids, viewer : Viewers]
    BY <1>5 DEF Commands
  <2> QED
    BY <1>5, <2>1, AddViewerTables DEF apply_command, viewer_add
<1>6. CASE c.op = "delete_viewer"
  <2>1. c \in [op : {"delete_viewer"}, id : Ids, viewer : Viewers \cup {Default}]
    BY <1>6 DEF Commands
  <2> QED
    BY <1>6, <2>1 DEF apply_command, delete_viewer, Tables
<1>7. CASE c.op = "api"
  <2>1. c \in [op : {"api"}, api : ApiTokens]
    BY <1>7 DEF Commands
  <2> QED
    BY <1>7, <2>1 DEF apply_command, token_replace, Tables
<1>8. CASE c.op = "acquire"
  <2>1. c \in [op : {"acquire"}, id : Ids, node : NodeIds]
    BY <1>8 DEF Commands
  <2> QED
    BY <1>8, <2>1 DEF apply_command, stream_owner_acquire, Tables
<1>9. CASE c.op = "release"
  <2>1. c \in [op : {"release"}, id : Ids, epoch : Nat]
    BY <1>9 DEF Commands
  <2> QED
    BY <1>9, <2>1 DEF apply_command, stream_owner_release, Tables
<1>10. CASE c.op = "release_node"
  BY <1>10 DEF apply_command, stream_owners_release_for_node, Tables
<1>11. CASE c.op \notin {"create", "begin", "finalize", "enable", "add_viewer", "delete_viewer",
                         "api", "acquire", "release", "release_node"}
  BY <1>11 DEF apply_command
<1> QED
  BY <1>1, <1>2, <1>3, <1>4, <1>5, <1>6, <1>7, <1>8, <1>9, <1>10, <1>11

\* Applying an entry again changes nothing: "lagging last_applied re-applies
\* idempotently after crash" (SqliteStateMachine::apply).
THEOREM ApplyIdempotent ==
  ASSUME NEW t \in Tables, NEW c \in Commands, NEW k \in Nat
  PROVE  apply_command(apply_command(t, c, k), c, k) = apply_command(t, c, k)
<1>1. CASE c.op = "create"
  <2>1. c \in [op : {"create"}, id : Ids, token : Tokens]
    BY <1>1 DEF Commands
  <2>2. stream_add_with_viewer(stream_add_with_viewer(t, c.id, c.token), c.id, c.token)
          = stream_add_with_viewer(t, c.id, c.token)
    <3>1. Exists(stream_add_with_viewer(t, c.id, c.token), c.id)
      BY <2>1, TableAssumption DEF stream_add_with_viewer, Exists, Tables, NoRow
    <3> QED
      BY <3>1 DEF stream_add_with_viewer
  <2> QED
    BY <1>1, <2>2 DEF apply_command
<1>2. CASE c.op = "begin"
  <2>1. c \in [op : {"begin"}, id : Ids, token : Tokens \cup {NoToken}]
    BY <1>2 DEF Commands
  <2>2. stream_disable_expecting(stream_disable_expecting(t, c.id, c.token), c.id, c.token)
          = stream_disable_expecting(t, c.id, c.token)
    BY <2>1 DEF stream_disable_expecting, Tables, StreamRows, Exists
  <2> QED
    BY <1>2, <2>2 DEF apply_command
<1>3. CASE c.op = "finalize"
  <2>1. c \in [op : {"finalize"}, id : Ids]
    BY <1>3 DEF Commands
  <2>2. ~stream_delete_if_pending(t, c.id).stream[c.id].pending
    BY <2>1 DEF stream_delete_if_pending, Tables, NoRow
  <2> QED
    BY <1>3, <2>2 DEF apply_command, stream_delete_if_pending
<1>4. CASE c.op = "enable"
  <2>1. c \in [op : {"enable"}, id : Ids, on : BOOLEAN]
    BY <1>4 DEF Commands
  <2>2. stream_set_enabled(stream_set_enabled(t, c.id, c.on), c.id, c.on)
          = stream_set_enabled(t, c.id, c.on)
    <3>1. CASE ~Exists(t, c.id)
      BY <3>1 DEF stream_set_enabled
    <3>2. CASE Exists(t, c.id)
      <4> DEFINE u == stream_set_enabled(t, c.id, c.on)
      <4>1. t.stream[c.id] \in StreamRows
        BY <2>1, <3>2 DEF Tables, Exists
      <4>2. u.stream[c.id] = [token |-> t.stream[c.id].token, enabled |-> c.on, pending |-> FALSE]
        BY <2>1, <3>2, <4>1 DEF stream_set_enabled, Tables, StreamRows
      <4>3. Exists(u, c.id)
        BY <2>1, <4>1, <4>2, TableAssumption DEF Exists, NoRow, StreamRows
      <4>4. u \in Tables
        BY <2>1, <3>2, MarkTables DEF stream_set_enabled
      <4>6. stream_set_enabled(u, c.id, c.on)
              = [u EXCEPT !.stream[c.id].enabled = c.on, !.stream[c.id].pending = FALSE]
        BY <4>3 DEF stream_set_enabled
      <4> HIDE DEF u
      <4>5. u.stream[c.id].enabled = c.on /\ u.stream[c.id].pending = FALSE
        BY <4>2
      <4>7. [u EXCEPT !.stream[c.id].enabled = c.on, !.stream[c.id].pending = FALSE] = u
        BY <2>1, <4>3, <4>4, <4>5, SameFlags
      <4> QED
        BY <4>6, <4>7 DEF u
    <3> QED
      BY <3>1, <3>2
  <2> QED
    BY <1>4, <2>2 DEF apply_command
<1>5. CASE c.op = "add_viewer"
  <2>1. c \in [op : {"add_viewer"}, id : Ids, viewer : Viewers]
    BY <1>5 DEF Commands
  <2>2. viewer_add(t, c.id, c.viewer) = t
          \/ \E i \in Ids : <<i, c.viewer>> \in viewer_add(t, c.id, c.viewer).viewers
    BY <2>1 DEF viewer_add, Tables
  <2> QED
    BY <1>5, <2>2 DEF apply_command, viewer_add
<1>6. CASE c.op = "delete_viewer"
  <2>1. c \in [op : {"delete_viewer"}, id : Ids, viewer : Viewers \cup {Default}]
    BY <1>6 DEF Commands
  <2>2. delete_viewer(t, c.id, c.viewer) = t
          \/ <<c.id, c.viewer>> \notin delete_viewer(t, c.id, c.viewer).viewers
    BY <2>1 DEF delete_viewer, Tables
  <2>3. ASSUME NEW u \in Tables, <<c.id, c.viewer>> \notin u.viewers
        PROVE  delete_viewer(u, c.id, c.viewer) = u
    BY <2>3 DEF delete_viewer, Tables
  <2>4. apply_command(t, c, k) = delete_viewer(t, c.id, c.viewer)
    BY <1>6 DEF apply_command
  <2>5. apply_command(delete_viewer(t, c.id, c.viewer), c, k)
          = delete_viewer(delete_viewer(t, c.id, c.viewer), c.id, c.viewer)
    BY <1>6 DEF apply_command
  <2> QED
    BY <2>2, <2>3, <2>4, <2>5, ApplyTables
<1>7. CASE c.op = "api"
  <2>1. c \in [op : {"api"}, api : ApiTokens]
    BY <1>7 DEF Commands
  <2>2. token_replace(token_replace(t, c.api), c.api) = token_replace(t, c.api)
    BY <2>1 DEF token_replace, Tables
  <2> QED
    BY <1>7, <2>2 DEF apply_command
<1>8. CASE c.op = "acquire"
  <2>1. c \in [op : {"acquire"}, id : Ids, node : NodeIds]
    BY <1>8 DEF Commands
  <2>2. stream_owner_acquire(stream_owner_acquire(t, c.id, c.node, k), c.id, c.node, k)
          = stream_owner_acquire(t, c.id, c.node, k)
    BY <2>1 DEF stream_owner_acquire, Tables
  <2> QED
    BY <1>8, <2>2 DEF apply_command
<1>9. CASE c.op = "release"
  <2>1. c \in [op : {"release"}, id : Ids, epoch : Nat]
    BY <1>9 DEF Commands
  <2>2. stream_owner_release(stream_owner_release(t, c.id, c.epoch), c.id, c.epoch)
          = stream_owner_release(t, c.id, c.epoch)
    BY <2>1 DEF stream_owner_release, Tables
  <2> QED
    BY <1>9, <2>2 DEF apply_command
<1>10. CASE c.op = "release_node"
  <2>1. c \in [op : {"release_node"}, node : NodeIds, max : Nat]
    BY <1>10 DEF Commands
  <2>2. stream_owners_release_for_node(stream_owners_release_for_node(t, c.node, c.max), c.node, c.max)
          = stream_owners_release_for_node(t, c.node, c.max)
    BY <2>1 DEF stream_owners_release_for_node, Tables
  <2> QED
    BY <1>10, <2>2 DEF apply_command
<1>11. CASE c.op \notin {"create", "begin", "finalize", "enable", "add_viewer", "delete_viewer",
                         "api", "acquire", "release", "release_node"}
  BY <1>11 DEF apply_command
<1> QED
  BY <1>1, <1>2, <1>3, <1>4, <1>5, <1>6, <1>7, <1>8, <1>9, <1>10, <1>11

-----------------------------------------------------------------------------
(***************************************************************************)
(* Type correctness.                                                       *)
(***************************************************************************)
\* What a snapshot is made of.
LEMMA SnapshotParts ==
  ASSUME NEW s \in Snapshots
  PROVE  s.at \in -1..Len(log) /\ s.tables \in Tables /\ s.members \in SUBSET NodeIds /\ s.ahead \in {0, 1}
BY DEF Snapshots

\* Capturing the tables of an index of the log makes one.
LEMMA SnapshotType ==
  ASSUME NEW at \in -1..Len(log), NEW t \in Tables, NEW m \in SUBSET NodeIds, NEW d \in {0, 1}
  PROVE  Snapshot(at, t, m, d) \in Snapshots
BY DEF Snapshots, Snapshot

\* The tables of a new node have their type.
LEMMA EmptyType == EmptyTables \in Tables
BY DEF EmptyTables, Tables

\* "No snapshot yet" is a snapshot.
LEMMA NoSnapshotType ==
  ASSUME log \in Seq(Commands)
  PROVE  NoSnapshot \in Snapshots
BY EmptyType, SnapshotType DEF NoSnapshot

\* The voters of a membership entry are nodes.
LEMMA MembersType ==
  ASSUME NEW m \in SUBSET NodeIds, NEW c \in Commands
  PROVE  MembersAfter(m, c) \in SUBSET NodeIds
<1>1. CASE c.op = "members"
  <2>1. c \in [op : {"members"}, members : SUBSET NodeIds]
    BY <1>1 DEF Commands
  <2> QED
    BY <1>1, <2>1 DEF MembersAfter
<1>2. CASE c.op # "members"
  BY <1>2 DEF MembersAfter
<1> QED
  BY <1>1, <1>2

\* A cluster that has committed nothing has its types.
LEMMA InitType == Init => TypeOK
<1> SUFFICES ASSUME Init PROVE TypeOK
  OBVIOUS
<1>1. log \in Seq(Commands) /\ Len(log) = 0
  BY DEF Init
<1>2. EmptyTables \in Tables /\ NoSnapshot \in Snapshots
  BY <1>1, EmptyType, NoSnapshotType
<1>3. [tables |-> EmptyTables, members |-> {}] \in Histories
  BY <1>2 DEF Histories
<1>4. hist \in [0..Len(log) -> Histories]
  BY <1>1, <1>3 DEF Init
<1> QED
  BY <1>1, <1>2, <1>4, LimitAssumption DEF Init, TypeOK, LockStates

\* Committing an entry, the one step that makes the log longer.
LEMMA CommitType ==
  ASSUME TypeOK, NEW c \in Proposals, NEW Q \in Quorums, Commit(c, Q)
  PROVE  TypeOK'
<1>1. c \in Commands /\ log \in Seq(Commands) /\ Len(log) \in Nat
  BY ProposalAssumption DEF TypeOK
<1>2. log' \in Seq(Commands) /\ Len(log') = Len(log) + 1 /\ Len(log') <= MaxLog
  BY <1>1, LimitAssumption DEF Commit
<1>3. 0..Len(log) \subseteq 0..Len(log') /\ Snapshots \subseteq Snapshots'
  BY <1>1, <1>2 DEF Snapshots
<1>4. hist' \in [0..Len(log') -> Histories]
  <2> DEFINE l == [tables |-> apply_command(hist[Len(log)].tables, c, Len(log) + 1),
                   members |-> MembersAfter(hist[Len(log)].members, c)]
  <2>1. \A k \in 0..Len(log) : hist[k] \in Histories
    BY DEF TypeOK
  <2>2. hist[Len(log)] \in Histories
    BY <1>1, <2>1
  <2>3. l \in Histories
    BY <1>1, <2>2, ApplyTables, MembersType DEF Histories
  <2>4. hist' = [k \in 0..(Len(log) + 1) |-> IF k <= Len(log) THEN hist[k] ELSE l]
    BY DEF Commit
  <2> HIDE DEF l
  <2> QED
    BY <1>1, <1>2, <2>1, <2>3, <2>4
<1>5. received' \in [Nodes -> 0..Len(log')]
  BY <1>1, <1>2 DEF TypeOK, Commit
<1>6. /\ applied' \in [Nodes -> 0..Len(log')] /\ purged' \in [Nodes -> 0..Len(log')]
      /\ incoming' \in [Nodes -> Snapshots'] /\ built' \in [Nodes -> Snapshots']
      /\ current' \in [Nodes -> Snapshots'] /\ stored' \in [Nodes -> Snapshots']
  BY <1>3 DEF TypeOK, Commit
<1> QED
  BY <1>2, <1>4, <1>5, <1>6 DEF TypeOK, Commit

\* The indices of a node are in order, and each step of a multi-step operation
\* starts where the one before it has left them.
NodeOrdered(n) ==
    /\ stored[n].at <= current[n].at /\ current[n].at <= applied[n]
    /\ built[n].at <= applied[n]
    /\ purged[n] <= stored[n].at \/ purged[n] = 0
    /\ lock[n] = "apply" => applied[n] < Len(log)
    /\ lock[n] = "publish" => built[n] = current[n]
    /\ lock[n] = "install" => incoming[n].at > applied[n]
    /\ lock[n] = "indexed" => incoming[n].at = applied[n]
Ordered == \A n \in Nodes : NodeOrdered(n)

\* The steps of a node, which leave the log alone.
LEMMA NodeType ==
  ASSUME TypeOK, Ordered, NEW n \in Nodes, NodeNext(n) \/ Crashes(n)
  PROVE  TypeOK'
<1> USE LimitAssumption
<1>1. log \in Seq(Commands) /\ Len(log) \in Nat /\ NoSnapshot \in Snapshots
  BY NoSnapshotType DEF TypeOK
<1>2. log' = log /\ hist' = hist
  BY DEF NodeNext, Applies, PersistsApplied, Captures, Publishes, PersistsBuilt, Purges,
         Replicates, InstallsTables, InstallsIndex, InstallsSnapshot, Crashes
<1>3. Snapshots' = Snapshots
  BY <1>2 DEF Snapshots
<1>4. \A s \in Snapshots : s.at \in -1..Len(log) /\ s.tables \in Tables /\ s.members \in SUBSET NodeIds /\ s.ahead \in {0, 1}
  BY SnapshotParts
<1>5. /\ applied[n] \in 0..Len(log) /\ received[n] \in 0..Len(log) /\ incoming[n] \in Snapshots
      /\ stored[n] \in Snapshots /\ built[n] \in Snapshots
      /\ tables[n] \in Tables /\ members[n] \in SUBSET NodeIds /\ ahead[n] \in {0, 1}
  BY DEF TypeOK
<1>6. applied[n] < Len(log) => log[applied[n] + 1] \in Commands
  BY <1>1, <1>5
<1>7. CASE Applies(n)
  <2>1. applied[n] < Len(log)
    BY <1>5, <1>7, <1>1 DEF Applies
  <2>2. apply_command(tables[n], log[applied[n] + 1], applied[n] + 1) \in Tables
    BY <1>1, <1>5, <1>6, <2>1, ApplyTables
  <2> QED
    BY <1>2, <1>3, <1>7, <2>2 DEF TypeOK, Applies, Goes, LockStates
<1>8. CASE PersistsApplied(n)
  <2>0. applied[n] < Len(log)
    BY <1>8 DEF PersistsApplied, Ordered, NodeOrdered
  <2>1. MembersAfter(members[n], log[applied[n] + 1]) \in SUBSET NodeIds
    BY <1>5, <1>6, <2>0, MembersType
  <2>2. applied[n] + 1 \in 0..Len(log)
    BY <1>1, <1>5, <2>0
  <2> QED
    BY <1>2, <1>3, <1>8, <2>1, <2>2 DEF TypeOK, PersistsApplied, Goes, LockStates
<1>9. CASE Captures(n)
  <2>1. Snapshot(applied[n], tables[n], members[n], ahead[n]) \in Snapshots
    BY <1>1, <1>5, SnapshotType
  <2> QED
    BY <1>2, <1>3, <1>9, <2>1 DEF TypeOK, Captures, Goes, LockStates
<1>10. CASE Publishes(n)
  <2>1. current' \in [Nodes -> Snapshots] /\ built' \in [Nodes -> Snapshots]
    BY <1>1, <1>5, <1>10 DEF TypeOK, Publishes
  <2>2. retries' \in [Nodes -> Nat]
    <3>1. \/ retries' = [retries EXCEPT ![n] = 0] \/ retries' = [retries EXCEPT ![n] = @ + 1]
          \/ retries' = retries
      BY <1>10 DEF Publishes
    <3>2. retries \in [Nodes -> Nat]
      BY DEF TypeOK
    <3>3. retries[n] + 1 \in Nat
      BY <3>2
    <3> QED
      BY <3>1, <3>2, <3>3
  <2>3. lock' \in [Nodes -> LockStates]
    BY <1>10 DEF TypeOK, Publishes, Goes, LockStates
  <2> QED
    BY <1>2, <1>3, <1>10, <2>1, <2>2, <2>3 DEF TypeOK, Publishes
<1>11. CASE PersistsBuilt(n)
  BY <1>1, <1>2, <1>3, <1>5, <1>11 DEF TypeOK, PersistsBuilt, Goes, LockStates
<1>12. CASE Purges(n)
  <2>1. stored[n].at \in 0..Len(log)
    BY <1>1, <1>4, <1>5, <1>12 DEF TypeOK, Purges
  <2> QED
    BY <1>2, <1>3, <1>12, <2>1 DEF TypeOK, Purges
<1>13. ASSUME NEW m \in Nodes, Replicates(n, m) PROVE TypeOK'
  <2>1. received[n] + 1 \in 0..Len(log)
    BY <1>1, <1>13 DEF TypeOK, Replicates
  <2> QED
    BY <1>2, <1>3, <1>13, <2>1 DEF TypeOK, Replicates
<1>14. ASSUME NEW m \in Nodes, InstallsTables(n, m) PROVE TypeOK'
  <2>1. current[m] \in Snapshots /\ current[m].tables \in Tables /\ current[m].ahead \in {0, 1}
    BY <1>4 DEF TypeOK
  <2> QED
    BY <1>2, <1>3, <1>14, <2>1 DEF TypeOK, InstallsTables, Goes, LockStates
<1>15. CASE InstallsIndex(n)
  <2>0. incoming[n].at > applied[n]
    BY <1>15 DEF InstallsIndex, Ordered, NodeOrdered
  <2>1. incoming[n].at \in 0..Len(log) /\ incoming[n].members \in SUBSET NodeIds
    BY <1>1, <1>4, <1>5, <2>0
  <2> QED
    BY <1>2, <1>3, <1>15, <2>1 DEF TypeOK, InstallsIndex, Goes, LockStates
<1>16. CASE InstallsSnapshot(n)
  <2>1. LogEnd(received[n], incoming[n].at) \in 0..Len(log)
    BY <1>1, <1>4, <1>5 DEF LogEnd
  <2> QED
    BY <1>1, <1>2, <1>3, <1>5, <1>16, <2>1 DEF TypeOK, InstallsSnapshot, Goes, LockStates
<1>17. CASE Crashes(n)
  <2>1. LogEnd(received[n], applied[n]) \in 0..Len(log)
    BY <1>1, <1>5 DEF LogEnd
  <2> QED
    BY <1>1, <1>2, <1>3, <1>5, <1>17, <2>1 DEF TypeOK, Crashes, Goes, LockStates
<1> QED
  BY <1>7, <1>8, <1>9, <1>10, <1>11, <1>12, <1>13, <1>14, <1>15, <1>16, <1>17 DEF NodeNext

\* The indices of a new cluster are in order.
LEMMA InitOrdered == Init => Ordered
BY DEF Init, Ordered, NodeOrdered, NoSnapshot, Snapshot

\* The steps of one node leave the others alone.
NodeState(n) == <<tables[n], members[n], applied[n], ahead[n], lock[n], incoming[n], built[n], retries[n],
                  current[n], stored[n], purged[n]>>

\* A step of one node leaves the state of the others alone.
LEMMA OthersUnchanged ==
  ASSUME TypeOK, NEW n \in Nodes, NodeNext(n) \/ Crashes(n), NEW m \in Nodes \ {n}
  PROVE  NodeState(m)' = NodeState(m)
BY DEF TypeOK, NodeState, NodeNext, Applies, PersistsApplied, Captures, Publishes, PersistsBuilt,
       Purges, Replicates, InstallsTables, InstallsIndex, InstallsSnapshot, Crashes, Goes

\* A step of a node keeps its indices in order.
LEMMA NodeOrderedStep ==
  ASSUME TypeOK, Ordered, NEW n \in Nodes, NodeNext(n) \/ Crashes(n)
  PROVE  NodeOrdered(n)'
<1>1. /\ applied[n] \in 0..Len(log) /\ Len(log) \in Nat
      /\ received[n] \in 0..Len(log) /\ purged[n] \in 0..Len(log)
      /\ log' = log
  BY DEF TypeOK, NodeNext, Applies, PersistsApplied, Captures, Publishes, PersistsBuilt, Purges,
         Replicates, InstallsTables, InstallsIndex, InstallsSnapshot, Crashes
<1>2. \A m \in Nodes : /\ stored[m].at \in Int /\ current[m].at \in Int
                       /\ built[m].at \in Int /\ incoming[m].at \in Int
  BY SnapshotParts DEF TypeOK
<1>3. NodeOrdered(n) /\ NoSnapshot.at = -1
  BY DEF Ordered, NoSnapshot, Snapshot
<1> USE <1>1, <1>2, <1>3 DEF NodeOrdered, TypeOK, Goes
<1>4. CASE Applies(n)
  BY <1>4 DEF Applies, Free
<1>5. CASE PersistsApplied(n)
  BY <1>5 DEF PersistsApplied
<1>6. CASE Captures(n)
  BY <1>6 DEF Captures, Free, Snapshot
<1>7. CASE Publishes(n)
  <2>1. UNCHANGED <<applied, stored, purged>>
    BY <1>7 DEF Publishes
  <2>2. CASE built'[n] = NoSnapshot /\ current' = current /\ lock'[n] = "free"
    BY <2>1, <2>2
  <2>3. CASE /\ ~(current[n].at > built[n].at) /\ built' = built
             /\ current'[n] = built[n] /\ lock'[n] = "publish"
    BY <2>1, <2>3
  <2> QED
    BY <1>7, <2>2, <2>3 DEF Publishes
<1>8. CASE PersistsBuilt(n)
  BY <1>8 DEF PersistsBuilt
<1>9. CASE Purges(n)
  BY <1>9 DEF Purges
<1>10. ASSUME NEW m \in Nodes, Replicates(n, m) PROVE NodeOrdered(n)'
  BY <1>10 DEF Replicates
<1>11. ASSUME NEW m \in Nodes, InstallsTables(n, m) PROVE NodeOrdered(n)'
  BY <1>11 DEF InstallsTables, Free
<1>12. CASE InstallsIndex(n)
  BY <1>12 DEF InstallsIndex
<1>13. CASE InstallsSnapshot(n)
  BY <1>13 DEF InstallsSnapshot
<1>14. CASE Crashes(n)
  BY <1>14 DEF Crashes
<1> QED
  BY <1>4, <1>5, <1>6, <1>7, <1>8, <1>9, <1>10, <1>11, <1>12, <1>13, <1>14 DEF NodeNext

\* Types and order are kept by every step.
LEMMA OrderedStep == TypeOK /\ Ordered /\ [Next]_vars => TypeOK' /\ Ordered'
<1> SUFFICES ASSUME TypeOK, Ordered, [Next]_vars PROVE TypeOK' /\ Ordered'
  OBVIOUS
<1>1. ASSUME NEW c \in Proposals, NEW Q \in Quorums, Commit(c, Q) PROVE TypeOK' /\ Ordered'
  <2>1. Len(log') = Len(log) + 1 /\ Len(log) \in Nat
    BY <1>1 DEF Commit, TypeOK
  <2>2. \A n \in Nodes : applied[n] \in Nat
    BY <2>1 DEF TypeOK
  <2>3. \A n \in Nodes : NodeOrdered(n)'
    BY <1>1, <2>1, <2>2 DEF Commit, Ordered, NodeOrdered
  <2> QED
    BY <1>1, <2>3, CommitType DEF Ordered
<1>2. ASSUME NEW n \in Nodes, NodeNext(n) \/ Crashes(n) PROVE TypeOK' /\ Ordered'
  <2>1. log' = log
    BY <1>2 DEF NodeNext, Applies, PersistsApplied, Captures, Publishes, PersistsBuilt, Purges,
           Replicates, InstallsTables, InstallsIndex, InstallsSnapshot, Crashes
  <2>2. ASSUME NEW m \in Nodes \ {n} PROVE NodeOrdered(m)'
    <3>1. NodeState(m)' = NodeState(m)
      BY <1>2, OthersUnchanged
    <3> QED
      BY <2>1, <3>1 DEF NodeState, Ordered, NodeOrdered
  <2> QED
    BY <1>2, <2>2, NodeOrderedStep, NodeType DEF Ordered
<1>3. CASE UNCHANGED vars
  <2>1. TypeOK'
    BY <1>3 DEF vars, nodeVars, TypeOK, Snapshots
  <2>2. Ordered'
    BY <1>3 DEF vars, nodeVars, Ordered, NodeOrdered
  <2> QED
    BY <2>1, <2>2
<1> QED
  BY <1>1, <1>2, <1>3 DEF Next

\* Every reachable state of every instance is well-typed.
THEOREM TypeCorrect == Spec => []TypeOK
<1>1. Init => TypeOK /\ Ordered
  BY InitType, InitOrdered
<1>2. TypeOK /\ Ordered /\ [Next]_vars => (TypeOK /\ Ordered)'
  BY OrderedStep
<1> QED
  BY <1>1, <1>2, PTL DEF Spec

\* Whatever crashes, a node has purged only what its stored snapshot covers
\* (SqliteLogStore::purge against SqliteStateMachine::build_snapshot).
THEOREM PurgedCorrect == Spec => []PurgedCovered
<1>1. Init => TypeOK /\ Ordered
  BY InitType, InitOrdered
<1>2. TypeOK /\ Ordered /\ [Next]_vars => (TypeOK /\ Ordered)'
  BY OrderedStep
<1>3. Ordered => PurgedCovered
  BY DEF Ordered, NodeOrdered, PurgedCovered
<1> QED
  BY <1>1, <1>2, <1>3, PTL DEF Spec

-----------------------------------------------------------------------------
(***************************************************************************)
(* Where the tables stand in the history of the log, when no crash strikes *)
(* between the two commits of install_snapshot, where the tables are those *)
(* of the snapshot and the index is the old one.                           *)
(***************************************************************************)
\* hist is what the log makes of empty tables.
HistoryOK ==
    \A k \in 1..Len(log) :
        /\ hist[k].tables = apply_command(hist[k - 1].tables, log[k], k)
        /\ hist[k].members = MembersAfter(hist[k - 1].members, log[k])

\* While the lock is held for an entry, its command has just been applied.
NodePlaced(n) ==
    /\ lock[n] = "install" => Matches(tables[n], incoming[n].at, ahead[n]) /\ ahead[n] = incoming[n].ahead
    /\ lock[n] = "apply" => Matches(tables[n], applied[n], 1)
    /\ lock[n] \notin {"install", "apply"} => Matches(tables[n], applied[n], ahead[n])
    /\ SnapshotMatches(built[n]) /\ SnapshotMatches(current[n])
    /\ SnapshotMatches(stored[n]) /\ SnapshotMatches(incoming[n])
    /\ members[n] = hist[applied[n]].members
Placed == HistoryOK /\ \A n \in Nodes : NodePlaced(n)

IInv == TypeOK /\ Ordered /\ Placed

\* Applying the next entry brings tables that may already have it to exactly
\* the next point of the history.
LEMMA Replay ==
  ASSUME TypeOK, HistoryOK, NEW k \in 0..Len(log), k < Len(log), NEW d \in {0, 1}, NEW t, Matches(t, k, d)
  PROVE  apply_command(t, log[k + 1], k + 1) = hist[k + 1].tables
<1>1. log \in Seq(Commands) /\ k + 1 \in 1..Len(log)
  BY DEF TypeOK
<1>2. log[k + 1] \in Commands /\ k + 1 \in Nat /\ (k + 1) - 1 = k
  BY <1>1
<1>3. hist[k] \in Histories
  BY DEF TypeOK
<1>4. hist[k + 1].tables = apply_command(hist[k].tables, log[k + 1], k + 1)
  BY <1>1, <1>2 DEF HistoryOK
<1>5. hist[k].tables \in Tables
  BY <1>3 DEF Histories
<1>6. apply_command(hist[k + 1].tables, log[k + 1], k + 1) = hist[k + 1].tables
  BY <1>2, <1>4, <1>5, ApplyIdempotent
<1> QED
  BY <1>2, <1>4, <1>6 DEF Matches

\* The tables of a new cluster are those of the empty log.
LEMMA InitPlaced == Init => Placed
<1> SUFFICES ASSUME Init PROVE Placed
  OBVIOUS
<1>1. Len(log) = 0
  BY DEF Init
<1>2. HistoryOK
  BY <1>1 DEF HistoryOK
<1>3. \A n \in Nodes : NodePlaced(n)
  BY DEF Init, NodePlaced, Matches, SnapshotMatches, NoSnapshot, Snapshot
<1> QED
  BY <1>2, <1>3 DEF Placed

\* The history of a longer log.
LEMMA CommitHistory ==
  ASSUME TypeOK, HistoryOK, NEW c \in Proposals, NEW Q \in Quorums, Commit(c, Q)
  PROVE  HistoryOK'
<1>1. log \in Seq(Commands) /\ Len(log) \in Nat /\ c \in Commands
  BY ProposalAssumption DEF TypeOK
<1>2. /\ log' = Append(log, c) /\ Len(log') = Len(log) + 1
      /\ \A k \in 1..Len(log) : log'[k] = log[k]
      /\ log'[Len(log) + 1] = c
  BY <1>1 DEF Commit
<1>3. \A k \in 0..Len(log) : hist'[k] = hist[k]
  BY <1>1 DEF Commit
<1>4. /\ hist'[Len(log) + 1].tables = apply_command(hist[Len(log)].tables, c, Len(log) + 1)
      /\ hist'[Len(log) + 1].members = MembersAfter(hist[Len(log)].members, c)
  BY <1>1 DEF Commit
<1> SUFFICES ASSUME NEW k \in 1..Len(log')
             PROVE  /\ hist'[k].tables = apply_command(hist'[k - 1].tables, log'[k], k)
                    /\ hist'[k].members = MembersAfter(hist'[k - 1].members, log'[k])
  BY DEF HistoryOK
<1>5. CASE k \in 1..Len(log)
  <2>1. k - 1 \in 0..Len(log) /\ k \in 0..Len(log)
    BY <1>1, <1>5
  <2> QED
    BY <1>2, <1>3, <1>5, <2>1 DEF HistoryOK
<1>6. CASE k = Len(log) + 1
  <2>1. k - 1 = Len(log) /\ Len(log) \in 0..Len(log)
    BY <1>1, <1>6
  <2> QED
    BY <1>2, <1>3, <1>4, <1>6, <2>1
<1> QED
  BY <1>1, <1>2, <1>5, <1>6

\* A longer log keeps the history of the shorter one.
LEMMA CommitPlaced ==
  ASSUME IInv, NEW c \in Proposals, NEW Q \in Quorums, Commit(c, Q)
  PROVE  Placed'
<1>1. log \in Seq(Commands) /\ Len(log) \in Nat /\ c \in Commands
  BY ProposalAssumption DEF IInv, TypeOK
<1>2. /\ log' = Append(log, c) /\ Len(log') = Len(log) + 1
      /\ \A k \in 1..Len(log) : log'[k] = log[k]
      /\ log'[Len(log) + 1] = c
  BY <1>1 DEF Commit
<1>3. \A k \in 0..Len(log) : hist'[k] = hist[k]
  BY <1>1 DEF Commit
<1>4. /\ hist'[Len(log) + 1].tables = apply_command(hist[Len(log)].tables, c, Len(log) + 1)
      /\ hist'[Len(log) + 1].members = MembersAfter(hist[Len(log)].members, c)
  BY <1>1 DEF Commit
<1>5. HistoryOK'
  BY CommitHistory DEF IInv, Placed
<1>6. ASSUME NEW n \in Nodes PROVE NodePlaced(n)'
  <2>1. NodePlaced(n) /\ NodeOrdered(n)
    BY DEF IInv, Placed, Ordered
  <2>2. UNCHANGED <<tables, members, applied, ahead, lock, incoming, built, current, stored>>
    BY DEF Commit
  <2>3. /\ applied[n] \in 0..Len(log) /\ ahead[n] \in {0, 1} /\ built[n] \in Snapshots /\ current[n] \in Snapshots
        /\ stored[n] \in Snapshots /\ incoming[n] \in Snapshots
    BY DEF IInv, TypeOK
  <2>4. ASSUME NEW t, NEW k \in 0..Len(log), NEW d \in {0, 1}, Matches(t, k, d)
        PROVE  Matches(t, k, d)'
    BY <1>1, <1>2, <1>3, <2>4 DEF Matches
  <2>5. ASSUME NEW x \in Snapshots, SnapshotMatches(x)
        PROVE  SnapshotMatches(x)'
    <3>1. CASE x.at >= 0
      <4>1. x.at \in 0..Len(log) /\ x.ahead \in {0, 1}
        BY <1>1, <3>1, SnapshotParts
      <4> QED
        BY <1>3, <2>4, <2>5, <3>1, <4>1 DEF SnapshotMatches
    <3>2. CASE ~(x.at >= 0)
      BY <3>2 DEF SnapshotMatches
    <3> QED
      BY <3>1, <3>2
  <2>6. /\ SnapshotMatches(built[n])' /\ SnapshotMatches(current[n])'
        /\ SnapshotMatches(stored[n])' /\ SnapshotMatches(incoming[n])'
    BY <2>1, <2>2, <2>3, <2>5 DEF NodePlaced
  <2>7. lock[n] \notin {"install", "apply"} => Matches(tables[n], applied[n], ahead[n])'
    BY <2>1, <2>2, <2>3, <2>4 DEF NodePlaced
  <2>8. lock[n] = "install" => Matches(tables[n], incoming[n].at, ahead[n])'
    <3>1. lock[n] = "install" => incoming[n].at \in 0..Len(log)
      BY <1>1, <2>1, <2>3, SnapshotParts DEF NodeOrdered
    <3> QED
      BY <2>1, <2>2, <2>3, <2>4, <3>1 DEF NodePlaced
  <2>9. lock[n] = "apply" => Matches(tables[n], applied[n], 1)'
    BY <2>1, <2>2, <2>3, <2>4 DEF NodePlaced
  <2> QED
    BY <1>3, <2>1, <2>2, <2>3, <2>6, <2>7, <2>8, <2>9 DEF NodePlaced
<1> QED
  BY <1>5, <1>6 DEF Placed

\* A step of a node keeps its tables and snapshots those of their index; an
\* entry applied a second time after a crash changes nothing (Replay).
LEMMA NodePlacedStep ==
  ASSUME IInv, "install" \notin CrashAt, NEW n \in Nodes, NodeNext(n) \/ Crashes(n)
  PROVE  NodePlaced(n)'
<1>1. UNCHANGED <<log, hist>>
  BY DEF NodeNext, Applies, PersistsApplied, Captures, Publishes, PersistsBuilt, Purges,
         Replicates, InstallsTables, InstallsIndex, InstallsSnapshot, Crashes
<1>2. /\ TypeOK /\ HistoryOK /\ NodePlaced(n) /\ NodeOrdered(n)
      /\ Len(log) \in Nat /\ applied[n] \in 0..Len(log) /\ received[n] \in 0..Len(log)
      /\ ahead[n] \in {0, 1}
  BY DEF IInv, Placed, Ordered, TypeOK
<1>3. \A t, k, d : Matches(t, k, d)' <=> Matches(t, k, d)
  BY <1>1 DEF Matches
<1>4. \A x : SnapshotMatches(x)' <=> SnapshotMatches(x)
  BY <1>1, <1>3 DEF SnapshotMatches
<1>5. SnapshotMatches(NoSnapshot)
  BY DEF SnapshotMatches, NoSnapshot, Snapshot
<1> USE <1>1, <1>3, <1>4 DEF NodePlaced
<1>6. CASE Applies(n)
  <2>1. applied[n] < Len(log) /\ Matches(tables[n], applied[n], ahead[n])
    BY <1>2, <1>6 DEF Applies, Free
  <2>2. apply_command(tables[n], log[applied[n] + 1], applied[n] + 1) = hist[applied[n] + 1].tables
    BY <1>2, <2>1, Replay
  <2>3. tables'[n] = hist[applied[n] + 1].tables
    BY <1>2, <1>6, <2>2 DEF Applies, TypeOK
  <2>4. Matches(tables'[n], applied[n], 1)
    BY <1>2, <2>1, <2>3 DEF Matches
  <2>5. /\ lock'[n] = "apply"
        /\ UNCHANGED <<members, applied, ahead, incoming, built, current, stored>>
    BY <1>2, <1>6 DEF Applies, Goes, TypeOK
  <2> QED
    BY <1>2, <2>3, <2>4, <2>5
<1>7. CASE PersistsApplied(n)
  <2>1. /\ applied[n] < Len(log) /\ tables[n] = hist[applied[n] + 1].tables
        /\ applied[n] + 1 \in 1..Len(log) /\ (applied[n] + 1) - 1 = applied[n]
    BY <1>2, <1>7 DEF PersistsApplied, NodeOrdered, Matches
  <2>2. /\ applied'[n] = applied[n] + 1 /\ lock'[n] = "free" /\ ahead'[n] = 0
        /\ members'[n] = MembersAfter(members[n], log[applied[n] + 1])
        /\ UNCHANGED <<tables, incoming, built, current, stored>>
    BY <1>2, <1>7 DEF PersistsApplied, Goes, TypeOK
  <2>3. hist[applied[n] + 1].members = MembersAfter(hist[applied[n]].members, log[applied[n] + 1])
    BY <1>2, <2>1 DEF HistoryOK
  <2>4. Matches(tables[n], applied[n] + 1, 0)
    BY <1>2, <2>1 DEF Matches
  <2> QED
    BY <1>2, <2>1, <2>2, <2>3, <2>4
<1>8. CASE Captures(n)
  <2>1. /\ built'[n] = Snapshot(applied[n], tables[n], members[n], ahead[n])
        /\ lock[n] = "free" /\ lock'[n] \in {"free", "build"}
        /\ UNCHANGED <<tables, members, applied, ahead, incoming, current, stored>>
    BY <1>2, <1>8 DEF Captures, Free, Goes, TypeOK
  <2>2. SnapshotMatches(built'[n])
    BY <1>2, <2>1 DEF SnapshotMatches, Snapshot
  <2> QED
    BY <1>2, <2>1, <2>2
<1>9. CASE Publishes(n)
  <2>1. /\ built'[n] \in {built[n], NoSnapshot} /\ current'[n] \in {current[n], built[n]}
        /\ lock[n] \in {"free", "build"} /\ lock'[n] \in {"free", "publish"}
        /\ UNCHANGED <<tables, members, applied, ahead, incoming, stored>>
    BY <1>2, <1>9 DEF Publishes, Goes, TypeOK
  <2> QED
    BY <1>2, <1>5, <2>1
<1>10. CASE PersistsBuilt(n)
  <2>1. /\ built'[n] = NoSnapshot /\ stored'[n] = built[n]
        /\ lock[n] = "publish" /\ lock'[n] = "free"
        /\ UNCHANGED <<tables, members, applied, ahead, incoming, current>>
    BY <1>2, <1>10 DEF PersistsBuilt, Goes, TypeOK
  <2> QED
    BY <1>2, <1>5, <2>1
<1>11. CASE Purges(n) \/ \E m \in Nodes : Replicates(n, m)
  BY <1>2, <1>11 DEF Purges, Replicates
<1>12. ASSUME NEW m \in Nodes, InstallsTables(n, m) PROVE NodePlaced(n)'
  <2>1. /\ incoming'[n] = current[m] /\ tables'[n] = current[m].tables /\ lock'[n] = "install"
        /\ ahead'[n] = current[m].ahead
        /\ UNCHANGED <<members, applied, built, current, stored>>
    BY <1>2, <1>12 DEF InstallsTables, Goes, TypeOK
  <2>2. SnapshotMatches(current[m])
    BY DEF IInv, Placed
  <2>3. current[m].at >= 0
    BY <1>2, <1>12, SnapshotParts DEF InstallsTables, TypeOK
  <2>4. Matches(current[m].tables, current[m].at, current[m].ahead)
    BY <2>2, <2>3 DEF SnapshotMatches
  <2> QED
    BY <1>2, <2>1, <2>2, <2>4
<1>13. CASE InstallsIndex(n)
  <2>1. /\ applied'[n] = incoming[n].at /\ members'[n] = incoming[n].members
        /\ lock[n] = "install" /\ lock'[n] = "indexed"
        /\ UNCHANGED <<tables, ahead, incoming, built, current, stored>>
    BY <1>2, <1>13 DEF InstallsIndex, Goes, TypeOK
  <2>2. incoming[n].at >= 0
    BY <1>2, <2>1, SnapshotParts DEF NodeOrdered, TypeOK
  <2>3. incoming[n].members = hist[incoming[n].at].members
    BY <1>2, <2>2 DEF SnapshotMatches
  <2> QED
    BY <1>2, <2>1, <2>3
<1>14. CASE InstallsSnapshot(n)
  <2>1. /\ current'[n] = incoming[n] /\ stored'[n] = incoming[n] /\ incoming'[n] = NoSnapshot
        /\ lock[n] = "indexed" /\ lock'[n] = "free"
        /\ UNCHANGED <<tables, members, applied, ahead, built>>
    BY <1>2, <1>14 DEF InstallsSnapshot, Goes, TypeOK
  <2> QED
    BY <1>2, <1>5, <2>1
<1>15. CASE Crashes(n)
  <2>1. /\ current'[n] = stored[n] /\ built'[n] = NoSnapshot /\ incoming'[n] = NoSnapshot
        /\ lock[n] # "install" /\ lock'[n] = "free"
        /\ ahead'[n] = IF lock[n] = "apply" THEN 1 ELSE ahead[n]
        /\ UNCHANGED <<tables, members, applied, stored>>
    BY <1>2, <1>15 DEF Crashes, Goes, TypeOK
  <2> QED
    BY <1>2, <1>5, <2>1
<1> QED
  BY <1>6, <1>7, <1>8, <1>9, <1>10, <1>11, <1>12, <1>13, <1>14, <1>15 DEF NodeNext

\* Every step of the cluster does.
LEMMA PlacedStep ==
  ASSUME "install" \notin CrashAt
  PROVE  IInv /\ [Next]_vars => IInv'
<1> SUFFICES ASSUME IInv, [Next]_vars PROVE Placed'
  BY OrderedStep DEF IInv
<1>1. ASSUME NEW c \in Proposals, NEW Q \in Quorums, Commit(c, Q) PROVE Placed'
  BY <1>1, CommitPlaced
<1>2. ASSUME NEW n \in Nodes, NodeNext(n) \/ Crashes(n) PROVE Placed'
  <2>1. UNCHANGED <<log, hist>>
    BY <1>2 DEF NodeNext, Applies, PersistsApplied, Captures, Publishes, PersistsBuilt, Purges,
           Replicates, InstallsTables, InstallsIndex, InstallsSnapshot, Crashes
  <2>2. HistoryOK'
    BY <2>1 DEF IInv, Placed, HistoryOK
  <2>3. ASSUME NEW m \in Nodes \ {n} PROVE NodePlaced(m)'
    <3>1. NodeState(m)' = NodeState(m)
      BY <1>2, OthersUnchanged DEF IInv
    <3> QED
      BY <2>1, <3>1 DEF NodeState, IInv, Placed, NodePlaced, Matches, SnapshotMatches
  <2> QED
    BY <1>2, <2>2, <2>3, NodePlacedStep DEF Placed
<1>3. CASE UNCHANGED vars
  <2>1. HistoryOK'
    BY <1>3 DEF vars, nodeVars, IInv, Placed, HistoryOK
  <2>2. \A n \in Nodes : NodePlaced(n)'
    BY <1>3 DEF vars, nodeVars, IInv, Placed, NodePlaced, Matches, SnapshotMatches
  <2> QED
    BY <2>1, <2>2 DEF Placed
<1> QED
  BY <1>1, <1>2, <1>3 DEF Next

\* With crashes anywhere but inside install_snapshot, the tables of every node
\* are those of its last_applied or of the entry after it.
THEOREM TablesCorrect ==
  ASSUME "install" \notin CrashAt
  PROVE  Spec => []TablesMatchLog
<1>1. Init => IInv
  BY InitType, InitOrdered, InitPlaced DEF IInv
<1>2. IInv /\ [Next]_vars => IInv'
  BY PlacedStep
<1>3. IInv => TablesMatchLog
  BY DEF IInv, Placed, NodePlaced, TablesMatchLog
<1> QED
  BY <1>1, <1>2, <1>3, PTL DEF Spec

\* Under the same condition no snapshot misstates its index or its voters.
THEOREM SnapshotsCorrect ==
  ASSUME "install" \notin CrashAt
  PROVE  Spec => []SnapshotsMatchLog
<1>1. Init => IInv
  BY InitType, InitOrdered, InitPlaced DEF IInv
<1>2. IInv /\ [Next]_vars => IInv'
  BY PlacedStep
<1>3. IInv => SnapshotsMatchLog
  BY DEF IInv, Placed, NodePlaced, SnapshotsMatchLog
<1> QED
  BY <1>1, <1>2, <1>3, PTL DEF Spec

\* Under the same condition nodes that have applied the whole log agree.
THEOREM AgreementCorrect ==
  ASSUME "install" \notin CrashAt
  PROVE  Spec => []CaughtUpAgree
<1>1. Init => IInv
  BY InitType, InitOrdered, InitPlaced DEF IInv
<1>2. IInv /\ [Next]_vars => IInv'
  BY PlacedStep
<1>3. IInv => CaughtUpAgree
  <2> SUFFICES ASSUME IInv, NEW n \in Nodes, Free(n), applied[n] = Len(log)
               PROVE  tables[n] = hist[Len(log)].tables
    BY DEF CaughtUpAgree
  <2>1. Matches(tables[n], applied[n], ahead[n]) /\ ahead[n] \in {0, 1} /\ Len(log) \in Nat
    BY DEF IInv, Placed, NodePlaced, Free, TypeOK
  <2> QED
    BY <2>1 DEF Matches
<1> QED
  BY <1>1, <1>2, <1>3, PTL DEF Spec

-----------------------------------------------------------------------------
(***************************************************************************)
(* What holds of any tables the log can produce, wherever a crash strikes: *)
(* inside install_snapshot too, where tables run ahead of their index and  *)
(* entries are applied to tables that are newer than they are.             *)
(***************************************************************************)
\* Every owner names the entry of the log lg that granted it.
OwnersNamed(t, lg) ==
    \A id \in Ids : t.owner[id] # NoOwner =>
        /\ t.owner[id].epoch \in 1..Len(lg)
        /\ lg[t.owner[id].epoch] = [op |-> "acquire", id |-> id, node |-> t.owner[id].node]

\* A stream has its own play key; without it there are neither keys nor owner.
KeysKept(t) ==
    \A id \in Ids :
        IF Exists(t, id) THEN <<id, Default>> \in t.viewers
        ELSE (\A v \in t.viewers : v[1] # id) /\ t.owner[id] = NoOwner

\* A row is marked for removal by a delete that was begun for it.
Begun(lg, id, token) ==
    \E k \in 1..Len(lg) : lg[k].op = "begin" /\ lg[k].id = id /\ lg[k].token \in {NoToken, token}
MarksMeant(t, lg) == \A id \in Ids : t.stream[id].pending => Begun(lg, id, t.stream[id].token)

Sound(t, lg) == t \in Tables /\ OwnersNamed(t, lg) /\ KeysKept(t) /\ MarksMeant(t, lg)

\* Only the stated parts of the tables change.
LEMMA SoundStream ==
  ASSUME NEW lg \in Seq(Commands), NEW t, Sound(t, lg), NEW u \in Tables, NEW id \in Ids,
         Exists(t, id), Exists(u, id), u.viewers = t.viewers, u.owner = t.owner,
         \A i \in Ids \ {id} : u.stream[i] = t.stream[i],
         u.stream[id].pending => Begun(lg, id, u.stream[id].token)
  PROVE  Sound(u, lg)
<1>1. OwnersNamed(u, lg)
  BY DEF Sound, OwnersNamed
<1>2. KeysKept(u)
  BY DEF Sound, KeysKept, Exists
<1>3. MarksMeant(u, lg)
  BY DEF Sound, MarksMeant
<1> QED
  BY <1>1, <1>2, <1>3 DEF Sound

\* Owners are only taken away, or granted by an entry of the log.
LEMMA SoundOwners ==
  ASSUME NEW lg \in Seq(Commands), NEW t, Sound(t, lg), NEW u \in Tables,
         u.viewers = t.viewers, u.stream = t.stream,
         \A i \in Ids : \/ u.owner[i] \in {t.owner[i], NoOwner}
                        \/ /\ Exists(t, i) /\ u.owner[i].epoch \in 1..Len(lg)
                           /\ lg[u.owner[i].epoch] = [op |-> "acquire", id |-> i, node |-> u.owner[i].node]
  PROVE  Sound(u, lg)
<1>1. OwnersNamed(u, lg)
  BY DEF Sound, OwnersNamed
<1>2. KeysKept(u)
  BY DEF Sound, KeysKept, Exists
<1>3. MarksMeant(u, lg)
  BY DEF Sound, MarksMeant
<1> QED
  BY <1>1, <1>2, <1>3 DEF Sound

\* Every entry of the log keeps tables sound, in or out of its turn.
LEMMA ApplySound ==
  ASSUME NEW lg \in Seq(Commands), NEW k \in 1..Len(lg), NEW t, Sound(t, lg)
  PROVE  Sound(apply_command(t, lg[k], k), lg)
<1> DEFINE c == lg[k]
           u == apply_command(t, c, k)
<1> SUFFICES Sound(u, lg)
  OBVIOUS
<1>1. c \in Commands /\ k \in Nat /\ t \in Tables
  BY DEF Sound
<1>2. u \in Tables
  BY <1>1, ApplyTables
<1>3. CASE u = t
  BY <1>3
<1>4. CASE c.op = "create" /\ u # t
  <2>1. c \in [op : {"create"}, id : Ids, token : Tokens]
    BY <1>1, <1>4 DEF Commands
  <2> DEFINE r == [token |-> c.token, enabled |-> TRUE, pending |-> FALSE]
  <2>2. /\ ~Exists(t, c.id)
        /\ u = [t EXCEPT !.stream[c.id] = r, !.viewers = @ \cup {<<c.id, Default>>}]
    BY <1>4 DEF apply_command, stream_add_with_viewer
  <2>3. r # NoRow /\ r.pending = FALSE
    BY <2>1, TableAssumption DEF NoRow
  <2> HIDE DEF r
  <2>4. /\ u.stream = [t.stream EXCEPT ![c.id] = r] /\ u.owner = t.owner
        /\ u.viewers = t.viewers \cup {<<c.id, Default>>}
    BY <1>1, <2>2 DEF Tables
  <2> HIDE DEF u, c
  <2>5. u.stream[c.id] = r /\ \A i \in Ids \ {c.id} : u.stream[i] = t.stream[i]
    BY <1>1, <2>1, <2>4 DEF Tables
  <2>6. OwnersNamed(u, lg)
    BY <2>4 DEF Sound, OwnersNamed
  <2>7. KeysKept(u)
    <3>1. ASSUME NEW i \in Ids, i # c.id
          PROVE  IF Exists(u, i) THEN <<i, Default>> \in u.viewers
                 ELSE (\A v \in u.viewers : v[1] # i) /\ u.owner[i] = NoOwner
      <4>1. Exists(u, i) <=> Exists(t, i)
        BY <2>5, <3>1 DEF Exists
      <4>2. (\A v \in t.viewers : v[1] # i) => (\A v \in u.viewers : v[1] # i)
        BY <2>4, <3>1
      <4> QED
        BY <2>4, <4>1, <4>2 DEF Sound, KeysKept
    <3>2. Exists(u, c.id) /\ <<c.id, Default>> \in u.viewers
      BY <2>3, <2>4, <2>5 DEF Exists
    <3> QED
      BY <3>1, <3>2 DEF KeysKept
  <2>8. MarksMeant(u, lg)
    BY <2>3, <2>5 DEF Sound, MarksMeant
  <2> QED
    BY <1>2, <2>6, <2>7, <2>8 DEF Sound
<1>5. CASE c.op = "begin" /\ u # t
  <2>1. c \in [op : {"begin"}, id : Ids, token : Tokens \cup {NoToken}]
    BY <1>1, <1>5 DEF Commands
  <2>2. /\ Exists(t, c.id) /\ c.token \in {NoToken, t.stream[c.id].token}
        /\ u = [t EXCEPT !.stream[c.id].enabled = FALSE, !.stream[c.id].pending = TRUE]
    BY <1>5 DEF apply_command, stream_disable_expecting
  <2>3. t.stream[c.id] \in StreamRows
    BY <1>1, <2>1, <2>2 DEF Tables, Exists
  <2>4. /\ u.viewers = t.viewers /\ u.owner = t.owner
        /\ \A i \in Ids \ {c.id} : u.stream[i] = t.stream[i]
        /\ u.stream[c.id].token = t.stream[c.id].token
    BY <1>1, <2>1, <2>2, <2>3 DEF Tables, StreamRows
  <2>5. Begun(lg, c.id, t.stream[c.id].token)
    BY <2>1, <2>2 DEF Begun
  <2>6. Exists(u, c.id)
    BY <2>3, <2>4, TableAssumption DEF Exists, NoRow, StreamRows
  <2> HIDE DEF u
  <2> QED
    BY <1>2, <2>1, <2>2, <2>4, <2>5, <2>6, SoundStream
<1>6. CASE c.op = "finalize" /\ u # t
  <2>1. c \in [op : {"finalize"}, id : Ids]
    BY <1>1, <1>6 DEF Commands
  <2>2. u = [t EXCEPT !.stream[c.id] = NoRow, !.viewers = {v \in @ : v[1] # c.id},
                      !.owner[c.id] = NoOwner]
    BY <1>6 DEF apply_command, stream_delete_if_pending
  <2>3. /\ u.stream = [t.stream EXCEPT ![c.id] = NoRow] /\ u.owner = [t.owner EXCEPT ![c.id] = NoOwner]
        /\ u.viewers = {v \in t.viewers : v[1] # c.id}
    BY <1>1, <2>2 DEF Tables
  <2> HIDE DEF u, c
  <2>4. /\ u.stream[c.id] = NoRow /\ u.owner[c.id] = NoOwner
        /\ \A i \in Ids \ {c.id} : u.stream[i] = t.stream[i] /\ u.owner[i] = t.owner[i]
    BY <1>1, <2>1, <2>3 DEF Tables
  <2>5. OwnersNamed(u, lg)
    BY <2>4 DEF Sound, OwnersNamed
  <2>6. KeysKept(u)
    <3>1. ASSUME NEW i \in Ids, i # c.id
          PROVE  IF Exists(u, i) THEN <<i, Default>> \in u.viewers
                 ELSE (\A v \in u.viewers : v[1] # i) /\ u.owner[i] = NoOwner
      <4>1. (Exists(u, i) <=> Exists(t, i)) /\ u.owner[i] = t.owner[i]
        BY <2>4, <3>1 DEF Exists
      <4>2. <<i, Default>> \in t.viewers => <<i, Default>> \in u.viewers
        BY <2>3, <3>1
      <4>3. (\A v \in t.viewers : v[1] # i) => (\A v \in u.viewers : v[1] # i)
        BY <2>3
      <4> QED
        BY <4>1, <4>2, <4>3 DEF Sound, KeysKept
    <3>2. ~Exists(u, c.id) /\ (\A v \in u.viewers : v[1] # c.id) /\ u.owner[c.id] = NoOwner
      BY <2>3, <2>4 DEF Exists
    <3> QED
      BY <3>1, <3>2 DEF KeysKept
  <2>7. MarksMeant(u, lg)
    BY <2>4 DEF Sound, MarksMeant, NoRow
  <2> QED
    BY <1>2, <2>5, <2>6, <2>7 DEF Sound
<1>7. CASE c.op = "enable" /\ u # t
  <2>1. c \in [op : {"enable"}, id : Ids, on : BOOLEAN]
    BY <1>1, <1>7 DEF Commands
  <2>2. /\ Exists(t, c.id)
        /\ u = [t EXCEPT !.stream[c.id].enabled = c.on, !.stream[c.id].pending = FALSE]
    BY <1>7 DEF apply_command, stream_set_enabled
  <2>3. t.stream[c.id] \in StreamRows
    BY <1>1, <2>1, <2>2 DEF Tables, Exists
  <2>4. /\ u.viewers = t.viewers /\ u.owner = t.owner
        /\ \A i \in Ids \ {c.id} : u.stream[i] = t.stream[i]
        /\ u.stream[c.id].token = t.stream[c.id].token /\ u.stream[c.id].pending = FALSE
    BY <1>1, <2>1, <2>2, <2>3 DEF Tables, StreamRows
  <2>5. Exists(u, c.id)
    BY <2>3, <2>4, TableAssumption DEF Exists, NoRow, StreamRows
  <2> HIDE DEF u
  <2> QED
    BY <1>2, <2>1, <2>2, <2>4, <2>5, SoundStream
<1>8. CASE c.op = "add_viewer" /\ u # t
  <2>1. c \in [op : {"add_viewer"}, id : Ids, viewer : Viewers]
    BY <1>1, <1>8 DEF Commands
  <2>2. Exists(t, c.id) /\ u = [t EXCEPT !.viewers = @ \cup {<<c.id, c.viewer>>}]
    BY <1>8 DEF apply_command, viewer_add
  <2>3. /\ u.stream = t.stream /\ u.owner = t.owner
        /\ u.viewers = t.viewers \cup {<<c.id, c.viewer>>}
    BY <1>1, <2>2 DEF Tables
  <2> HIDE DEF u, c
  <2>4. OwnersNamed(u, lg) /\ MarksMeant(u, lg)
    BY <2>3 DEF Sound, OwnersNamed, MarksMeant
  <2>5. KeysKept(u)
    <3>1. ASSUME NEW i \in Ids
          PROVE  IF Exists(u, i) THEN <<i, Default>> \in u.viewers
                 ELSE (\A v \in u.viewers : v[1] # i) /\ u.owner[i] = NoOwner
      <4>1. (Exists(u, i) <=> Exists(t, i)) /\ u.owner[i] = t.owner[i]
        BY <2>3 DEF Exists
      <4>2. <<i, Default>> \in t.viewers => <<i, Default>> \in u.viewers
        BY <2>3
      <4>3. ~Exists(t, i) /\ (\A v \in t.viewers : v[1] # i) => (\A v \in u.viewers : v[1] # i)
        BY <2>2, <2>3
      <4> QED
        BY <4>1, <4>2, <4>3 DEF Sound, KeysKept
    <3> QED
      BY <3>1 DEF KeysKept
  <2> QED
    BY <1>2, <2>4, <2>5 DEF Sound
<1>9. CASE c.op = "delete_viewer" /\ u # t
  <2>1. c \in [op : {"delete_viewer"}, id : Ids, viewer : Viewers \cup {Default}]
    BY <1>1, <1>9 DEF Commands
  <2>2. ~(Exists(t, c.id) /\ c.viewer = Default) /\ u = [t EXCEPT !.viewers = @ \ {<<c.id, c.viewer>>}]
    BY <1>9 DEF apply_command, delete_viewer
  <2>3. /\ u.stream = t.stream /\ u.owner = t.owner
        /\ u.viewers = t.viewers \ {<<c.id, c.viewer>>}
    BY <1>1, <2>2 DEF Tables
  <2> HIDE DEF u, c
  <2>4. OwnersNamed(u, lg) /\ MarksMeant(u, lg)
    BY <2>3 DEF Sound, OwnersNamed, MarksMeant
  <2>5. KeysKept(u)
    <3>1. ASSUME NEW i \in Ids
          PROVE  IF Exists(u, i) THEN <<i, Default>> \in u.viewers
                 ELSE (\A v \in u.viewers : v[1] # i) /\ u.owner[i] = NoOwner
      <4>1. (Exists(u, i) <=> Exists(t, i)) /\ u.owner[i] = t.owner[i]
        BY <2>3 DEF Exists
      <4>2. Exists(t, i) /\ <<i, Default>> \in t.viewers => <<i, Default>> \in u.viewers
        BY <2>2, <2>3
      <4>3. (\A v \in t.viewers : v[1] # i) => (\A v \in u.viewers : v[1] # i)
        BY <2>3
      <4> QED
        BY <4>1, <4>2, <4>3 DEF Sound, KeysKept
    <3> QED
      BY <3>1 DEF KeysKept
  <2> QED
    BY <1>2, <2>4, <2>5 DEF Sound
<1>10. CASE c.op = "api" /\ u # t
  <2>1. u = [t EXCEPT !.api = c.api]
    BY <1>10 DEF apply_command, token_replace
  <2>2. u.stream = t.stream /\ u.owner = t.owner /\ u.viewers = t.viewers
    BY <1>1, <2>1 DEF Tables
  <2> HIDE DEF u
  <2> QED
    BY <1>2, <2>2, SoundOwners
<1>11. CASE c.op = "acquire" /\ u # t
  <2>1. c \in [op : {"acquire"}, id : Ids, node : NodeIds]
    BY <1>1, <1>11 DEF Commands
  <2>2. t.stream[c.id].enabled /\ u = [t EXCEPT !.owner[c.id] = [node |-> c.node, epoch |-> k]]
    BY <1>11 DEF apply_command, stream_owner_acquire
  <2>3. Exists(t, c.id)
    BY <2>2 DEF Exists, NoRow
  <2>4. /\ u.stream = t.stream /\ u.viewers = t.viewers
        /\ u.owner[c.id] = [node |-> c.node, epoch |-> k]
        /\ \A i \in Ids \ {c.id} : u.owner[i] = t.owner[i]
    BY <1>1, <2>1, <2>2 DEF Tables
  <2>5. lg[k] = [op |-> "acquire", id |-> c.id, node |-> c.node]
    BY <2>1
  <2> HIDE DEF u
  <2> QED
    BY <1>2, <2>1, <2>3, <2>4, <2>5, SoundOwners
<1>12. CASE c.op = "release" /\ u # t
  <2>1. c \in [op : {"release"}, id : Ids, epoch : Nat]
    BY <1>1, <1>12 DEF Commands
  <2>2. u = [t EXCEPT !.owner[c.id] = NoOwner]
    BY <1>12 DEF apply_command, stream_owner_release
  <2>3. u.stream = t.stream /\ u.viewers = t.viewers /\ \A i \in Ids : u.owner[i] \in {t.owner[i], NoOwner}
    BY <1>1, <2>1, <2>2 DEF Tables
  <2> HIDE DEF u
  <2> QED
    BY <1>2, <2>3, SoundOwners
<1>13. CASE c.op = "release_node" /\ u # t
  <2>1. u = stream_owners_release_for_node(t, c.node, c.max)
    BY <1>13 DEF apply_command
  <2>2. u.stream = t.stream /\ u.viewers = t.viewers /\ \A i \in Ids : u.owner[i] \in {t.owner[i], NoOwner}
    BY <1>1, <2>1 DEF Tables, stream_owners_release_for_node
  <2> HIDE DEF u
  <2> QED
    BY <1>2, <2>2, SoundOwners
<1>14. CASE c.op \notin {"create", "begin", "finalize", "enable", "add_viewer", "delete_viewer",
                         "api", "acquire", "release", "release_node"}
  BY <1>3, <1>14 DEF apply_command
<1> QED
  BY <1>3, <1>4, <1>5, <1>6, <1>7, <1>8, <1>9, <1>10, <1>11, <1>12, <1>13, <1>14

\* New tables are sound, and stay sound in a longer log.
LEMMA EmptySound == ASSUME NEW lg \in Seq(Commands) PROVE Sound(EmptyTables, lg)
<1>1. /\ \A id \in Ids : EmptyTables.stream[id] = NoRow /\ EmptyTables.owner[id] = NoOwner
      /\ EmptyTables.viewers = {}
  BY DEF EmptyTables
<1> HIDE DEF EmptyTables
<1>2. \A id \in Ids : ~EmptyTables.stream[id].pending
  <2>1. NoRow.pending = FALSE
    BY DEF NoRow
  <2> QED
    BY <1>1, <2>1
<1> QED
  BY <1>1, <1>2, EmptyType DEF Sound, OwnersNamed, KeysKept, MarksMeant, Exists

\* The log only grows.
LEMMA LongerSound ==
  ASSUME NEW lg \in Seq(Commands), NEW c \in Commands, NEW t, Sound(t, lg)
  PROVE  Sound(t, Append(lg, c))
<1> DEFINE new == Append(lg, c)
<1>1. new \in Seq(Commands) /\ Len(lg) \in Nat /\ Len(new) = Len(lg) + 1 /\ \A k \in 1..Len(lg) : new[k] = lg[k]
  OBVIOUS
<1> HIDE DEF new
<1>2. \A k \in 1..Len(lg) : k \in 1..Len(new)
  BY <1>1
<1>3. OwnersNamed(t, new)
  BY <1>1, <1>2 DEF Sound, OwnersNamed
<1>4. MarksMeant(t, new)
  <2> SUFFICES ASSUME NEW id \in Ids, t.stream[id].pending PROVE Begun(new, id, t.stream[id].token)
    BY DEF MarksMeant
  <2>1. PICK k \in 1..Len(lg) : lg[k].op = "begin" /\ lg[k].id = id /\ lg[k].token \in {NoToken, t.stream[id].token}
    BY DEF Sound, MarksMeant, Begun
  <2> QED
    BY <1>1, <1>2, <2>1 DEF Begun
<1> QED
  BY <1>3, <1>4 DEF Sound, new

\* The snapshots a node has.
SnapshotsOf(n) == {built[n], current[n], stored[n], incoming[n]}

\* A step of a node makes at most one new snapshot, of its own state.
LEMMA SnapshotsFrom ==
  ASSUME TypeOK, NEW n \in Nodes, NodeNext(n) \/ Crashes(n), NEW x \in Nodes, NEW sn \in SnapshotsOf(x)'
  PROVE  \/ sn = NoSnapshot \/ sn = Snapshot(applied[n], tables[n], members[n], ahead[n])
         \/ \E m \in Nodes : sn \in SnapshotsOf(m)
<1>1. CASE x # n
  <2>1. NodeState(x)' = NodeState(x)
    BY <1>1, OthersUnchanged
  <2>2. SnapshotsOf(x)' = SnapshotsOf(x)
    BY <2>1 DEF NodeState, SnapshotsOf
  <2> QED
    BY <2>2
<1>2. CASE x = n
  <2> DEFINE Known(y) == \/ y = NoSnapshot \/ y = Snapshot(applied[n], tables[n], members[n], ahead[n])
                         \/ \E m \in Nodes : y \in SnapshotsOf(m)
  <2>1. \A m \in Nodes : Known(built[m]) /\ Known(current[m]) /\ Known(stored[m]) /\ Known(incoming[m])
    BY DEF SnapshotsOf
  <2>2. Known(NoSnapshot) /\ Known(Snapshot(applied[n], tables[n], members[n], ahead[n]))
    OBVIOUS
  <2> HIDE DEF Known
  <2>3. Known(built'[n])
    <3>1. built'[n] \in {built[n], NoSnapshot, Snapshot(applied[n], tables[n], members[n], ahead[n])}
      BY DEF TypeOK, NodeNext, Applies, PersistsApplied, Captures, Publishes, PersistsBuilt,
         Purges,
         Replicates, InstallsTables, InstallsIndex, InstallsSnapshot, Crashes
    <3> QED
      BY <2>1, <2>2, <3>1
  <2>4. Known(current'[n])
    <3>1. current'[n] \in {current[n], built[n], incoming[n], stored[n]}
      BY DEF TypeOK, NodeNext, Applies, PersistsApplied, Captures, Publishes, PersistsBuilt,
         Purges,
         Replicates, InstallsTables, InstallsIndex, InstallsSnapshot, Crashes
    <3> QED
      BY <2>1, <3>1
  <2>5. Known(stored'[n])
    <3>1. stored'[n] \in {stored[n], built[n], incoming[n]}
      BY DEF TypeOK, NodeNext, Applies, PersistsApplied, Captures, Publishes, PersistsBuilt,
         Purges,
         Replicates, InstallsTables, InstallsIndex, InstallsSnapshot, Crashes
    <3> QED
      BY <2>1, <3>1
  <2>6. Known(incoming'[n])
    <3>1. incoming'[n] \in {incoming[n], NoSnapshot} \/ \E m \in Nodes : incoming'[n] = current[m]
      BY DEF TypeOK, NodeNext, Applies, PersistsApplied, Captures, Publishes, PersistsBuilt,
         Purges,
         Replicates, InstallsTables, InstallsIndex, InstallsSnapshot, Crashes
    <3> QED
      BY <2>1, <2>2, <3>1
  <2>7. Known(sn)
    BY <1>2, <2>3, <2>4, <2>5, <2>6 DEF SnapshotsOf
  <2> QED
    BY <2>7 DEF Known
<1> QED
  BY <1>1, <1>2

\* All tables, in use or in a snapshot, are sound.
AllSound ==
    \A n \in Nodes : Sound(tables[n], log) /\ \A sn \in SnapshotsOf(n) : Sound(sn.tables, log)

SInv == TypeOK /\ Ordered /\ AllSound

\* The tables of a new cluster are sound.
LEMMA InitSound == Init => AllSound
<1> SUFFICES ASSUME Init PROVE AllSound
  OBVIOUS
<1>1. log \in Seq(Commands)
  BY DEF Init
<1>2. Sound(EmptyTables, log) /\ NoSnapshot.tables = EmptyTables
  BY <1>1, EmptySound DEF NoSnapshot, Snapshot
<1>3. \A n \in Nodes : tables[n] = EmptyTables /\ \A sn \in SnapshotsOf(n) : sn = NoSnapshot
  BY DEF Init, SnapshotsOf
<1> QED
  BY <1>2, <1>3 DEF AllSound

\* Every step keeps all tables sound.
LEMMA SoundStep == SInv /\ [Next]_vars => SInv'
<1> SUFFICES ASSUME SInv, [Next]_vars PROVE AllSound'
  BY OrderedStep DEF SInv
<1>0. TypeOK /\ log \in Seq(Commands) /\ Len(log) \in Nat
  BY DEF SInv, TypeOK
<1>1. ASSUME NEW c \in Proposals, NEW Q \in Quorums, Commit(c, Q) PROVE AllSound'
  <2>1. log' = Append(log, c) /\ c \in Commands
    BY <1>1, ProposalAssumption DEF Commit
  <2>2. UNCHANGED tables /\ \A n \in Nodes : SnapshotsOf(n)' = SnapshotsOf(n)
    BY <1>1 DEF Commit, SnapshotsOf
  <2> QED
    BY <1>0, <2>1, <2>2, LongerSound DEF AllSound, SInv
<1>2. ASSUME NEW n \in Nodes, NodeNext(n) \/ Crashes(n) PROVE AllSound'
  <2>1. log' = log
    BY <1>2 DEF NodeNext, Applies, PersistsApplied, Captures, Publishes, PersistsBuilt, Purges,
           Replicates, InstallsTables, InstallsIndex, InstallsSnapshot, Crashes
  <2>2. ASSUME NEW x \in Nodes, NEW sn \in SnapshotsOf(x)' PROVE Sound(sn.tables, log)
    <3>1. Sound(NoSnapshot.tables, log)
      BY <1>0, EmptySound DEF NoSnapshot, Snapshot
    <3>2. Sound(Snapshot(applied[n], tables[n], members[n], ahead[n]).tables, log)
      BY DEF SInv, AllSound, Snapshot
    <3>3. \A m \in Nodes : \A y \in SnapshotsOf(m) : Sound(y.tables, log)
      BY DEF SInv, AllSound
    <3> QED
      BY <1>0, <1>2, <2>2, <3>1, <3>2, <3>3, SnapshotsFrom
  <2>3. ASSUME NEW x \in Nodes PROVE Sound(tables'[x], log)
    <3>1. \/ tables'[x] = tables[x]
          \/ Applies(n) /\ x = n
          \/ \E m \in Nodes : tables'[x] = current[m].tables
      BY <1>0, <1>2 DEF TypeOK, NodeNext, Applies, PersistsApplied, Captures, Publishes,
         PersistsBuilt, Purges, Replicates, InstallsTables, InstallsIndex, InstallsSnapshot, Crashes
    <3>2. CASE Applies(n) /\ x = n
      <4>1. /\ tables'[n] = apply_command(tables[n], log[applied[n] + 1], applied[n] + 1)
            /\ applied[n] + 1 \in 1..Len(log)
        BY <1>0, <3>2 DEF Applies, TypeOK
      <4> QED
        BY <1>0, <3>2, <4>1, ApplySound DEF SInv, AllSound
    <3> QED
      BY <3>1, <3>2 DEF SInv, AllSound, SnapshotsOf
  <2> QED
    BY <2>1, <2>2, <2>3 DEF AllSound
<1>3. CASE UNCHANGED vars
  BY <1>3 DEF vars, nodeVars, SInv, AllSound, SnapshotsOf
<1> QED
  BY <1>1, <1>2, <1>3 DEF Next

\* All tables are sound in every reachable state.
THEOREM SoundAlways == Spec => []SInv
<1>1. Init => SInv
  BY InitType, InitOrdered, InitSound DEF SInv
<1> QED
  BY <1>1, SoundStep, PTL DEF Spec

\* Wherever crashes strike, every owner in the tables of a node carries the
\* index of the entry that granted it (stream_owner_acquire with the log index
\* as its epoch), so no epoch is ever granted twice.
THEOREM EpochsCorrect == Spec => []EpochsNameGrants
<1>1. SInv => EpochsNameGrants
  BY DEF SInv, AllSound, Sound, OwnersNamed, EpochsNameGrants
<1> QED
  BY <1>1, SoundAlways, PTL

\* Wherever crashes strike, a stream keeps its own play key and nothing of a
\* stream outlives it (DeleteViewer and the cascade of stream_delete_if_pending).
THEOREM KeysCorrect == Spec => []KeysRemain
<1>1. SInv => KeysRemain
  BY DEF SInv, AllSound, Sound, KeysKept, KeysRemain, ViewersOf
<1> QED
  BY <1>1, SoundAlways, PTL

\* Wherever crashes strike, an entry that removes a row was preceded by a
\* delete that was begun for that row (stream_disable_expecting).
THEOREM DeletesCorrect == Spec => DeletesAreMeant
<1> DEFINE Meant ==
      \A n \in Nodes, id \in Ids :
          /\ lock[n] = "free" /\ lock'[n] = "apply"
          /\ Exists(tables[n], id) /\ ~Exists(tables'[n], id)
          => \E k \in 1..Len(log) :
               /\ log[k].op = "begin" /\ log[k].id = id
               /\ log[k].token \in {NoToken, tables[n].stream[id].token}
<1>1. SInv /\ [Next]_vars => Meant
  <2> SUFFICES ASSUME SInv, [Next]_vars, NEW n \in Nodes, NEW id \in Ids,
                      lock[n] = "free", lock'[n] = "apply",
                      Exists(tables[n], id), ~Exists(tables'[n], id)
               PROVE  Begun(log, id, tables[n].stream[id].token)
    BY DEF Begun
  <2>0. TypeOK /\ log \in Seq(Commands) /\ Len(log) \in Nat /\ Sound(tables[n], log)
    BY DEF SInv, AllSound, TypeOK
  <2>1. Applies(n)
    <3>1. PICK m \in Nodes : NodeNext(m) \/ Crashes(m)
      BY DEF Next, vars, nodeVars, Commit
    <3>2. m = n
      <4>1. m # n => lock'[n] = lock[n]
        BY <2>0, <3>1, OthersUnchanged DEF NodeState
      <4> QED
        BY <4>1
    <3> QED
      BY <2>0, <3>1, <3>2 DEF TypeOK, NodeNext, Applies, PersistsApplied, Captures, Publishes,
         PersistsBuilt, Purges, Replicates, InstallsTables, InstallsIndex, InstallsSnapshot, Crashes, Goes
  <2> DEFINE t == tables[n]
             k == applied[n] + 1
             c == log[k]
             u == apply_command(t, c, k)
  <2>2. tables'[n] = u /\ k \in 1..Len(log) /\ c \in Commands /\ t \in Tables
    BY <2>0, <2>1 DEF Applies, TypeOK
  <2> HIDE DEF t, k, c, u
  <2>3. c.op = "finalize" /\ c.id = id /\ t.stream[id].pending
    <3>1. Exists(t, id) /\ ~Exists(u, id) /\ u = apply_command(t, c, k)
      BY <2>2 DEF t, u
    <3>2. CASE u.stream = t.stream
      BY <3>1, <3>2 DEF Exists
    <3>3. CASE c.op = "create" /\ u.stream # t.stream
      <4>1. c \in [op : {"create"}, id : Ids, token : Tokens]
        BY <2>2, <3>3 DEF Commands
      <4>2. ~Exists(t, c.id) /\ u.stream = [t.stream EXCEPT ![c.id] = [token |-> c.token, enabled |-> TRUE, pending |-> FALSE]]
        BY <2>2, <3>1, <3>3 DEF apply_command, stream_add_with_viewer, Tables
      <4> QED
        BY <2>2, <3>1, <4>1, <4>2 DEF Exists, Tables
    <3>4. CASE c.op \in {"begin", "enable"} /\ u.stream # t.stream
      <4>1. c.id \in Ids
        BY <2>2, <3>4 DEF Commands
      <4>2. Exists(t, c.id) /\ \E p, on : u = [t EXCEPT !.stream[c.id].enabled = on, !.stream[c.id].pending = p]
        BY <3>1, <3>4 DEF apply_command, stream_disable_expecting, stream_set_enabled
      <4>3. t.stream[c.id] \in StreamRows
        BY <2>2, <4>1, <4>2 DEF Tables, Exists
      <4>4. u.stream[c.id].token = t.stream[c.id].token /\ \A i \in Ids \ {c.id} : u.stream[i] = t.stream[i]
        BY <2>2, <4>1, <4>2, <4>3 DEF Tables, StreamRows
      <4>5. Exists(u, c.id)
        BY <4>3, <4>4, TableAssumption DEF Exists, NoRow, StreamRows
      <4> QED
        BY <3>1, <4>4, <4>5 DEF Exists
    <3>5. CASE c.op = "finalize" /\ u.stream # t.stream
      <4>1. c \in [op : {"finalize"}, id : Ids]
        BY <2>2, <3>5 DEF Commands
      <4>2. t.stream[c.id].pending /\ u.stream = [t.stream EXCEPT ![c.id] = NoRow]
        BY <2>2, <3>1, <3>5 DEF apply_command, stream_delete_if_pending, Tables
      <4>3. c.id = id
        BY <2>2, <3>1, <4>2 DEF Exists, Tables
      <4> QED
        BY <3>5, <4>2, <4>3
    <3>6. CASE c.op \notin {"create", "begin", "enable", "finalize"}
      <4>1. u.stream = t.stream
        BY <2>2, <3>1, <3>6 DEF apply_command, viewer_add, delete_viewer, token_replace,
           stream_owner_acquire, stream_owner_release, stream_owners_release_for_node, Tables
      <4> QED
        BY <3>2, <4>1
    <3> QED
      BY <3>2, <3>3, <3>4, <3>5, <3>6
  <2> QED
    BY <2>0, <2>3 DEF Sound, MarksMeant, t
<1>2. SInv /\ [Next]_vars => [Meant]_vars
  BY <1>1
<1> QED
  BY <1>2, SoundAlways, PTL DEF Spec, DeletesAreMeant

-----------------------------------------------------------------------------
\* The voters of a node, and of every snapshot, are those of their index.
VotersPlaced ==
    \A n \in Nodes :
        /\ members[n] = hist[applied[n]].members
        /\ \A sn \in SnapshotsOf(n) : sn.at >= 0 => sn.members = hist[sn.at].members

VInv == TypeOK /\ Ordered /\ HistoryOK /\ VotersPlaced

\* Every step keeps them so, a crash inside install_snapshot included: the
\* index and the voters of a snapshot are stored in one transaction.
LEMMA VotersStep == VInv /\ [Next]_vars => VInv'
<1> SUFFICES ASSUME VInv, [Next]_vars PROVE HistoryOK' /\ VotersPlaced'
  BY OrderedStep DEF VInv
<1>0. /\ TypeOK /\ HistoryOK /\ log \in Seq(Commands) /\ Len(log) \in Nat
      /\ \A n \in Nodes : applied[n] \in 0..Len(log)
      /\ \A n \in Nodes : \A sn \in SnapshotsOf(n) : sn \in Snapshots
  BY DEF VInv, TypeOK, SnapshotsOf
<1>1. ASSUME NEW c \in Proposals, NEW Q \in Quorums, Commit(c, Q) PROVE HistoryOK' /\ VotersPlaced'
  <2>1. \A k \in 0..Len(log) : hist'[k] = hist[k]
    BY <1>0, <1>1 DEF Commit
  <2>2. UNCHANGED <<members, applied>> /\ \A n \in Nodes : SnapshotsOf(n)' = SnapshotsOf(n)
    BY <1>1 DEF Commit, SnapshotsOf
  <2>3. \A n \in Nodes : \A sn \in SnapshotsOf(n) : sn.at >= 0 => sn.at \in 0..Len(log)
    BY <1>0, SnapshotParts
  <2>4. VotersPlaced'
    BY <1>0, <2>1, <2>2, <2>3 DEF VInv, VotersPlaced
  <2> QED
    BY <1>0, <1>1, <2>4, CommitHistory
<1>2. ASSUME NEW n \in Nodes, NodeNext(n) \/ Crashes(n) PROVE HistoryOK' /\ VotersPlaced'
  <2>1. UNCHANGED <<log, hist>>
    BY <1>2 DEF NodeNext, Applies, PersistsApplied, Captures, Publishes, PersistsBuilt, Purges,
           Replicates, InstallsTables, InstallsIndex, InstallsSnapshot, Crashes
  <2>2. ASSUME NEW x \in Nodes, NEW sn \in SnapshotsOf(x)', sn.at >= 0 PROVE sn.members = hist[sn.at].members
    <3>1. NoSnapshot.at = -1
      BY DEF NoSnapshot, Snapshot
    <3>2. /\ Snapshot(applied[n], tables[n], members[n], ahead[n]).members = members[n]
          /\ Snapshot(applied[n], tables[n], members[n], ahead[n]).at = applied[n]
      BY DEF Snapshot
    <3>3. \A m \in Nodes : \A y \in SnapshotsOf(m) : y.at >= 0 => y.members = hist[y.at].members
      BY DEF VInv, VotersPlaced
    <3>4. members[n] = hist[applied[n]].members
      BY DEF VInv, VotersPlaced
    <3>5. \/ sn = NoSnapshot \/ sn = Snapshot(applied[n], tables[n], members[n], ahead[n])
          \/ \E m \in Nodes : sn \in SnapshotsOf(m)
      BY <1>0, <1>2, <2>2, SnapshotsFrom
    <3> QED
      BY <2>2, <3>1, <3>2, <3>3, <3>4, <3>5
  <2>3. ASSUME NEW x \in Nodes PROVE members'[x] = hist[applied'[x]].members
    <3>1. \/ members'[x] = members[x] /\ applied'[x] = applied[x]
          \/ x = n /\ PersistsApplied(n)
          \/ x = n /\ InstallsIndex(n)
      BY <1>0, <1>2 DEF TypeOK, NodeNext, Applies, PersistsApplied, Captures, Publishes,
         PersistsBuilt, Purges, Replicates, InstallsTables, InstallsIndex, InstallsSnapshot, Crashes
    <3>2. members[x] = hist[applied[x]].members /\ NodeOrdered(n)
      BY DEF VInv, VotersPlaced, Ordered
    <3>3. CASE x = n /\ PersistsApplied(n)
      <4>1. /\ applied'[n] = applied[n] + 1
            /\ members'[n] = MembersAfter(members[n], log[applied[n] + 1])
            /\ applied[n] + 1 \in 1..Len(log) /\ (applied[n] + 1) - 1 = applied[n]
        <5>1. applied[n] \in 0..Len(log) /\ applied[n] < Len(log)
          BY <1>0, <3>2, <3>3 DEF PersistsApplied, NodeOrdered
        <5>2. applied[n] + 1 \in 1..Len(log) /\ (applied[n] + 1) - 1 = applied[n]
          BY <1>0, <5>1
        <5>3. /\ applied'[n] = applied[n] + 1
              /\ members'[n] = MembersAfter(members[n], log[applied[n] + 1])
          BY <1>0, <3>3 DEF PersistsApplied, TypeOK
        <5> QED
          BY <5>2, <5>3
      <4>2. hist[applied[n] + 1].members = MembersAfter(hist[applied[n]].members, log[applied[n] + 1])
        BY <1>0, <4>1 DEF HistoryOK
      <4> QED
        BY <3>2, <3>3, <4>1, <4>2
    <3>4. CASE x = n /\ InstallsIndex(n)
      <4>1. applied'[n] = incoming[n].at /\ members'[n] = incoming[n].members /\ lock[n] = "install"
        BY <1>0, <3>4 DEF InstallsIndex, TypeOK
      <4>2. incoming[n].at >= 0
        <5>1. incoming[n].at \in Int /\ incoming[n].at > applied[n]
          BY <1>0, <3>2, <4>1, SnapshotParts DEF NodeOrdered, SnapshotsOf
        <5> QED
          BY <1>0, <5>1
      <4>3. incoming[n].members = hist[incoming[n].at].members
        BY <4>2 DEF VInv, VotersPlaced, SnapshotsOf
      <4> QED
        BY <3>4, <4>1, <4>3
    <3> QED
      BY <3>1, <3>2, <3>3, <3>4
  <2>4. HistoryOK'
    BY <1>0, <2>1 DEF HistoryOK
  <2> QED
    BY <2>1, <2>2, <2>3, <2>4 DEF VotersPlaced
<1>3. CASE UNCHANGED vars
  <2>1. HistoryOK'
    BY <1>0, <1>3 DEF vars, nodeVars, HistoryOK
  <2>2. VotersPlaced'
    BY <1>3 DEF vars, nodeVars, VInv, VotersPlaced, SnapshotsOf
  <2> QED
    BY <2>1, <2>2
<1> QED
  BY <1>1, <1>2, <1>3 DEF Next

\* Wherever crashes strike, a node resumes with the voters of its index
\* (persist_applied_tx and install_snapshot store both together).
THEOREM MembersCorrect == Spec => []MembersMatchLog
<1>1. Init => VInv
  <2>1. Init => HistoryOK
    BY InitPlaced DEF Placed
  <2>2. Init => VotersPlaced
    BY DEF Init, VotersPlaced, SnapshotsOf, NoSnapshot, Snapshot
  <2> QED
    BY <2>1, <2>2, InitType, InitOrdered DEF VInv
<1>2. VInv => MembersMatchLog
  BY DEF VInv, VotersPlaced, MembersMatchLog
<1> QED
  BY <1>1, <1>2, VotersStep, PTL DEF Spec
=============================================================================
