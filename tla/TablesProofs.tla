---------------------------- MODULE TablesProofs ----------------------------
(***************************************************************************)
(* The theorems about what a node keeps account of, for every value of the *)
(* constants of MCTables: the keys of the viewers (ViewerKeys), the        *)
(* traffic of the sessions (SessionStats), the slots of the control and    *)
(* media ports (ControlPlane) and the slots of the HLS clients             *)
(* (HlsSessions).  Each part has an inductive invariant and a lemma that   *)
(* every one of its steps keeps it; the steps of the other parts leave its *)
(* variables alone.                                                        *)
(***************************************************************************)
EXTENDS MCTables, FiniteSetTheorems, TLAPS

-----------------------------------------------------------------------------
(* The keys of the viewers: ViewerKeys.                                    *)
\* The keys of a stream: every table holds viewers, the default viewer is
\* never deleted, and the snapshot is no newer than the table.
KeysType ==
    /\ rows \subseteq used /\ used \subseteq KeyViewers /\ DefaultViewer \in rows
    /\ generation \in 0 .. MaxGeneration
    /\ snapshot \in [gen : 0 .. generation, rows : SUBSET KeyViewers]
    /\ session \in [Players -> KeyViewers \cup {Nobody}]
    /\ asking \in [Players -> KeyViewers \cup {Nobody}]
    /\ creating \subseteq KeyViewers
    /\ deleting \in [checked : SUBSET (KeyViewers \ {DefaultViewer}), deleted : SUBSET KeyViewers]
    /\ seen \in [KeyViewers -> SUBSET Keys!Shards]

\* The viewers whose deletion is on its way: in the reply of the table, in
\* the queue of side effects, or marked revoked.
Going == revoked \cup effects \cup deleting.deleted

\* A deletion on its way is of a viewer that was there and has no row; one
\* whose grace has ended is marked; a viewer being created was never there.
Gone ==
    /\ Going \subseteq used \ rows
    /\ expired \subseteq revoked
    /\ creating \cap used = {}

\* A play request that was let in on a key no longer in the table is one
\* whose deletion is on its way, so that a tick will still find it.
AskersMarked == \A c \in Players : asking[c] \in KeyViewers \ rows => asking[c] \in Going

\* A poll thread that has swept for a deletion has left no session of that
\* viewer on its shard, and no request is still to be answered.
SeenQuiet ==
    \A k \in KeyViewers : seen[k] # {} =>
        /\ k \in used \ rows
        /\ \A c \in Players : asking[c] # k /\ (session[c] = k => ShardOf[c] \notin seen[k])

\* When the grace has ended nobody asks for or plays with the deleted key.
ExpiredQuiet == \A k \in expired : \A c \in Players : asking[c] # k /\ session[c] # k

\* The inductive invariant of the keys.
KeysInv ==
    /\ KeysType /\ Gone /\ AskersMarked /\ SeenQuiet /\ ExpiredQuiet
    /\ Keys!NoRevokedViewer /\ Keys!KeysDistinct

\* The default viewer, and no deletion, at the start.
LEMMA KeysInit == Keys!Init => KeysInv
  BY KeysAssumption DEF Keys!Init, KeysInv, KeysType, Gone, Going, AskersMarked, SeenQuiet, ExpiredQuiet, Keys!NoRevokedViewer, Keys!KeysDistinct, Keys!SnapshotValid

\* Every request, every deletion and every tick keeps the invariant of the
\* keys.
LEMMA KeysStepInv == KeysInv /\ Keys!Next => KeysInv'
<1> SUFFICES ASSUME KeysInv, Keys!Next PROVE KeysInv'
  OBVIOUS
<1> USE KeysAssumption DEF KeysInv, KeysType, Gone, Going, AskersMarked, SeenQuiet, ExpiredQuiet,
        Keys!NoRevokedViewer, Keys!KeysDistinct, Keys!SnapshotValid,
        Keys!table, Keys!plays, Keys!markers, Keys!requests
<1>1. CASE Keys!refresh_key_cache
  BY <1>1 DEF Keys!refresh_key_cache
<1>2. ASSUME NEW k \in KeyViewers, Keys!CreateChecked(k) PROVE KeysInv'
  BY <1>2 DEF Keys!CreateChecked
<1>3. ASSUME NEW k \in KeyViewers, Keys!viewer_add(k) PROVE KeysInv'
  BY <1>3 DEF Keys!viewer_add, Keys!Write, Keys!KeyIsFree, Keys!KeyRows
<1>4. ASSUME NEW k \in KeyViewers, Keys!DeleteChecked(k) PROVE KeysInv'
  BY <1>4 DEF Keys!DeleteChecked
<1>5. ASSUME NEW k \in KeyViewers, Keys!viewer_delete_if_not_last(k) PROVE KeysInv'
  <2>1. CASE deleting' = [deleting EXCEPT !.checked = @ \ {k}] /\ UNCHANGED <<rows, generation>>
    BY <1>5, <2>1 DEF Keys!viewer_delete_if_not_last
  <2>2. CASE /\ k \in rows /\ Keys!Write(rows \ {k})
             /\ deleting' = [checked |-> deleting.checked \ {k}, deleted |-> deleting.deleted \cup {k}]
    BY <1>5, <2>2 DEF Keys!viewer_delete_if_not_last, Keys!Checked, Keys!Write
  <2> QED
    BY <1>5, <2>1, <2>2 DEF Keys!viewer_delete_if_not_last, Keys!NotChecked
<1>6. ASSUME NEW k \in KeyViewers, Keys!DeleteMarks(k) PROVE KeysInv'
  BY <1>6 DEF Keys!DeleteMarks, Keys!Mark
<1>7. ASSUME NEW k \in KeyViewers, Keys!ApplyDeleteViewer(k) PROVE KeysInv'
  BY <1>7 DEF Keys!ApplyDeleteViewer, Keys!Write
<1>8. ASSUME NEW k \in KeyViewers, Keys!poll_side_effects(k) PROVE KeysInv'
  BY <1>8 DEF Keys!poll_side_effects, Keys!Mark
<1>9. ASSUME NEW k \in KeyViewers, Keys!RevokeHint(k) PROVE KeysInv'
  BY <1>9 DEF Keys!RevokeHint, Keys!Mark
<1>10. ASSUME NEW k \in KeyViewers, Keys!GraceEnds(k) PROVE KeysInv'
  <2>1. \A c \in Players : asking[c] # k /\ session[c] # k
    BY <1>10 DEF Keys!GraceEnds, Keys!Waiting, Keys!Shards
  <2> QED
    BY <1>10, <2>1 DEF Keys!GraceEnds
<1>11. ASSUME NEW c \in Players, Keys!Ask(c) PROVE KeysInv'
  BY <1>11 DEF Keys!Ask
<1>12. ASSUME NEW c \in Players, Keys!try_fast_authorize_play(c) PROVE KeysInv'
  BY <1>12 DEF Keys!try_fast_authorize_play, Keys!Answered, Keys!Play
<1>13. ASSUME NEW c \in Players, Keys!try_authorize_play(c) PROVE KeysInv'
  BY <1>13 DEF Keys!try_authorize_play, Keys!Answered, Keys!Play
<1>14. ASSUME NEW c \in Players, Keys!persist_fast_play(c) PROVE KeysInv'
  BY <1>14 DEF Keys!persist_fast_play, Keys!Play
<1>15. ASSUME NEW c \in Players, Keys!release_player(c) PROVE KeysInv'
  BY <1>15 DEF Keys!release_player, Keys!Play
<1>16. ASSUME NEW t \in Keys!Shards, Keys!Tick(t) PROVE KeysInv'
  BY <1>16 DEF Keys!Tick, Keys!Waiting
<1>17. ASSUME NEW t \in Keys!Shards, Keys!prune_markers(t) PROVE KeysInv'
  BY <1>17 DEF Keys!prune_markers, Keys!Prunable
<1> QED
  BY <1>1, <1>2, <1>3, <1>4, <1>5, <1>6, <1>7, <1>8, <1>9, <1>10, <1>11, <1>12, <1>13, <1>14, <1>15, <1>16, <1>17 DEF Keys!Next

-----------------------------------------------------------------------------
(* The traffic of the sessions: SessionStats.                              *)
\* The counters, rows and pending reports have their types, and the base of
\* a session is one of the byte counts the connection has had.
StatsType ==
    /\ media \in Nat /\ bytes \in Nat /\ base \in 0 .. media
    /\ armed \in BOOLEAN /\ behind \in BOOLEAN
    /\ holding \in StatIds \cup {0} /\ leaving \in StatIds \cup {0} /\ acquired \in StatIds \cup {0}
    /\ statRow \in [StatIds -> [state : {"absent", "active", "inactive"}, bytes : Nat]]
    /\ queued \in [StatIds -> Nat \cup {NoBytes}] /\ writing \in [StatIds -> Nat \cup {NoBytes}]
    /\ copy \in [id : StatIds \cup {0}, bytes : Nat] /\ (copy.id = 0 => copy.bytes = 0)
    /\ prior \in [id : StatIds \cup {0}, bytes : Nat] /\ (prior.id = 0 => prior.bytes = 0)
    /\ own \in [StatIds -> Nat]

\* No row, pending report or copy says more than its session has sent, and
\* neither does what the connection would report next.
OwnOnly ==
    /\ \A i \in StatIds :
         /\ statRow[i].bytes <= own[i]
         /\ queued[i] # NoBytes => queued[i] <= own[i]
         /\ writing[i] # NoBytes => writing[i] <= own[i]
    /\ copy.id # 0 => copy.bytes <= own[copy.id]
    /\ prior.id # 0 => prior.bytes <= own[prior.id]
    /\ holding # 0 => /\ bytes <= own[holding]
                      /\ ~armed => media - base <= own[holding]

\* A session nothing has been reported of.
Untouched(i) == queued[i] = NoBytes /\ writing[i] = NoBytes /\ statRow[i].bytes = 0

\* Who may be in the middle of what: a copy is in flight only while nothing
\* is being released, a replacement only while its predecessor has a row, and
\* a session that has not started, or was only just acquired, is untouched.
Roles ==
    /\ copy.id # 0 => leaving = 0 /\ holding # 0
    /\ prior.id # 0 => holding \in {0, prior.id} /\ statRow[prior.id].state # "absent"
    /\ leaving # 0 => statRow[leaving].state # "absent"
    /\ acquired # 0 => prior.id # 0 /\ acquired # holding /\ statRow[acquired].state # "absent"
    /\ \A i \in StatIds : statRow[i].state = "absent" => statRow[i].bytes = 0
    /\ (holding = 0 /\ ~armed) => /\ media = 0 /\ base = 0
                                  /\ \A i \in StatIds : statRow[i].state = "absent"
    /\ \A i \in StatIds : (i \notin Stats!Used \/ i = acquired) =>
         Untouched(i) /\ copy.id # i /\ prior.id # i /\ leaving # i

\* The last report of a session: the one still pending, the one being
\* written, or the one in its row.
Latest(i) ==
    IF queued[i] # NoBytes THEN queued[i]
    ELSE IF writing[i] # NoBytes THEN writing[i] ELSE statRow[i].bytes

\* What the connection has told of the session it holds is the last report
\* of that session, unless a commit has passed it by.
Reports ==
    /\ copy.id # 0 /\ copy.id = holding => copy.bytes = bytes
    /\ copy.id # 0 /\ copy.id # holding =>
         bytes = 0 /\ Untouched(holding) /\ (prior.id = holding => prior.bytes = 0)
    /\ holding # 0 /\ copy.id = 0 /\ ~behind => bytes = Latest(holding)

\* The inductive invariant of the traffic statistics.
StatsInv == StatsType /\ OwnOnly /\ Roles /\ Reports

\* No traffic, no session and no report at the start.
LEMMA StatsInit == Stats!Init => StatsInv
<1> SUFFICES ASSUME Stats!Init PROVE StatsInv
  OBVIOUS
<1> USE StatsAssumption DEF Stats!Init, Stats!None, Stats!NoQueue
<1>1. StatsType
  <2>1. armed \in BOOLEAN /\ behind \in BOOLEAN
    BY Zenon
  <2> QED
    BY <2>1 DEF StatsType
<1>2. OwnOnly
  BY DEF OwnOnly
<1>3. Roles
  BY DEF Roles, Untouched, Stats!Used
<1>4. Reports
  BY DEF Reports
<1> QED
  BY <1>1, <1>2, <1>3, <1>4 DEF StatsInv

\* Every step of the connection, the poll thread and the worker keeps the
\* invariant of the statistics.
LEMMA StatsStepInv == StatsInv /\ Stats!Next => StatsInv'
<1> SUFFICES ASSUME StatsInv, Stats!Next PROVE StatsInv'
  OBVIOUS
<1> USE StatsAssumption DEF StatsInv, StatsType, OwnOnly, Roles, Reports, Untouched, Latest,
        Stats!None, Stats!NoQueue, Stats!Used, Stats!ConnFree, Stats!conns, Stats!poll, Stats!worker
<1>1. CASE Stats!Media
  <2>1. StatsType'
    BY <1>1 DEF Stats!Media
  <2>2. OwnOnly'
    BY <1>1 DEF Stats!Media
  <2>3. Roles'
    <3>1. PICK i \in Stats!Used : TRUE
      BY <1>1, Zenon DEF Stats!Media
    <3>2. holding # 0 \/ armed
      BY <3>1
    <3> QED
      BY <1>1, <3>2 DEF Stats!Media
  <2>4. Reports'
    BY <1>1 DEF Stats!Media
  <2> QED
    BY <2>1, <2>2, <2>3, <2>4
<1>2. CASE Stats!update_stats
  <2>1. StatsType'
    <3>1. armed' \in BOOLEAN
      BY <1>2, Zenon DEF Stats!update_stats
    <3> QED
      BY <1>2, <3>1 DEF Stats!update_stats, Stats!PollIdle
  <2>2. OwnOnly'
    BY <1>2 DEF Stats!update_stats, Stats!PollIdle
  <2>3. Roles'
    BY <1>2 DEF Stats!update_stats, Stats!PollIdle
  <2>4. Reports'
    BY <1>2 DEF Stats!update_stats, Stats!PollIdle
  <2> QED
    BY <2>1, <2>2, <2>3, <2>4
<1>3. CASE Stats!update_rtt
  <2>1. StatsType'
    BY <1>3 DEF Stats!update_rtt, Stats!PollIdle
  <2>2. OwnOnly'
    BY <1>3 DEF Stats!update_rtt, Stats!PollIdle
  <2>3. Roles'
    BY <1>3 DEF Stats!update_rtt, Stats!PollIdle
  <2>4. Reports'
    BY <1>3 DEF Stats!update_rtt, Stats!PollIdle
  <2> QED
    BY <2>1, <2>2, <2>3, <2>4
<1>4. CASE Stats!queue_stats
  <2>1. StatsType'
    BY <1>4 DEF Stats!queue_stats
  <2>2. OwnOnly'
    BY <1>4 DEF Stats!queue_stats
  <2>3. Roles'
    BY <1>4 DEF Stats!queue_stats
  <2>4. Reports'
    BY <1>4 DEF Stats!queue_stats
  <2> QED
    BY <2>1, <2>2, <2>3, <2>4
<1>5. CASE Stats!ReleaseWrites
  <2>1. StatsType'
    BY <1>5 DEF Stats!ReleaseWrites, Stats!PollIdle, Stats!FullUpdate
  <2>2. OwnOnly'
    BY <1>5 DEF Stats!ReleaseWrites, Stats!PollIdle, Stats!FullUpdate
  <2>3. Roles'
    BY <1>5 DEF Stats!ReleaseWrites, Stats!PollIdle, Stats!FullUpdate
  <2>4. Reports'
    BY <1>5 DEF Stats!ReleaseWrites, Stats!PollIdle, Stats!FullUpdate
  <2> QED
    BY <2>1, <2>2, <2>3, <2>4
<1>6. CASE Stats!ReleaseClears
  <2>1. StatsType'
    <3>1. armed' \in BOOLEAN
      BY <1>6, Zenon DEF Stats!ReleaseClears
    <3> QED
      BY <1>6, <3>1 DEF Stats!ReleaseClears
  <2>2. OwnOnly'
    BY <1>6 DEF Stats!ReleaseClears
  <2>3. Roles'
    BY <1>6 DEF Stats!ReleaseClears
  <2>4. Reports'
    BY <1>6 DEF Stats!ReleaseClears
  <2> QED
    BY <2>1, <2>2, <2>3, <2>4
<1>7. ASSUME NEW i \in StatIds, Stats!Install(i) PROVE StatsInv'
  <2>1. StatsType'
    BY <1>7 DEF Stats!Install, Stats!WorkerIdle, Stats!NextId
  <2>2. OwnOnly'
    BY <1>7 DEF Stats!Install, Stats!WorkerIdle, Stats!NextId
  <2>3. Roles'
    BY <1>7 DEF Stats!Install, Stats!WorkerIdle, Stats!NextId
  <2>4. Reports'
    BY <1>7 DEF Stats!Install, Stats!WorkerIdle, Stats!NextId
  <2> QED
    BY <2>1, <2>2, <2>3, <2>4
<1>8. ASSUME NEW i \in StatIds, Stats!ReplaceAcquires(i) PROVE StatsInv'
  <2>1. StatsType'
    BY <1>8 DEF Stats!ReplaceAcquires, Stats!NextId
  <2>2. OwnOnly'
    BY <1>8 DEF Stats!ReplaceAcquires, Stats!NextId
  <2>3. Roles'
    BY <1>8 DEF Stats!ReplaceAcquires, Stats!NextId
  <2>4. Reports'
    BY <1>8 DEF Stats!ReplaceAcquires, Stats!NextId
  <2> QED
    BY <2>1, <2>2, <2>3, <2>4
<1>9. ASSUME NEW i \in StatIds, Stats!ReplaceInstalls(i) PROVE StatsInv'
  <2>1. StatsType'
    BY <1>9 DEF Stats!ReplaceInstalls
  <2>2. OwnOnly'
    BY <1>9 DEF Stats!ReplaceInstalls
  <2>3. Roles'
    BY <1>9 DEF Stats!ReplaceInstalls
  <2>4. Reports'
    BY <1>9 DEF Stats!ReplaceInstalls
  <2> QED
    BY <2>1, <2>2, <2>3, <2>4
<1>10. CASE Stats!PersistRow
  <2>1. StatsType'
    BY <1>10 DEF Stats!PersistRow, Stats!WorkerIdle
  <2>2. OwnOnly'
    BY <1>10 DEF Stats!PersistRow, Stats!WorkerIdle
  <2>3. Roles'
    BY <1>10 DEF Stats!PersistRow, Stats!WorkerIdle
  <2>4. Reports'
    BY <1>10 DEF Stats!PersistRow, Stats!WorkerIdle
  <2> QED
    BY <2>1, <2>2, <2>3, <2>4
<1>11. CASE Stats!ReplaceDeactivates
  <2>1. StatsType'
    BY <1>11 DEF Stats!ReplaceDeactivates, Stats!WorkerIdle, Stats!FullUpdate
  <2>2. OwnOnly'
    BY <1>11 DEF Stats!ReplaceDeactivates, Stats!WorkerIdle, Stats!FullUpdate
  <2>3. Roles'
    BY <1>11 DEF Stats!ReplaceDeactivates, Stats!WorkerIdle, Stats!FullUpdate
  <2>4. Reports'
    BY <1>11 DEF Stats!ReplaceDeactivates, Stats!WorkerIdle, Stats!FullUpdate
  <2> QED
    BY <2>1, <2>2, <2>3, <2>4
<1>12. CASE Stats!restore_row
  <2>1. StatsType'
    BY <1>12 DEF Stats!restore_row, Stats!FullUpdate
  <2>2. OwnOnly'
    BY <1>12 DEF Stats!restore_row, Stats!FullUpdate
  <2>3. Roles'
    BY <1>12 DEF Stats!restore_row, Stats!FullUpdate
  <2>4. Reports'
    BY <1>12 DEF Stats!restore_row, Stats!FullUpdate
  <2> QED
    BY <2>1, <2>2, <2>3, <2>4
<1>13. CASE Stats!FlushTakes
  <2>1. StatsType'
    BY <1>13 DEF Stats!FlushTakes
  <2>2. OwnOnly'
    BY <1>13 DEF Stats!FlushTakes
  <2>3. Roles'
    BY <1>13 DEF Stats!FlushTakes
  <2>4. Reports'
    BY <1>13 DEF Stats!FlushTakes
  <2> QED
    BY <2>1, <2>2, <2>3, <2>4
<1>14. CASE Stats!FlushCommits
  <2>1. StatsType'
    <3>1. behind' \in BOOLEAN
      BY <1>14, Zenon DEF Stats!FlushCommits
    <3> QED
      BY <1>14, <3>1 DEF Stats!FlushCommits
  <2>2. OwnOnly'
    BY <1>14 DEF Stats!FlushCommits
  <2>3. Roles'
    BY <1>14 DEF Stats!FlushCommits
  <2>4. Reports'
    <3>1. ~behind' => ~behind /\ (holding # 0 /\ writing[holding] # NoBytes => statRow[holding].state = "active")
      BY <1>14, Zenon DEF Stats!FlushCommits
    <3>2. \A i \in StatIds : statRow'[i] = IF writing[i] # NoBytes /\ statRow[i].state = "active"
                                       THEN [statRow[i] EXCEPT !.bytes = writing[i]] ELSE statRow[i]
      BY <1>14 DEF Stats!FlushCommits
    <3> QED
      BY <1>14, <3>1, <3>2 DEF Stats!FlushCommits
  <2> QED
    BY <2>1, <2>2, <2>3, <2>4
<1>15. CASE Stats!FlushFails
  <2>1. StatsType'
    BY <1>15 DEF Stats!FlushFails, Stats!requeue_pending_stats
  <2>2. OwnOnly'
    BY <1>15 DEF Stats!FlushFails, Stats!requeue_pending_stats
  <2>3. Roles'
    BY <1>15 DEF Stats!FlushFails, Stats!requeue_pending_stats
  <2>4. Reports'
    BY <1>15 DEF Stats!FlushFails, Stats!requeue_pending_stats
  <2> QED
    BY <2>1, <2>2, <2>3, <2>4
<1>16. CASE Stats!ReleaseFails
  <2>1. StatsType'
    <3>1. behind' \in BOOLEAN
      BY <1>16, Zenon DEF Stats!ReleaseFails, Stats!PollIdle, Stats!FullUpdateFails
    <3> QED
      BY <1>16, <3>1 DEF Stats!ReleaseFails, Stats!PollIdle, Stats!FullUpdateFails
  <2>2. OwnOnly'
    BY <1>16 DEF Stats!ReleaseFails, Stats!PollIdle, Stats!FullUpdateFails
  <2>3. Roles'
    BY <1>16 DEF Stats!ReleaseFails, Stats!PollIdle, Stats!FullUpdateFails
  <2>4. Reports'
    BY <1>16 DEF Stats!ReleaseFails, Stats!PollIdle, Stats!FullUpdateFails
  <2> QED
    BY <2>1, <2>2, <2>3, <2>4
<1>17. CASE Stats!ReplaceFails
  <2>1. StatsType'
    <3>1. behind' \in BOOLEAN
      BY <1>17, Zenon DEF Stats!ReplaceFails, Stats!WorkerIdle, Stats!FullUpdateFails
    <3> QED
      BY <1>17, <3>1 DEF Stats!ReplaceFails, Stats!WorkerIdle, Stats!FullUpdateFails
  <2>2. OwnOnly'
    BY <1>17 DEF Stats!ReplaceFails, Stats!WorkerIdle, Stats!FullUpdateFails
  <2>3. Roles'
    BY <1>17 DEF Stats!ReplaceFails, Stats!WorkerIdle, Stats!FullUpdateFails
  <2>4. Reports'
    BY <1>17 DEF Stats!ReplaceFails, Stats!WorkerIdle, Stats!FullUpdateFails
  <2> QED
    BY <2>1, <2>2, <2>3, <2>4
<1>18. CASE Stats!RestoreFails
  <2>1. StatsType'
    <3>1. behind' \in BOOLEAN
      BY <1>18, Zenon DEF Stats!RestoreFails, Stats!FullUpdateFails
    <3> QED
      BY <1>18, <3>1 DEF Stats!RestoreFails, Stats!FullUpdateFails
  <2>2. OwnOnly'
    BY <1>18 DEF Stats!RestoreFails, Stats!FullUpdateFails
  <2>3. Roles'
    BY <1>18 DEF Stats!RestoreFails, Stats!FullUpdateFails
  <2>4. Reports'
    BY <1>18 DEF Stats!RestoreFails, Stats!FullUpdateFails
  <2> QED
    BY <2>1, <2>2, <2>3, <2>4
<1> QED
  BY <1>1, <1>2, <1>3, <1>4, <1>5, <1>6, <1>7, <1>8, <1>9, <1>10, <1>11, <1>12, <1>13, <1>14, <1>15, <1>16, <1>17, <1>18 DEF Stats!Next

-----------------------------------------------------------------------------
(* The slots of the ports: ControlPlane.                                   *)
\* The stages of a connection at the server.
Stages == {"none", "handshake", "refused", "authed", "over", "reading", "gone", "closed",
           "handling", "forwarded", "unsure", "answering"}

\* The stages have their types and no counter goes below zero.
PortsType ==
    /\ server \in [Conns -> Stages]
    /\ client \in [Conns -> {"idle", "connecting", "authed", "sent", "done"}]
    /\ answer \in [Conns -> {"none", "ok", "dispatched", "undispatched"}]
    /\ sent \in [Conns -> BOOLEAN] /\ effect \in [Conns -> BOOLEAN]
    /\ preauth \in [Ports!Planes -> Nat] /\ reserve \in Nat
    /\ perIp \in [Ports!Planes -> [Ports!Addresses -> Nat]]
    /\ inflight \in [Ports!Planes -> Nat] /\ portBytes \in [Ports!Classes -> Nat]

\* What each side may conclude from where it stands: a request that is being
\* worked on was sent, one that took effect was sent, and a caller told that
\* nothing was sent is done and has sent nothing.
OnWire ==
    \A c \in Conns :
      /\ client[c] \in {"idle", "connecting", "authed"} => ~sent[c]
      /\ answer[c] = "undispatched" => client[c] = "done" /\ ~sent[c]
      /\ server[c] \in {"handling", "forwarded", "unsure", "answering", "gone"} => sent[c]
      /\ effect[c] => sent[c]
      /\ server[c] = "answering" => effect[c]

\* The inductive invariant of the ports.
PortsInv == PortsType /\ OnWire /\ Ports!SlotsExact /\ Ports!AnswersTrue

\* The connections of a group that are in one of some stages.
Inside(St, G) == {d \in G : server[d] \in St}

\* The groups of stages that hold a half-open slot, a place among the open
\* connections, a place among the requests, and reserved bytes (Work).
Work == {"handling", "forwarded", "unsure", "answering"}
Half == {"handshake"}
Open == {"over", "reading"} \cup Work
Busy == {"reading"} \cup Work
\* The groups of connections each counter counts.
OfReserve == {d \in Conns : Ports!Reserved(d)}
OnPlane(p) == {d \in Conns : Ports!Plane(d) = p}
OfShared(p) == {d \in Conns : Ports!Plane(d) = p /\ ~Ports!Reserved(d)}
FromAddress(p, ad) == {d \in OfShared(p) : Source[d] = ad}
OfClass(k) == {d \in Conns : Ports!Class(d) = k}

\* What each counter should be.
NReserve == Cardinality(Inside(Half, OfReserve))
NOpen(p) == Cardinality(Inside(Open, OnPlane(p)))
NBusy(p) == Cardinality(Inside(Busy, OnPlane(p)))
NShared(p) == Cardinality(Inside(Half, OfShared(p)))
NFrom(p, ad) == Cardinality(Inside(Half, FromAddress(p, ad)))
NBytes(k) == Ports!BytesOf(Inside(Work, OfClass(k)))

\* SlotsExact with each count by its name.
SlotsCounted ==
    /\ reserve = NReserve
    /\ \A p \in Ports!Planes :
         /\ inflight[p] = NOpen(p) /\ NBusy(p) <= MaxInflight /\ preauth[p] = NShared(p)
         /\ \A ad \in Ports!Addresses : perIp[p][ad] = NFrom(p, ad)
    /\ \A k \in Ports!Classes : portBytes[k] <= MaxBytes /\ portBytes[k] = NBytes(k)

\* The cardinality the instance uses is the one the theorems are about.
LEMMA PortsCardinality == ASSUME NEW S PROVE Ports!Cardinality(S) = Cardinality(S)
  BY DEF Ports!Cardinality, Cardinality

\* Naming the counts changes nothing.
LEMMA SlotsExactCounted == Ports!SlotsExact <=> SlotsCounted
<1>1. Ports!Cardinality({d \in Conns : server[d] = "handshake" /\ Ports!Reserved(d)}) = NReserve
  <2>1. Inside(Half, OfReserve) = {d \in Conns : server[d] = "handshake" /\ Ports!Reserved(d)}
    BY DEF Inside, Half, OfReserve
  <2> QED
    BY <2>1, PortsCardinality DEF NReserve
<1>2. \A p : Ports!Held({"over", "reading"} \cup Ports!Working, p) = NOpen(p)
  <2> TAKE p
  <2>1. Inside(Open, OnPlane(p)) = {d \in Conns : server[d] \in {"over", "reading"} \cup Ports!Working /\ Ports!Plane(d) = p}
    BY DEF Inside, Open, OnPlane, Work, Ports!Working
  <2> QED
    BY <2>1, PortsCardinality DEF Ports!Held, NOpen
<1>3. \A p : Ports!Held({"reading"} \cup Ports!Working, p) = NBusy(p)
  <2> TAKE p
  <2>1. Inside(Busy, OnPlane(p)) = {d \in Conns : server[d] \in {"reading"} \cup Ports!Working /\ Ports!Plane(d) = p}
    BY DEF Inside, Busy, OnPlane, Work, Ports!Working
  <2> QED
    BY <2>1, PortsCardinality DEF Ports!Held, NBusy
<1>4. \A p : Ports!Cardinality({d \in Conns : server[d] = "handshake" /\ Ports!Plane(d) = p /\ ~Ports!Reserved(d)})
               = NShared(p)
  <2> TAKE p
  <2>1. Inside(Half, OfShared(p)) = {d \in Conns : server[d] = "handshake" /\ Ports!Plane(d) = p /\ ~Ports!Reserved(d)}
    BY DEF Inside, Half, OfShared
  <2> QED
    BY <2>1, PortsCardinality DEF NShared
<1>5. \A p, ad : Ports!Cardinality({d \in Conns : server[d] = "handshake" /\ Ports!Plane(d) = p
                                      /\ ~Ports!Reserved(d) /\ Source[d] = ad}) = NFrom(p, ad)
  <2> TAKE p, ad
  <2>1. Inside(Half, FromAddress(p, ad)) = {d \in Conns : server[d] = "handshake" /\ Ports!Plane(d) = p
                                             /\ ~Ports!Reserved(d) /\ Source[d] = ad}
    BY DEF Inside, Half, OfShared, FromAddress
  <2> QED
    BY <2>1, PortsCardinality DEF NFrom
<1>6. \A k : Ports!BytesOf({d \in Conns : Ports!Class(d) = k /\ server[d] \in Ports!Working}) = NBytes(k)
  <2> TAKE k
  <2>1. Inside(Work, OfClass(k)) = {d \in Conns : Ports!Class(d) = k /\ server[d] \in Ports!Working}
    BY DEF Inside, OfClass, Work, Ports!Working
  <2> QED
    BY <2>1 DEF NBytes
<1> QED
  BY <1>1, <1>2, <1>3, <1>4, <1>5, <1>6, ZenonT(60) DEF Ports!SlotsExact, SlotsCounted

\* The bytes of some connections are a natural number.
LEMMA BytesNat ==
    ASSUME NEW S \in SUBSET Conns
    PROVE  /\ IsFiniteSet(UNION {{d} \X (1 .. Size[d]) : d \in S})
           /\ Ports!BytesOf(S) \in Nat
<1> DEFINE F == [d \in S |-> {d} \X (1 .. Size[d])]
           T == {{d} \X (1 .. Size[d]) : d \in S}
<1>1. IsFiniteSet(S)
  BY PortsAssumption, FS_Subset
<1>2. F \in Surjection(S, T)
  BY DEF Surjection
<1>3. IsFiniteSet(T)
  BY <1>1, <1>2, FS_Surjection
<1>4. ASSUME NEW X \in T PROVE IsFiniteSet(X)
  <2>1. PICK d \in S : X = {d} \X (1 .. Size[d])
    OBVIOUS
  <2>2. IsFiniteSet({d})
    BY FS_Singleton
  <2>3. 1 \in Int /\ Size[d] \in Int
    BY PortsAssumption
  <2>4. IsFiniteSet(1 .. Size[d])
    BY <2>3, FS_Interval
  <2> QED
    BY <2>1, <2>2, <2>4, FS_Product
<1>5. IsFiniteSet(UNION T)
  BY <1>3, <1>4, FS_UNION
<1> QED
  BY <1>5, FS_CardinalityType, PortsCardinality DEF Ports!BytesOf

\* One more connection adds its own size.
LEMMA BytesAdd ==
    ASSUME NEW S \in SUBSET Conns, NEW c \in Conns, c \notin S
    PROVE  Ports!BytesOf(S \cup {c}) = Ports!BytesOf(S) + Size[c]
<1> DEFINE U == UNION {{d} \X (1 .. Size[d]) : d \in S}
           W == {c} \X (1 .. Size[c])
<1>1. UNION {{d} \X (1 .. Size[d]) : d \in S \cup {c}} = U \cup W
  OBVIOUS
<1>2. U \cap W = {}
  OBVIOUS
<1>3. IsFiniteSet(U) /\ Cardinality(U) \in Nat
  BY BytesNat, FS_CardinalityType
<1>4. IsFiniteSet(1 .. Size[c]) /\ Cardinality(1 .. Size[c]) = Size[c] /\ Size[c] \in Nat
  BY FS_Interval, PortsAssumption
<1>5. IsFiniteSet({c}) /\ Cardinality({c}) = 1
  BY FS_Singleton
<1>6. IsFiniteSet(W) /\ Cardinality(W) = 1 * Size[c]
  BY <1>4, <1>5, FS_Product
<1> HIDE DEF U, W
<1>7. Cardinality(U \cup W) = Cardinality(U) + Cardinality(W) - Cardinality(U \cap W)
  BY <1>3, <1>6, FS_Union
<1>8. Cardinality(U \cap W) = 0
  BY <1>2, FS_EmptySet
<1>9. Cardinality(U \cup W) = Cardinality(U) + Size[c]
  BY <1>3, <1>4, <1>6, <1>7, <1>8
<1> QED
  BY <1>1, <1>9, PortsCardinality DEF Ports!BytesOf, U

\* How many of one connection's stages count.
One(c, G, stage, St) == IF c \in G /\ stage \in St THEN 1 ELSE 0

\* When one connection changes its stage, a count changes by that
\* connection only.
LEMMA CountMoves ==
    ASSUME PortsType, NEW c \in Conns, NEW to, server' = [server EXCEPT ![c] = to],
           NEW G \in SUBSET Conns, NEW St
    PROVE  /\ Cardinality(Inside(St, G)) \in Nat
           /\ Cardinality(Inside(St, G))' \in Nat
           /\ Cardinality(Inside(St, G))' =
                Cardinality(Inside(St, G)) + One(c, G, to, St) - One(c, G, server[c], St)
<1> DEFINE X == Inside(St, G)
           Y == Inside(St, G)'
<1>1. IsFiniteSet(G)
  BY PortsAssumption, FS_Subset
<1>2. IsFiniteSet(X) /\ IsFiniteSet(Y) /\ Cardinality(X) \in Nat /\ Cardinality(Y) \in Nat
  BY <1>1, FS_Subset, FS_CardinalityType DEF Inside
<1>3. X \ {c} = Y \ {c}
  BY DEF Inside, PortsType
<1>4. c \in X <=> (c \in G /\ server[c] \in St)
  BY DEF Inside
<1>5. c \in Y <=> (c \in G /\ to \in St)
  BY DEF Inside, PortsType
<1>6. Cardinality(X \ {c}) = IF c \in X THEN Cardinality(X) - 1 ELSE Cardinality(X)
  BY <1>2, FS_RemoveElement
<1>7. Cardinality(Y \ {c}) = IF c \in Y THEN Cardinality(Y) - 1 ELSE Cardinality(Y)
  BY <1>2, FS_RemoveElement
<1> HIDE DEF X, Y
<1>8. Cardinality(X \ {c}) = Cardinality(Y \ {c})
  BY <1>3
<1>9. Cardinality(Y) = Cardinality(X) + One(c, G, to, St) - One(c, G, server[c], St)
  BY <1>2, <1>4, <1>5, <1>6, <1>7, <1>8 DEF One
<1> QED
  BY <1>2, <1>9 DEF X, Y

\* When two sets of connections differ in one of them, so do their bytes.
LEMMA BytesMove ==
    ASSUME NEW X \in SUBSET Conns, NEW Y \in SUBSET Conns, NEW c \in Conns, X \ {c} = Y \ {c}
    PROVE  /\ Ports!BytesOf(X) \in Nat /\ Ports!BytesOf(Y) \in Nat
           /\ Ports!BytesOf(Y) = Ports!BytesOf(X) + (IF c \in Y THEN Size[c] ELSE 0)
                                                  - (IF c \in X THEN Size[c] ELSE 0)
<1>1. Ports!BytesOf(X) \in Nat /\ Ports!BytesOf(Y) \in Nat
  BY BytesNat
<1>2. Size[c] \in Nat /\ Ports!BytesOf(X \ {c}) \in Nat
  <2>1. X \ {c} \in SUBSET Conns
    OBVIOUS
  <2> QED
    BY <2>1, BytesNat, PortsAssumption
<1>3. ASSUME NEW Z \in SUBSET Conns
      PROVE  Ports!BytesOf(Z) = Ports!BytesOf(Z \ {c}) + (IF c \in Z THEN Size[c] ELSE 0)
  <2>1. CASE c \in Z
    <3>1. Z = (Z \ {c}) \cup {c}
      BY <2>1
    <3>2. Z \ {c} \in SUBSET Conns /\ c \notin Z \ {c}
      OBVIOUS
    <3>3. Ports!BytesOf((Z \ {c}) \cup {c}) = Ports!BytesOf(Z \ {c}) + Size[c]
      BY <3>2, BytesAdd
    <3> QED
      BY <2>1, <3>1, <3>3
  <2>2. CASE c \notin Z
    <3>1. Z = Z \ {c}
      BY <2>2
    <3>2. Ports!BytesOf(Z) \in Nat
      BY BytesNat
    <3> QED
      BY <2>2, <3>1, <3>2
  <2> QED
    BY <2>1, <2>2
<1>4. Ports!BytesOf(X) = Ports!BytesOf(X \ {c}) + (IF c \in X THEN Size[c] ELSE 0)
  BY <1>3
<1>5. Ports!BytesOf(Y) = Ports!BytesOf(Y \ {c}) + (IF c \in Y THEN Size[c] ELSE 0)
  BY <1>3
<1>6. Ports!BytesOf(Y \ {c}) = Ports!BytesOf(X \ {c})
  OBVIOUS
<1> QED
  BY <1>1, <1>2, <1>4, <1>5, <1>6

\* How the reserve changes when one connection changes its stage.
LEMMA ReserveDelta ==
    ASSUME PortsType, NEW c \in Conns, NEW to, server' = [server EXCEPT ![c] = to]
    PROVE  /\ NReserve \in Nat /\ NReserve' \in Nat
           /\ NReserve' = NReserve + One(c, OfReserve, to, Half) - One(c, OfReserve, server[c], Half)
<1>1. OfReserve \in SUBSET Conns
  BY DEF OfReserve
<1> QED
  BY <1>1, CountMoves DEF NReserve

\* The same for the open connections and for the requests of a plane.
LEMMA OpenDelta ==
    ASSUME PortsType, NEW c \in Conns, NEW to, server' = [server EXCEPT ![c] = to], NEW p
    PROVE  /\ NOpen(p) \in Nat /\ NOpen(p)' \in Nat
           /\ NOpen(p)' = NOpen(p) + One(c, OnPlane(p), to, Open) - One(c, OnPlane(p), server[c], Open)
           /\ NBusy(p) \in Nat /\ NBusy(p)' \in Nat
           /\ NBusy(p)' = NBusy(p) + One(c, OnPlane(p), to, Busy) - One(c, OnPlane(p), server[c], Busy)
<1>1. OnPlane(p) \in SUBSET Conns
  BY DEF OnPlane
<1>2. /\ NOpen(p) \in Nat /\ NOpen(p)' \in Nat
      /\ NOpen(p)' = NOpen(p) + One(c, OnPlane(p), to, Open) - One(c, OnPlane(p), server[c], Open)
  BY <1>1, CountMoves DEF NOpen
<1>3. /\ NBusy(p) \in Nat /\ NBusy(p)' \in Nat
      /\ NBusy(p)' = NBusy(p) + One(c, OnPlane(p), to, Busy) - One(c, OnPlane(p), server[c], Busy)
  BY <1>1, CountMoves DEF NBusy
<1> QED
  BY <1>2, <1>3

\* The same for the shared half-open slots of a plane.
LEMMA SharedDelta ==
    ASSUME PortsType, NEW c \in Conns, NEW to, server' = [server EXCEPT ![c] = to], NEW p
    PROVE  /\ NShared(p) \in Nat /\ NShared(p)' \in Nat
           /\ NShared(p)' = NShared(p) + One(c, OfShared(p), to, Half)
                                       - One(c, OfShared(p), server[c], Half)
<1>1. OfShared(p) \in SUBSET Conns
  BY DEF OfShared
<1> QED
  BY <1>1, CountMoves DEF NShared

\* The same for the half-open slots of one address.
LEMMA FromDelta ==
    ASSUME PortsType, NEW c \in Conns, NEW to, server' = [server EXCEPT ![c] = to], NEW p, NEW ad
    PROVE  /\ NFrom(p, ad) \in Nat /\ NFrom(p, ad)' \in Nat
           /\ NFrom(p, ad)' = NFrom(p, ad) + One(c, FromAddress(p, ad), to, Half)
                                           - One(c, FromAddress(p, ad), server[c], Half)
<1>1. FromAddress(p, ad) \in SUBSET Conns
  BY DEF FromAddress, OfShared
<1> QED
  BY <1>1, CountMoves DEF NFrom

\* The same for the reserved bytes of a class.
LEMMA BytesDelta ==
    ASSUME PortsType, NEW c \in Conns, NEW to, server' = [server EXCEPT ![c] = to], NEW k
    PROVE  /\ NBytes(k) \in Nat /\ NBytes(k)' \in Nat
           /\ NBytes(k)' = NBytes(k)
                + (IF c \in OfClass(k) /\ to \in Work THEN Size[c] ELSE 0)
                - (IF c \in OfClass(k) /\ server[c] \in Work THEN Size[c] ELSE 0)
<1> DEFINE X == Inside(Work, OfClass(k))
           Y == Inside(Work, OfClass(k))'
<1>1. X \in SUBSET Conns /\ Y \in SUBSET Conns
  BY DEF Inside, OfClass
<1>2. X \ {c} = Y \ {c}
  BY DEF Inside, PortsType, OfClass
<1>3. c \in X <=> (c \in OfClass(k) /\ server[c] \in Work)
  BY DEF Inside
<1>4. c \in Y <=> (c \in OfClass(k) /\ to \in Work)
  BY DEF Inside, PortsType, OfClass
<1>5. NBytes(k) = Ports!BytesOf(X) /\ NBytes(k)' = Ports!BytesOf(Y)
  BY DEF NBytes, Ports!BytesOf
<1> HIDE DEF X, Y
<1>6. /\ Ports!BytesOf(X) \in Nat /\ Ports!BytesOf(Y) \in Nat
      /\ Ports!BytesOf(Y) = Ports!BytesOf(X) + (IF c \in Y THEN Size[c] ELSE 0)
                                             - (IF c \in X THEN Size[c] ELSE 0)
  BY <1>1, <1>2, BytesMove
<1> QED
  BY <1>3, <1>4, <1>5, <1>6

-----------------------------------------------------------------------------
\* A change of stage within every group needs no counter.
LEMMA QuietMove ==
    ASSUME PortsType, SlotsCounted, NEW c \in Conns, NEW to, server' = [server EXCEPT ![c] = to],
           UNCHANGED <<preauth, reserve, perIp, inflight, portBytes>>,
           server[c] \in Half <=> to \in Half, server[c] \in Open <=> to \in Open,
           server[c] \in Busy <=> to \in Busy, server[c] \in Work <=> to \in Work
    PROVE  SlotsCounted'
<1>3. Size[c] \in Nat
  BY PortsAssumption
<1>4. NReserve' = NReserve
  <2>1. /\ NReserve \in Nat
        /\ NReserve' = NReserve + One(c, OfReserve, to, Half) - One(c, OfReserve, server[c], Half)
    BY ReserveDelta
  <2> QED
    BY <2>1 DEF One
<1>5. ASSUME NEW p PROVE NOpen(p)' = NOpen(p) /\ NBusy(p)' = NBusy(p) /\ NShared(p)' = NShared(p)
  <2>1. /\ NOpen(p) \in Nat /\ NBusy(p) \in Nat
        /\ NOpen(p)' = NOpen(p) + One(c, OnPlane(p), to, Open) - One(c, OnPlane(p), server[c], Open)
        /\ NBusy(p)' = NBusy(p) + One(c, OnPlane(p), to, Busy) - One(c, OnPlane(p), server[c], Busy)
    BY OpenDelta
  <2>2. /\ NShared(p) \in Nat
        /\ NShared(p)' = NShared(p) + One(c, OfShared(p), to, Half) - One(c, OfShared(p), server[c], Half)
    BY SharedDelta
  <2> QED
    BY <2>1, <2>2 DEF One
<1>6. ASSUME NEW p, NEW ad PROVE NFrom(p, ad)' = NFrom(p, ad)
  <2>1. /\ NFrom(p, ad) \in Nat
        /\ NFrom(p, ad)' = NFrom(p, ad) + One(c, FromAddress(p, ad), to, Half)
                                        - One(c, FromAddress(p, ad), server[c], Half)
    BY FromDelta
  <2> QED
    BY <2>1 DEF One
<1>7. ASSUME NEW k PROVE NBytes(k)' = NBytes(k)
  <2>1. /\ NBytes(k) \in Nat
        /\ NBytes(k)' = NBytes(k) + (IF c \in OfClass(k) /\ to \in Work THEN Size[c] ELSE 0)
                                  - (IF c \in OfClass(k) /\ server[c] \in Work THEN Size[c] ELSE 0)
    BY BytesDelta
  <2> QED
    BY <1>3, <2>1
<1> QED
  BY <1>4, <1>5, <1>6, <1>7 DEF SlotsCounted

\* A connection that is accepted takes exactly its slot.
LEMMA TakeMove ==
    ASSUME PortsType, SlotsCounted, NEW c \in Conns, server[c] = "none", NEW to \in {"handshake"},
           server' = [server EXCEPT ![c] = to], Ports!TakeSlot(c), UNCHANGED <<inflight, portBytes>>
    PROVE  /\ SlotsCounted' /\ reserve' \in Nat /\ preauth' \in [Ports!Planes -> Nat]
           /\ perIp' \in [Ports!Planes -> [Ports!Addresses -> Nat]]
<1>1. Ports!Plane(c) \in Ports!Planes /\ Source[c] \in Ports!Addresses
  BY DEF Ports!Plane, Ports!Planes, Ports!Addresses
<1>2. /\ NReserve \in Nat /\ NReserve' \in Nat
      /\ NReserve' = IF Ports!Reserved(c) THEN NReserve + 1 ELSE NReserve
  <2>1. /\ NReserve \in Nat /\ NReserve' \in Nat
        /\ NReserve' = NReserve + One(c, OfReserve, to, Half) - One(c, OfReserve, server[c], Half)
    BY ReserveDelta
  <2> QED
    BY <2>1 DEF One, Half, OfReserve
<1>3. ASSUME NEW p
      PROVE  /\ NShared(p) \in Nat /\ NShared(p)' \in Nat
             /\ NShared(p)' = IF ~Ports!Reserved(c) /\ p = Ports!Plane(c) THEN NShared(p) + 1 ELSE NShared(p)
  <2>1. /\ NShared(p) \in Nat /\ NShared(p)' \in Nat
        /\ NShared(p)' = NShared(p) + One(c, OfShared(p), to, Half) - One(c, OfShared(p), server[c], Half)
    BY SharedDelta
  <2> QED
    BY <2>1 DEF One, Half, OfShared
<1>4. ASSUME NEW p, NEW ad
      PROVE  /\ NFrom(p, ad) \in Nat /\ NFrom(p, ad)' \in Nat
             /\ NFrom(p, ad)' = IF ~Ports!Reserved(c) /\ p = Ports!Plane(c) /\ ad = Source[c]
                                THEN NFrom(p, ad) + 1 ELSE NFrom(p, ad)
  <2>1. /\ NFrom(p, ad) \in Nat /\ NFrom(p, ad)' \in Nat
        /\ NFrom(p, ad)' = NFrom(p, ad) + One(c, FromAddress(p, ad), to, Half)
                                        - One(c, FromAddress(p, ad), server[c], Half)
    BY FromDelta
  <2> QED
    BY <2>1 DEF One, Half, OfShared, FromAddress
<1>5. ASSUME NEW p PROVE NOpen(p)' = NOpen(p) /\ NBusy(p)' = NBusy(p)
  <2>1. /\ NOpen(p) \in Nat /\ NBusy(p) \in Nat
        /\ NOpen(p)' = NOpen(p) + One(c, OnPlane(p), to, Open) - One(c, OnPlane(p), server[c], Open)
        /\ NBusy(p)' = NBusy(p) + One(c, OnPlane(p), to, Busy) - One(c, OnPlane(p), server[c], Busy)
    BY OpenDelta
  <2> QED
    BY <2>1 DEF One, Open, Busy, Work
<1>6. ASSUME NEW k PROVE NBytes(k)' = NBytes(k)
  <2>1. /\ NBytes(k) \in Nat
        /\ NBytes(k)' = NBytes(k) + (IF c \in OfClass(k) /\ to \in Work THEN Size[c] ELSE 0)
                                  - (IF c \in OfClass(k) /\ server[c] \in Work THEN Size[c] ELSE 0)
    BY BytesDelta
  <2> QED
    BY <2>1 DEF Work
<1>7. reserve' = NReserve'
  BY <1>2 DEF Ports!TakeSlot, SlotsCounted
<1>8. preauth' \in [Ports!Planes -> Nat] /\ \A p \in Ports!Planes : preauth'[p] = NShared(p)'
  <2>1. \A p \in Ports!Planes : preauth[p] = NShared(p)
    BY DEF SlotsCounted
  <2> QED
    BY <1>1, <1>3, <2>1 DEF Ports!TakeSlot, PortsType
<1>9. /\ perIp' \in [Ports!Planes -> [Ports!Addresses -> Nat]]
      /\ \A p \in Ports!Planes, ad \in Ports!Addresses : perIp'[p][ad] = NFrom(p, ad)'
  <2>1. \A p \in Ports!Planes, ad \in Ports!Addresses : perIp[p][ad] = NFrom(p, ad)
    BY DEF SlotsCounted
  <2>2. CASE Ports!Reserved(c)
    BY <1>4, <2>1, <2>2 DEF Ports!TakeSlot, PortsType
  <2>3. CASE ~Ports!Reserved(c)
    <3>1. perIp' = [perIp EXCEPT ![Ports!Plane(c)][Source[c]] = @ + 1]
      BY <2>3 DEF Ports!TakeSlot
    <3>2. perIp[Ports!Plane(c)][Source[c]] + 1 \in Nat
      BY <1>1, <1>4, <2>1, <2>3
    <3>3. perIp' \in [Ports!Planes -> [Ports!Addresses -> Nat]]
      BY <1>1, <3>1, <3>2 DEF PortsType
    <3>4. ASSUME NEW p \in Ports!Planes, NEW ad \in Ports!Addresses
          PROVE  perIp'[p][ad] = IF p = Ports!Plane(c) /\ ad = Source[c]
                                 THEN perIp[p][ad] + 1 ELSE perIp[p][ad]
      BY <1>1, <3>1 DEF PortsType
    <3> QED
      BY <1>4, <2>1, <2>3, <3>3, <3>4
  <2> QED
    BY <2>2, <2>3
<1>10. \A p \in Ports!Planes : inflight'[p] = NOpen(p)' /\ NBusy(p)' <= MaxInflight
  BY <1>5 DEF SlotsCounted
<1>11. \A k \in Ports!Classes : portBytes'[k] <= MaxBytes /\ portBytes'[k] = NBytes(k)'
  BY <1>6 DEF SlotsCounted
<1> QED
  BY <1>2, <1>7, <1>8, <1>9, <1>10, <1>11 DEF SlotsCounted

\* A handshake that ends, either way, gives back exactly its slot.
LEMMA FreeMove ==
    ASSUME PortsType, SlotsCounted, NEW c \in Conns, server[c] = "handshake", NEW to \in {"authed", "refused"},
           server' = [server EXCEPT ![c] = to], Ports!FreeSlot(c), UNCHANGED <<inflight, portBytes>>
    PROVE  /\ SlotsCounted' /\ reserve' \in Nat /\ preauth' \in [Ports!Planes -> Nat]
           /\ perIp' \in [Ports!Planes -> [Ports!Addresses -> Nat]]
<1>1. Ports!Plane(c) \in Ports!Planes /\ Source[c] \in Ports!Addresses
  BY DEF Ports!Plane, Ports!Planes, Ports!Addresses
<1>2. /\ NReserve \in Nat /\ NReserve' \in Nat
      /\ NReserve' = IF Ports!Reserved(c) THEN NReserve - 1 ELSE NReserve
  <2>1. /\ NReserve \in Nat /\ NReserve' \in Nat
        /\ NReserve' = NReserve + One(c, OfReserve, to, Half) - One(c, OfReserve, server[c], Half)
    BY ReserveDelta
  <2> QED
    BY <2>1 DEF One, Half, OfReserve
<1>3. ASSUME NEW p
      PROVE  /\ NShared(p) \in Nat /\ NShared(p)' \in Nat
             /\ NShared(p)' = IF ~Ports!Reserved(c) /\ p = Ports!Plane(c) THEN NShared(p) - 1 ELSE NShared(p)
  <2>1. /\ NShared(p) \in Nat /\ NShared(p)' \in Nat
        /\ NShared(p)' = NShared(p) + One(c, OfShared(p), to, Half) - One(c, OfShared(p), server[c], Half)
    BY SharedDelta
  <2> QED
    BY <2>1 DEF One, Half, OfShared
<1>4. ASSUME NEW p, NEW ad
      PROVE  /\ NFrom(p, ad) \in Nat /\ NFrom(p, ad)' \in Nat
             /\ NFrom(p, ad)' = IF ~Ports!Reserved(c) /\ p = Ports!Plane(c) /\ ad = Source[c]
                                THEN NFrom(p, ad) - 1 ELSE NFrom(p, ad)
  <2>1. /\ NFrom(p, ad) \in Nat /\ NFrom(p, ad)' \in Nat
        /\ NFrom(p, ad)' = NFrom(p, ad) + One(c, FromAddress(p, ad), to, Half)
                                        - One(c, FromAddress(p, ad), server[c], Half)
    BY FromDelta
  <2> QED
    BY <2>1 DEF One, Half, OfShared, FromAddress
<1>5. ASSUME NEW p PROVE NOpen(p)' = NOpen(p) /\ NBusy(p)' = NBusy(p)
  <2>1. /\ NOpen(p) \in Nat /\ NBusy(p) \in Nat
        /\ NOpen(p)' = NOpen(p) + One(c, OnPlane(p), to, Open) - One(c, OnPlane(p), server[c], Open)
        /\ NBusy(p)' = NBusy(p) + One(c, OnPlane(p), to, Busy) - One(c, OnPlane(p), server[c], Busy)
    BY OpenDelta
  <2> QED
    BY <2>1 DEF One, Open, Busy, Work
<1>6. ASSUME NEW k PROVE NBytes(k)' = NBytes(k)
  <2>1. /\ NBytes(k) \in Nat
        /\ NBytes(k)' = NBytes(k) + (IF c \in OfClass(k) /\ to \in Work THEN Size[c] ELSE 0)
                                  - (IF c \in OfClass(k) /\ server[c] \in Work THEN Size[c] ELSE 0)
    BY BytesDelta
  <2> QED
    BY <2>1 DEF Work
<1>7. reserve' = NReserve'
  BY <1>2 DEF Ports!FreeSlot, SlotsCounted
<1>8. preauth' \in [Ports!Planes -> Nat] /\ \A p \in Ports!Planes : preauth'[p] = NShared(p)'
  <2>1. \A p \in Ports!Planes : preauth[p] = NShared(p)
    BY DEF SlotsCounted
  <2> QED
    BY <1>1, <1>3, <2>1 DEF Ports!FreeSlot, PortsType
<1>9. /\ perIp' \in [Ports!Planes -> [Ports!Addresses -> Nat]]
      /\ \A p \in Ports!Planes, ad \in Ports!Addresses : perIp'[p][ad] = NFrom(p, ad)'
  <2>1. \A p \in Ports!Planes, ad \in Ports!Addresses : perIp[p][ad] = NFrom(p, ad)
    BY DEF SlotsCounted
  <2>2. CASE Ports!Reserved(c)
    BY <1>4, <2>1, <2>2 DEF Ports!FreeSlot, PortsType
  <2>3. CASE ~Ports!Reserved(c)
    <3>1. perIp' = [perIp EXCEPT ![Ports!Plane(c)][Source[c]] = @ - 1]
      BY <2>3 DEF Ports!FreeSlot
    <3>2. perIp[Ports!Plane(c)][Source[c]] - 1 \in Nat
      BY <1>1, <1>4, <2>1, <2>3
    <3>3. perIp' \in [Ports!Planes -> [Ports!Addresses -> Nat]]
      BY <1>1, <3>1, <3>2 DEF PortsType
    <3>4. ASSUME NEW p \in Ports!Planes, NEW ad \in Ports!Addresses
          PROVE  perIp'[p][ad] = IF p = Ports!Plane(c) /\ ad = Source[c]
                                 THEN perIp[p][ad] - 1 ELSE perIp[p][ad]
      BY <1>1, <3>1 DEF PortsType
    <3> QED
      BY <1>4, <2>1, <2>3, <3>3, <3>4
  <2> QED
    BY <2>2, <2>3
<1>10. \A p \in Ports!Planes : inflight'[p] = NOpen(p)' /\ NBusy(p)' <= MaxInflight
  BY <1>5 DEF SlotsCounted
<1>11. \A k \in Ports!Classes : portBytes'[k] <= MaxBytes /\ portBytes'[k] = NBytes(k)'
  BY <1>6 DEF SlotsCounted
<1> QED
  BY <1>2, <1>7, <1>8, <1>9, <1>10, <1>11 DEF SlotsCounted

\* Past the handshake the half-open slots stay exact.
LEMMA HalfKept ==
    ASSUME PortsType, SlotsCounted, NEW c \in Conns, NEW to, server' = [server EXCEPT ![c] = to],
           server[c] \notin Half, to \notin Half, UNCHANGED <<preauth, reserve, perIp>>
    PROVE  /\ reserve' = NReserve'
           /\ \A p \in Ports!Planes :
                preauth'[p] = NShared(p)' /\ \A ad \in Ports!Addresses : perIp'[p][ad] = NFrom(p, ad)'
<1>1. NReserve' = NReserve
  <2>1. /\ NReserve \in Nat
        /\ NReserve' = NReserve + One(c, OfReserve, to, Half) - One(c, OfReserve, server[c], Half)
    BY ReserveDelta
  <2> QED
    BY <2>1 DEF One
<1>2. ASSUME NEW p PROVE NShared(p)' = NShared(p)
  <2>1. /\ NShared(p) \in Nat
        /\ NShared(p)' = NShared(p) + One(c, OfShared(p), to, Half) - One(c, OfShared(p), server[c], Half)
    BY SharedDelta
  <2> QED
    BY <2>1 DEF One
<1>3. ASSUME NEW p, NEW ad PROVE NFrom(p, ad)' = NFrom(p, ad)
  <2>1. /\ NFrom(p, ad) \in Nat
        /\ NFrom(p, ad)' = NFrom(p, ad) + One(c, FromAddress(p, ad), to, Half)
                                        - One(c, FromAddress(p, ad), server[c], Half)
    BY FromDelta
  <2> QED
    BY <2>1 DEF One
<1> QED
  BY <1>1, <1>2, <1>3 DEF SlotsCounted

\* An authenticated connection takes a place among the open ones, and among
\* the requests only when there is one.
LEMMA EnterMove ==
    ASSUME PortsType, SlotsCounted, NEW c \in Conns, NEW to, server' = [server EXCEPT ![c] = to],
           server[c] = "authed",
           to = IF inflight[Ports!Plane(c)] >= MaxInflight THEN "over" ELSE "reading",
           inflight' = [inflight EXCEPT ![Ports!Plane(c)] = @ + 1],
           UNCHANGED <<preauth, reserve, perIp, portBytes>>
    PROVE  SlotsCounted' /\ inflight' \in [Ports!Planes -> Nat]
<1>1. Ports!Plane(c) \in Ports!Planes
  BY DEF Ports!Plane, Ports!Planes
<1>2. to \in {"over", "reading"}
  OBVIOUS
<1>3. ASSUME NEW p
      PROVE  /\ NOpen(p) \in Nat /\ NBusy(p) \in Nat
             /\ NOpen(p)' = IF p = Ports!Plane(c) THEN NOpen(p) + 1 ELSE NOpen(p)
             /\ NBusy(p)' = IF p = Ports!Plane(c) /\ to = "reading" THEN NBusy(p) + 1 ELSE NBusy(p)
  <2>1. /\ NOpen(p) \in Nat /\ NBusy(p) \in Nat
        /\ NOpen(p)' = NOpen(p) + One(c, OnPlane(p), to, Open) - One(c, OnPlane(p), server[c], Open)
        /\ NBusy(p)' = NBusy(p) + One(c, OnPlane(p), to, Busy) - One(c, OnPlane(p), server[c], Busy)
    BY OpenDelta
  <2> QED
    BY <1>2, <2>1 DEF One, Open, Busy, Work, OnPlane
<1>4. ASSUME NEW p PROVE NBusy(p) <= NOpen(p)
  <2>1. IsFiniteSet(Conns)
    BY PortsAssumption
  <2>2. Inside(Open, OnPlane(p)) \in SUBSET Conns
    BY DEF Inside, OnPlane
  <2>3. IsFiniteSet(Inside(Open, OnPlane(p)))
    BY <2>1, <2>2, FS_Subset
  <2>4. Inside(Busy, OnPlane(p)) \in SUBSET Inside(Open, OnPlane(p))
    BY DEF Inside, Open, Busy
  <2> QED
    BY <2>3, <2>4, FS_Subset DEF NOpen, NBusy
<1>5. ASSUME NEW k PROVE NBytes(k)' = NBytes(k)
  <2>1. /\ NBytes(k) \in Nat
        /\ NBytes(k)' = NBytes(k) + (IF c \in OfClass(k) /\ to \in Work THEN Size[c] ELSE 0)
                                  - (IF c \in OfClass(k) /\ server[c] \in Work THEN Size[c] ELSE 0)
    BY BytesDelta
  <2> QED
    BY <1>2, <2>1 DEF Work
<1>6. inflight' \in [Ports!Planes -> Nat]
  BY <1>1 DEF PortsType
<1>7. ASSUME NEW p \in Ports!Planes PROVE inflight'[p] = NOpen(p)'
  BY <1>1, <1>3 DEF PortsType, SlotsCounted
<1>8. ASSUME NEW p \in Ports!Planes PROVE NBusy(p)' <= MaxInflight
  <2>1. inflight[p] = NOpen(p) /\ NBusy(p) <= MaxInflight /\ MaxInflight \in Nat
    BY PortsAssumption DEF SlotsCounted
  <2> QED
    BY <1>2, <1>3, <1>4, <2>1
<1>9. server[c] \notin Half /\ to \notin Half
  BY <1>2 DEF Half
<1>10. /\ reserve' = NReserve'
       /\ \A p \in Ports!Planes :
            preauth'[p] = NShared(p)' /\ \A ad \in Ports!Addresses : perIp'[p][ad] = NFrom(p, ad)'
  BY <1>9, HalfKept
<1>11. \A k \in Ports!Classes : portBytes'[k] <= MaxBytes /\ portBytes'[k] = NBytes(k)'
  BY <1>5 DEF SlotsCounted
<1> QED
  BY <1>6, <1>7, <1>8, <1>10, <1>11 DEF SlotsCounted

\* A connection that leaves, wherever it was, gives back its place and the
\* bytes it had reserved.
LEMMA LeaveMove ==
    ASSUME PortsType, SlotsCounted, NEW c \in Conns, NEW to \in {"gone", "closed"},
           server' = [server EXCEPT ![c] = to], server[c] \in Open, Ports!Leave(c),
           portBytes' = IF server[c] \in Work
                        THEN [portBytes EXCEPT ![Ports!Class(c)] = @ - Size[c]] ELSE portBytes,
           UNCHANGED <<preauth, reserve, perIp>>
    PROVE  SlotsCounted' /\ inflight' \in [Ports!Planes -> Nat] /\ portBytes' \in [Ports!Classes -> Nat]
<1>1. Ports!Plane(c) \in Ports!Planes /\ Ports!Class(c) \in Ports!Classes
  BY DEF Ports!Plane, Ports!Planes, Ports!Class, Ports!Classes
<1>2. to \notin Open /\ to \notin Busy /\ to \notin Work /\ to \notin Half /\ server[c] \notin Half
  BY DEF Open, Busy, Work, Half
<1>3. ASSUME NEW p
      PROVE  /\ NOpen(p)' \in Nat /\ NOpen(p) \in Nat /\ NBusy(p) \in Nat
             /\ NOpen(p)' = IF p = Ports!Plane(c) THEN NOpen(p) - 1 ELSE NOpen(p)
             /\ NBusy(p)' <= NBusy(p) /\ NBusy(p)' \in Nat
  <2>1. /\ NOpen(p) \in Nat /\ NBusy(p) \in Nat /\ NOpen(p)' \in Nat /\ NBusy(p)' \in Nat
        /\ NOpen(p)' = NOpen(p) + One(c, OnPlane(p), to, Open) - One(c, OnPlane(p), server[c], Open)
        /\ NBusy(p)' = NBusy(p) + One(c, OnPlane(p), to, Busy) - One(c, OnPlane(p), server[c], Busy)
    BY OpenDelta
  <2> QED
    BY <1>2, <2>1 DEF One, OnPlane
<1>4. ASSUME NEW k
      PROVE  /\ NBytes(k) \in Nat /\ NBytes(k)' \in Nat /\ NBytes(k)' <= NBytes(k)
             /\ NBytes(k)' = IF server[c] \in Work /\ k = Ports!Class(c) THEN NBytes(k) - Size[c] ELSE NBytes(k)
  <2>1. /\ NBytes(k) \in Nat /\ NBytes(k)' \in Nat
        /\ NBytes(k)' = NBytes(k) + (IF c \in OfClass(k) /\ to \in Work THEN Size[c] ELSE 0)
                                  - (IF c \in OfClass(k) /\ server[c] \in Work THEN Size[c] ELSE 0)
    BY BytesDelta
  <2>2. Size[c] \in Nat
    BY PortsAssumption
  <2> QED
    BY <1>2, <2>1, <2>2 DEF OfClass
<1>5. inflight' \in [Ports!Planes -> Nat] /\ \A p \in Ports!Planes : inflight'[p] = NOpen(p)'
  <2>1. \A p \in Ports!Planes : inflight[p] = NOpen(p)
    BY DEF SlotsCounted
  <2> QED
    BY <1>1, <1>3, <2>1 DEF PortsType, Ports!Leave
<1>6. ASSUME NEW p \in Ports!Planes PROVE NBusy(p)' <= MaxInflight
  <2>1. NBusy(p) <= MaxInflight /\ MaxInflight \in Nat
    BY PortsAssumption DEF SlotsCounted
  <2> QED
    BY <1>3, <2>1
<1>7. /\ portBytes' \in [Ports!Classes -> Nat]
      /\ \A k \in Ports!Classes : portBytes'[k] <= MaxBytes /\ portBytes'[k] = NBytes(k)'
  <2>1. \A k \in Ports!Classes : portBytes[k] = NBytes(k) /\ portBytes[k] <= MaxBytes /\ MaxBytes \in Nat
    BY PortsAssumption DEF SlotsCounted
  <2>2. CASE server[c] \notin Work
    BY <1>4, <2>1, <2>2 DEF PortsType
  <2>3. CASE server[c] \in Work
    <3>1. portBytes[Ports!Class(c)] - Size[c] \in Nat
      BY <1>1, <1>4, <2>1, <2>3
    <3>2. portBytes' \in [Ports!Classes -> Nat]
      BY <1>1, <2>3, <3>1 DEF PortsType
    <3>3. \A k \in Ports!Classes : portBytes'[k] = NBytes(k)'
      BY <1>1, <1>4, <2>1, <2>3 DEF PortsType
    <3> QED
      BY <1>4, <2>1, <3>2, <3>3
  <2> QED
    BY <2>2, <2>3
<1>8. /\ reserve' = NReserve'
      /\ \A p \in Ports!Planes :
           preauth'[p] = NShared(p)' /\ \A ad \in Ports!Addresses : perIp'[p][ad] = NFrom(p, ad)'
  BY <1>2, HalfKept
<1> QED
  BY <1>5, <1>6, <1>7, <1>8 DEF SlotsCounted

\* A request that is read reserves its bytes only when they are there.
LEMMA ReserveMove ==
    ASSUME PortsType, SlotsCounted, NEW c \in Conns, server' = [server EXCEPT ![c] = "handling"],
           server[c] = "reading", portBytes[Ports!Class(c)] + Size[c] <= MaxBytes,
           portBytes' = [portBytes EXCEPT ![Ports!Class(c)] = @ + Size[c]],
           UNCHANGED <<preauth, reserve, perIp, inflight>>
    PROVE  SlotsCounted' /\ portBytes' \in [Ports!Classes -> Nat]
<1>1. Ports!Class(c) \in Ports!Classes /\ Size[c] \in Nat
  BY PortsAssumption DEF Ports!Class, Ports!Classes
<1>2. ASSUME NEW p PROVE NOpen(p)' = NOpen(p) /\ NBusy(p)' = NBusy(p)
  <2>1. /\ NOpen(p) \in Nat /\ NBusy(p) \in Nat
        /\ NOpen(p)' = NOpen(p) + One(c, OnPlane(p), "handling", Open) - One(c, OnPlane(p), server[c], Open)
        /\ NBusy(p)' = NBusy(p) + One(c, OnPlane(p), "handling", Busy) - One(c, OnPlane(p), server[c], Busy)
    BY OpenDelta
  <2> QED
    BY <2>1 DEF One, Open, Busy, Work
<1>3. ASSUME NEW k
      PROVE  NBytes(k)' = IF k = Ports!Class(c) THEN NBytes(k) + Size[c] ELSE NBytes(k)
  <2>1. /\ NBytes(k) \in Nat
        /\ NBytes(k)' = NBytes(k) + (IF c \in OfClass(k) /\ "handling" \in Work THEN Size[c] ELSE 0)
                                  - (IF c \in OfClass(k) /\ server[c] \in Work THEN Size[c] ELSE 0)
    BY BytesDelta
  <2> QED
    BY <1>1, <2>1 DEF OfClass, Work
<1>4. portBytes' \in [Ports!Classes -> Nat]
  BY <1>1 DEF PortsType
<1>5. \A k \in Ports!Classes : portBytes'[k] <= MaxBytes /\ portBytes'[k] = NBytes(k)'
  <2>1. \A k \in Ports!Classes : portBytes[k] = NBytes(k) /\ portBytes[k] <= MaxBytes
    BY DEF SlotsCounted
  <2> QED
    BY <1>1, <1>3, <2>1 DEF PortsType
<1>6. server[c] \notin Half /\ "handling" \notin Half
  BY DEF Half
<1>7. /\ reserve' = NReserve'
      /\ \A p \in Ports!Planes :
           preauth'[p] = NShared(p)' /\ \A ad \in Ports!Addresses : perIp'[p][ad] = NFrom(p, ad)'
  BY <1>6, HalfKept
<1> QED
  BY <1>2, <1>4, <1>5, <1>7 DEF SlotsCounted

-----------------------------------------------------------------------------
\* No connection, no slot taken.
LEMMA PortsInit == Ports!Init => PortsInv
<1> SUFFICES ASSUME Ports!Init PROVE PortsInv
  OBVIOUS
<1> USE PortsAssumption DEF Ports!Init
<1>1. PortsType
  BY DEF PortsType, Stages
<1>2. OnWire /\ Ports!AnswersTrue
  BY DEF OnWire, Ports!AnswersTrue
<1>3. \A St, G : G \subseteq Conns /\ "none" \notin St => Inside(St, G) = {}
  BY DEF Inside
<1>4. Cardinality({}) = 0 /\ Ports!BytesOf({}) = 0
  <2>1. UNION {{d} \X (1 .. Size[d]) : d \in {}} = {}
    OBVIOUS
  <2>2. Cardinality({}) = 0
    BY FS_EmptySet
  <2> QED
    BY <2>1, <2>2, PortsCardinality DEF Ports!BytesOf
<1>5. NReserve = 0
  BY <1>3, <1>4 DEF NReserve, OfReserve, Half
<1>6. \A p : NOpen(p) = 0 /\ NBusy(p) = 0 /\ NShared(p) = 0
  BY <1>3, <1>4 DEF NOpen, NBusy, NShared, OnPlane, OfShared, Half, Open, Busy, Work
<1>7. \A p, ad : NFrom(p, ad) = 0
  BY <1>3, <1>4 DEF NFrom, FromAddress, OfShared, Half
<1>8. \A k : NBytes(k) = 0
  BY <1>3, <1>4 DEF NBytes, OfClass, Work
<1>9. SlotsCounted
  BY <1>5, <1>6, <1>7, <1>8 DEF SlotsCounted
<1> QED
  BY <1>1, <1>2, <1>9, SlotsExactCounted DEF PortsInv

\* Every step of every connection keeps the invariant of the ports.
LEMMA PortsStepInv == ASSUME PortsInv, NEW c \in Conns, Ports!Step(c) PROVE PortsInv'
<1>1. PortsType /\ OnWire /\ SlotsCounted /\ Ports!AnswersTrue
  BY SlotsExactCounted DEF PortsInv
<1> USE DEF Ports!slots
<1> SUFFICES PortsType' /\ OnWire' /\ SlotsCounted' /\ Ports!AnswersTrue'
  <2>1. Ports!SlotsExact' <=> SlotsCounted'
    BY SlotsExactCounted, PTL
  <2> QED
    BY <2>1 DEF PortsInv
<1>2. CASE Ports!Connect(c)
  <2>1. server' = [server EXCEPT ![c] = server[c]] /\ UNCHANGED <<preauth, reserve, perIp, inflight, portBytes>>
    BY <1>1, <1>2 DEF Ports!Connect, Ports!Call, PortsType
  <2>2. SlotsCounted'
    BY <1>1, <2>1, QuietMove
  <2>3. PortsType'
    BY <1>1, <1>2, <2>1, <2>2 DEF Ports!Connect, Ports!Call, PortsType, Stages
  <2>4. OnWire' /\ Ports!AnswersTrue'
    BY <1>1, <1>2, <2>1 DEF Ports!Connect, Ports!Call, PortsType, OnWire, Ports!AnswersTrue
  <2> QED
    BY <2>2, <2>3, <2>4
<1>3. CASE Ports!Accept(c)
  <2>1. /\ server[c] = "none" /\ server' = [server EXCEPT ![c] = "handshake"] /\ Ports!TakeSlot(c)
        /\ UNCHANGED <<inflight, portBytes>>
    BY <1>3 DEF Ports!Accept, Ports!Serve
  <2>2. /\ SlotsCounted' /\ reserve' \in Nat /\ preauth' \in [Ports!Planes -> Nat]
        /\ perIp' \in [Ports!Planes -> [Ports!Addresses -> Nat]]
    BY <1>1, <2>1, TakeMove
  <2>3. PortsType'
    BY <1>1, <1>3, <2>1, <2>2 DEF Ports!Accept, Ports!Serve, PortsType, Stages
  <2>4. OnWire' /\ Ports!AnswersTrue'
    BY <1>1, <1>3, <2>1 DEF Ports!Accept, Ports!Serve, PortsType, OnWire, Ports!AnswersTrue
  <2> QED
    BY <2>2, <2>3, <2>4
<1>4. CASE Ports!Reject(c)
  <2>1. server' = [server EXCEPT ![c] = "refused"] /\ UNCHANGED <<preauth, reserve, perIp, inflight, portBytes>>
    BY <1>4 DEF Ports!Reject, Ports!Serve
  <2>2. SlotsCounted'
    <3> DEFINE to == "refused"
    <3>1. /\ server[c] \in Half <=> to \in Half
          /\ server[c] \in Open <=> to \in Open
          /\ server[c] \in Busy <=> to \in Busy
          /\ server[c] \in Work <=> to \in Work
      BY <1>4 DEF Ports!Reject, Ports!Serve, Half, Open, Busy, Work
    <3> HIDE DEF to
    <3>2. server' = [server EXCEPT ![c] = to]
      BY <2>1 DEF to
    <3> QED
      BY <1>1, <2>1, <3>1, <3>2, QuietMove
  <2>3. PortsType'
    BY <1>1, <1>4, <2>1, <2>2 DEF Ports!Reject, Ports!Serve, PortsType, Stages
  <2>4. OnWire' /\ Ports!AnswersTrue'
    BY <1>1, <1>4, <2>1 DEF Ports!Reject, Ports!Serve, PortsType, OnWire, Ports!AnswersTrue
  <2> QED
    BY <2>2, <2>3, <2>4
<1>5. CASE Ports!Authenticate(c)
  <2>1. /\ server[c] = "handshake" /\ server' = [server EXCEPT ![c] = "authed"] /\ Ports!FreeSlot(c)
        /\ UNCHANGED <<inflight, portBytes>>
    BY <1>5 DEF Ports!Authenticate, Ports!Serve
  <2>2. /\ SlotsCounted' /\ reserve' \in Nat /\ preauth' \in [Ports!Planes -> Nat]
        /\ perIp' \in [Ports!Planes -> [Ports!Addresses -> Nat]]
    BY <1>1, <2>1, FreeMove
  <2>3. PortsType'
    BY <1>1, <1>5, <2>1, <2>2 DEF Ports!Authenticate, Ports!Serve, PortsType, Stages
  <2>4. OnWire' /\ Ports!AnswersTrue'
    BY <1>1, <1>5, <2>1 DEF Ports!Authenticate, Ports!Serve, PortsType, OnWire, Ports!AnswersTrue
  <2> QED
    BY <2>2, <2>3, <2>4
<1>6. CASE Ports!HandshakeFails(c)
  <2>1. /\ server[c] = "handshake" /\ server' = [server EXCEPT ![c] = "refused"] /\ Ports!FreeSlot(c)
        /\ UNCHANGED <<inflight, portBytes>>
    BY <1>6 DEF Ports!HandshakeFails, Ports!Serve
  <2>2. /\ SlotsCounted' /\ reserve' \in Nat /\ preauth' \in [Ports!Planes -> Nat]
        /\ perIp' \in [Ports!Planes -> [Ports!Addresses -> Nat]]
    BY <1>1, <2>1, FreeMove
  <2>3. PortsType'
    BY <1>1, <1>6, <2>1, <2>2 DEF Ports!HandshakeFails, Ports!Serve, PortsType, Stages
  <2>4. OnWire' /\ Ports!AnswersTrue'
    BY <1>1, <1>6, <2>1 DEF Ports!HandshakeFails, Ports!Serve, PortsType, OnWire, Ports!AnswersTrue
  <2> QED
    BY <2>2, <2>3, <2>4
<1>7. CASE Ports!Welcome(c)
  <2>1. server' = [server EXCEPT ![c] = server[c]] /\ UNCHANGED <<preauth, reserve, perIp, inflight, portBytes>>
    BY <1>1, <1>7 DEF Ports!Welcome, Ports!Call, PortsType
  <2>2. SlotsCounted'
    BY <1>1, <2>1, QuietMove
  <2>3. PortsType'
    BY <1>1, <1>7, <2>1, <2>2 DEF Ports!Welcome, Ports!Call, PortsType, Stages
  <2>4. OnWire' /\ Ports!AnswersTrue'
    BY <1>1, <1>7, <2>1 DEF Ports!Welcome, Ports!Call, PortsType, OnWire, Ports!AnswersTrue
  <2> QED
    BY <2>2, <2>3, <2>4
<1>8. CASE Ports!Enter(c)
  <2>1. PICK to : /\ to = IF inflight[Ports!Plane(c)] >= MaxInflight THEN "over" ELSE "reading"
                  /\ server' = [server EXCEPT ![c] = to]
    BY <1>8 DEF Ports!Enter, Ports!Serve
  <2>2. SlotsCounted' /\ inflight' \in [Ports!Planes -> Nat]
    <3>1. /\ server[c] = "authed" /\ inflight' = [inflight EXCEPT ![Ports!Plane(c)] = @ + 1]
          /\ UNCHANGED <<preauth, reserve, perIp, portBytes>>
      BY <1>8 DEF Ports!Enter, Ports!Serve
    <3> QED
      BY <1>1, <2>1, <3>1, EnterMove
  <2>3. PortsType'
    BY <1>1, <1>8, <2>1, <2>2 DEF Ports!Enter, Ports!Serve, PortsType, Stages
  <2>4. OnWire' /\ Ports!AnswersTrue'
    BY <1>1, <1>8, <2>1 DEF Ports!Enter, Ports!Serve, PortsType, OnWire, Ports!AnswersTrue
  <2> QED
    BY <2>2, <2>3, <2>4
<1>9. CASE Ports!Overflow(c)
  <2> DEFINE to == "closed"
  <2>1. /\ server' = [server EXCEPT ![c] = to] /\ to \in {"gone", "closed"} /\ server[c] \in Open
        /\ Ports!Leave(c) /\ UNCHANGED <<preauth, reserve, perIp>>
        /\ portBytes' = IF server[c] \in Work
                        THEN [portBytes EXCEPT ![Ports!Class(c)] = @ - Size[c]] ELSE portBytes
    BY <1>9 DEF Ports!Overflow, Ports!Serve, Open, Work
  <2>2. SlotsCounted' /\ inflight' \in [Ports!Planes -> Nat] /\ portBytes' \in [Ports!Classes -> Nat]
    <3> HIDE DEF to
    <3> QED
      BY <1>1, <2>1, LeaveMove
  <2>3. PortsType'
    BY <1>1, <1>9, <2>1, <2>2 DEF Ports!Overflow, Ports!Serve, PortsType, Stages
  <2>4. OnWire' /\ Ports!AnswersTrue'
    BY <1>1, <1>9, <2>1 DEF Ports!Overflow, Ports!Serve, PortsType, OnWire, Ports!AnswersTrue
  <2> QED
    BY <2>2, <2>3, <2>4
<1>10. CASE Ports!Send(c)
  <2>1. server' = [server EXCEPT ![c] = server[c]] /\ UNCHANGED <<preauth, reserve, perIp, inflight, portBytes>>
    BY <1>1, <1>10 DEF Ports!Send, Ports!Call, PortsType
  <2>2. SlotsCounted'
    BY <1>1, <2>1, QuietMove
  <2>3. PortsType'
    BY <1>1, <1>10, <2>1, <2>2 DEF Ports!Send, Ports!Call, PortsType, Stages
  <2>4. OnWire' /\ Ports!AnswersTrue'
    BY <1>1, <1>10, <2>1 DEF Ports!Send, Ports!Call, PortsType, OnWire, Ports!AnswersTrue
  <2> QED
    BY <2>2, <2>3, <2>4
<1>11. CASE Ports!Reserve(c)
  <2>1. /\ server[c] = "reading" /\ server' = [server EXCEPT ![c] = "handling"]
        /\ portBytes[Ports!Class(c)] + Size[c] <= MaxBytes
        /\ portBytes' = [portBytes EXCEPT ![Ports!Class(c)] = @ + Size[c]]
        /\ UNCHANGED <<preauth, reserve, perIp, inflight>>
    BY <1>11 DEF Ports!Reserve, Ports!Serve
  <2>2. SlotsCounted' /\ portBytes' \in [Ports!Classes -> Nat]
    BY <1>1, <2>1, ReserveMove
  <2>3. PortsType'
    BY <1>1, <1>11, <2>1, <2>2 DEF Ports!Reserve, Ports!Serve, PortsType, Stages
  <2>4. OnWire' /\ Ports!AnswersTrue'
    BY <1>1, <1>11, <2>1 DEF Ports!Reserve, Ports!Serve, PortsType, OnWire, Ports!AnswersTrue
  <2> QED
    BY <2>2, <2>3, <2>4
<1>12. CASE Ports!ReadFails(c)
  <2> DEFINE to == "closed"
  <2>1. /\ server' = [server EXCEPT ![c] = to] /\ to \in {"gone", "closed"} /\ server[c] \in Open
        /\ Ports!Leave(c) /\ UNCHANGED <<preauth, reserve, perIp>>
        /\ portBytes' = IF server[c] \in Work
                        THEN [portBytes EXCEPT ![Ports!Class(c)] = @ - Size[c]] ELSE portBytes
    BY <1>12 DEF Ports!ReadFails, Ports!Serve, Open, Work
  <2>2. SlotsCounted' /\ inflight' \in [Ports!Planes -> Nat] /\ portBytes' \in [Ports!Classes -> Nat]
    <3> HIDE DEF to
    <3> QED
      BY <1>1, <2>1, LeaveMove
  <2>3. PortsType'
    BY <1>1, <1>12, <2>1, <2>2 DEF Ports!ReadFails, Ports!Serve, PortsType, Stages
  <2>4. OnWire' /\ Ports!AnswersTrue'
    BY <1>1, <1>12, <2>1 DEF Ports!ReadFails, Ports!Serve, PortsType, OnWire, Ports!AnswersTrue
  <2> QED
    BY <2>2, <2>3, <2>4
<1>13. CASE Ports!MediaSession(c)
  <2> DEFINE to == "closed"
  <2>1. /\ server' = [server EXCEPT ![c] = to] /\ to \in {"gone", "closed"} /\ server[c] \in Open
        /\ Ports!Leave(c) /\ UNCHANGED <<preauth, reserve, perIp>>
        /\ portBytes' = IF server[c] \in Work
                        THEN [portBytes EXCEPT ![Ports!Class(c)] = @ - Size[c]] ELSE portBytes
    BY <1>13 DEF Ports!MediaSession, Ports!Serve, Open, Work
  <2>2. SlotsCounted' /\ inflight' \in [Ports!Planes -> Nat] /\ portBytes' \in [Ports!Classes -> Nat]
    <3> HIDE DEF to
    <3> QED
      BY <1>1, <2>1, LeaveMove
  <2>3. PortsType'
    BY <1>1, <1>13, <2>1, <2>2 DEF Ports!MediaSession, Ports!Serve, PortsType, Stages
  <2>4. OnWire' /\ Ports!AnswersTrue'
    BY <1>1, <1>13, <2>1 DEF Ports!MediaSession, Ports!Serve, PortsType, OnWire, Ports!AnswersTrue
  <2> QED
    BY <2>2, <2>3, <2>4
<1>14. CASE Ports!Act(c)
  <2>1. server' = [server EXCEPT ![c] = "answering"] /\ UNCHANGED <<preauth, reserve, perIp, inflight, portBytes>>
    BY <1>14 DEF Ports!Act, Ports!Serve
  <2>2. SlotsCounted'
    <3> DEFINE to == "answering"
    <3>1. /\ server[c] \in Half <=> to \in Half
          /\ server[c] \in Open <=> to \in Open
          /\ server[c] \in Busy <=> to \in Busy
          /\ server[c] \in Work <=> to \in Work
      BY <1>14 DEF Ports!Act, Ports!Serve, Half, Open, Busy, Work
    <3> HIDE DEF to
    <3>2. server' = [server EXCEPT ![c] = to]
      BY <2>1 DEF to
    <3> QED
      BY <1>1, <2>1, <3>1, <3>2, QuietMove
  <2>3. PortsType'
    BY <1>1, <1>14, <2>1, <2>2 DEF Ports!Act, Ports!Serve, PortsType, Stages
  <2>4. OnWire' /\ Ports!AnswersTrue'
    BY <1>1, <1>14, <2>1 DEF Ports!Act, Ports!Serve, PortsType, OnWire, Ports!AnswersTrue
  <2> QED
    BY <2>2, <2>3, <2>4
<1>15. CASE Ports!Forward(c)
  <2>1. server' = [server EXCEPT ![c] = "forwarded"] /\ UNCHANGED <<preauth, reserve, perIp, inflight, portBytes>>
    BY <1>15 DEF Ports!Forward, Ports!Serve
  <2>2. SlotsCounted'
    <3> DEFINE to == "forwarded"
    <3>1. /\ server[c] \in Half <=> to \in Half
          /\ server[c] \in Open <=> to \in Open
          /\ server[c] \in Busy <=> to \in Busy
          /\ server[c] \in Work <=> to \in Work
      BY <1>15 DEF Ports!Forward, Ports!Serve, Half, Open, Busy, Work
    <3> HIDE DEF to
    <3>2. server' = [server EXCEPT ![c] = to]
      BY <2>1 DEF to
    <3> QED
      BY <1>1, <2>1, <3>1, <3>2, QuietMove
  <2>3. PortsType'
    BY <1>1, <1>15, <2>1, <2>2 DEF Ports!Forward, Ports!Serve, PortsType, Stages
  <2>4. OnWire' /\ Ports!AnswersTrue'
    BY <1>1, <1>15, <2>1 DEF Ports!Forward, Ports!Serve, PortsType, OnWire, Ports!AnswersTrue
  <2> QED
    BY <2>2, <2>3, <2>4
<1>16. CASE Ports!WriteUnsure(c)
  <2>1. server' = [server EXCEPT ![c] = "unsure"] /\ UNCHANGED <<preauth, reserve, perIp, inflight, portBytes>>
    BY <1>16 DEF Ports!WriteUnsure
  <2>2. SlotsCounted'
    <3> DEFINE to == "unsure"
    <3>1. /\ server[c] \in Half <=> to \in Half
          /\ server[c] \in Open <=> to \in Open
          /\ server[c] \in Busy <=> to \in Busy
          /\ server[c] \in Work <=> to \in Work
      BY <1>16 DEF Ports!WriteUnsure, Half, Open, Busy, Work
    <3> HIDE DEF to
    <3>2. server' = [server EXCEPT ![c] = to]
      BY <2>1 DEF to
    <3> QED
      BY <1>1, <2>1, <3>1, <3>2, QuietMove
  <2>3. PortsType'
    BY <1>1, <1>16, <2>1, <2>2 DEF Ports!WriteUnsure, PortsType, Stages
  <2>4. OnWire' /\ Ports!AnswersTrue'
    BY <1>1, <1>16, <2>1 DEF Ports!WriteUnsure, PortsType, OnWire, Ports!AnswersTrue
  <2> QED
    BY <2>2, <2>3, <2>4
<1>17. CASE Ports!LateEffect(c)
  <2>1. server' = [server EXCEPT ![c] = (IF server[c] = "forwarded" THEN "answering" ELSE server[c])] /\ UNCHANGED <<preauth, reserve, perIp, inflight, portBytes>>
    BY <1>17 DEF Ports!LateEffect
  <2>2. SlotsCounted'
    <3> DEFINE to == (IF server[c] = "forwarded" THEN "answering" ELSE server[c])
    <3>1. /\ server[c] \in Half <=> to \in Half
          /\ server[c] \in Open <=> to \in Open
          /\ server[c] \in Busy <=> to \in Busy
          /\ server[c] \in Work <=> to \in Work
      BY <1>17 DEF Ports!LateEffect, Half, Open, Busy, Work
    <3> HIDE DEF to
    <3>2. server' = [server EXCEPT ![c] = to]
      BY <2>1 DEF to
    <3> QED
      BY <1>1, <2>1, <3>1, <3>2, QuietMove
  <2>3. PortsType'
    BY <1>1, <1>17, <2>1, <2>2 DEF Ports!LateEffect, PortsType, Stages
  <2>4. OnWire' /\ Ports!AnswersTrue'
    BY <1>1, <1>17, <2>1 DEF Ports!LateEffect, PortsType, OnWire, Ports!AnswersTrue
  <2> QED
    BY <2>2, <2>3, <2>4
<1>18. CASE Ports!Answer(c)
  <2> DEFINE to == (IF server[c] = "unsure" THEN "gone" ELSE "closed")
  <2>1. /\ server' = [server EXCEPT ![c] = to] /\ to \in {"gone", "closed"} /\ server[c] \in Open
        /\ Ports!Leave(c) /\ UNCHANGED <<preauth, reserve, perIp>>
        /\ portBytes' = IF server[c] \in Work
                        THEN [portBytes EXCEPT ![Ports!Class(c)] = @ - Size[c]] ELSE portBytes
    BY <1>18 DEF Ports!Answer, Ports!Finish, Open, Work
  <2>2. SlotsCounted' /\ inflight' \in [Ports!Planes -> Nat] /\ portBytes' \in [Ports!Classes -> Nat]
    <3> HIDE DEF to
    <3> QED
      BY <1>1, <2>1, LeaveMove
  <2>3. PortsType'
    BY <1>1, <1>18, <2>1, <2>2 DEF Ports!Answer, Ports!Finish, PortsType, Stages
  <2>4. OnWire' /\ Ports!AnswersTrue'
    BY <1>1, <1>18, <2>1 DEF Ports!Answer, Ports!Finish, PortsType, OnWire, Ports!AnswersTrue
  <2> QED
    BY <2>2, <2>3, <2>4
<1>19. CASE Ports!Deny(c)
  <2> DEFINE to == "closed"
  <2>1. /\ server' = [server EXCEPT ![c] = to] /\ to \in {"gone", "closed"} /\ server[c] \in Open
        /\ Ports!Leave(c) /\ UNCHANGED <<preauth, reserve, perIp>>
        /\ portBytes' = IF server[c] \in Work
                        THEN [portBytes EXCEPT ![Ports!Class(c)] = @ - Size[c]] ELSE portBytes
    BY <1>19 DEF Ports!Deny, Ports!Finish, Open, Work
  <2>2. SlotsCounted' /\ inflight' \in [Ports!Planes -> Nat] /\ portBytes' \in [Ports!Classes -> Nat]
    <3> HIDE DEF to
    <3> QED
      BY <1>1, <2>1, LeaveMove
  <2>3. PortsType'
    BY <1>1, <1>19, <2>1, <2>2 DEF Ports!Deny, Ports!Finish, PortsType, Stages
  <2>4. OnWire' /\ Ports!AnswersTrue'
    BY <1>1, <1>19, <2>1 DEF Ports!Deny, Ports!Finish, PortsType, OnWire, Ports!AnswersTrue
  <2> QED
    BY <2>2, <2>3, <2>4
<1>20. CASE Ports!GiveUp(c)
  <2>1. server' = [server EXCEPT ![c] = server[c]] /\ UNCHANGED <<preauth, reserve, perIp, inflight, portBytes>>
    BY <1>1, <1>20 DEF Ports!GiveUp, Ports!Reported, PortsType
  <2>2. SlotsCounted'
    BY <1>1, <2>1, QuietMove
  <2>3. PortsType'
    BY <1>1, <1>20, <2>1, <2>2 DEF Ports!GiveUp, Ports!Reported, PortsType, Stages
  <2>4. OnWire' /\ Ports!AnswersTrue'
    BY <1>1, <1>20, <2>1 DEF Ports!GiveUp, Ports!Reported, PortsType, OnWire, Ports!AnswersTrue
  <2> QED
    BY <2>2, <2>3, <2>4
<1> QED
  BY <1>2, <1>3, <1>4, <1>5, <1>6, <1>7, <1>8, <1>9, <1>10, <1>11, <1>12, <1>13, <1>14, <1>15, <1>16, <1>17, <1>18, <1>19, <1>20 DEF Ports!Step

-----------------------------------------------------------------------------
(* The slots of the HLS clients: HlsSessions.                              *)
\* What the registry and the rows say of each other, for an entry table e and
\* rows r (the purge makes new ones before a slot is taken from them).
EntriesOf(e) == {x \in HlsViewers \X Clients : e[x[1]][x[2]] # NoEntry}
SlotIn(e, x) == e[x[1]][x[2]].slot
RowsOf(r, k) == {t \in Slots : r[t].of = k /\ r[t].active}

HlsTables(e, r) ==
    /\ e \in [HlsViewers -> [Clients -> {NoEntry} \cup [slot : Slots, stale : BOOLEAN]]]
    /\ r \in [Slots -> [of : HlsViewers \cup {NoEntry}, active : BOOLEAN]]
    /\ \A x, y \in EntriesOf(e) : SlotIn(e, x) = SlotIn(e, y) => x = y
    /\ \A x \in EntriesOf(e) : r[SlotIn(e, x)].of = x[1]
    /\ \A t \in Slots : r[t].active => \E x \in EntriesOf(e) : SlotIn(e, x) = t

\* No key has more sessions than its cap, HLS and RTMP together.
Within(r, n) == \A k \in HlsViewers : Cardinality(RowsOf(r, k)) + n[k] <= HlsCap
\* A client of an existing viewer that has an entry has an active row.
Served(w, e, r) == \A k \in w, c \in Clients : e[k][c] # NoEntry => r[e[k][c].slot].active

\* The variables besides the two tables; nothing is active on a stream that
\* is gone.
HlsRest ==
    /\ viewer \subseteq HlsViewers /\ present \in BOOLEAN
    /\ rtmp \in [HlsViewers -> Nat]
    /\ looking \subseteq HlsViewers \X Clients \X (0 .. 1)
    /\ hlsFaults \in 0 .. MaxHlsFaults
    /\ ~present => viewer = {} /\ \A t \in Slots : ~slotOf[t].active

\* The inductive invariant of the HLS registry.
HlsInv == HlsRest /\ HlsTables(entry, slotOf) /\ Within(slotOf, rtmp) /\ Served(viewer, entry, slotOf)

\* The cardinality the instance uses is the one the theorems are about.
LEMMA HlsCardinality == ASSUME NEW S PROVE Hls!Cardinality(S) = Cardinality(S)
  BY DEF Hls!Cardinality, Cardinality

\* The active rows of a key can be counted.
LEMMA RowsFinite == ASSUME NEW r, NEW k PROVE IsFiniteSet(RowsOf(r, k)) /\ Cardinality(RowsOf(r, k)) \in Nat
<1>1. RowsOf(r, k) \in SUBSET Slots
  BY DEF RowsOf
<1> QED
  BY <1>1, HlsAssumption, FS_Subset, FS_CardinalityType

\* Making rows inactive takes no key past its cap.
LEMMA FewerRows ==
    ASSUME NEW r, NEW q, NEW k, \A t \in Slots : q[t].of = k /\ q[t].active => r[t].of = k /\ r[t].active
    PROVE  Cardinality(RowsOf(q, k)) <= Cardinality(RowsOf(r, k))
<1>1. RowsOf(q, k) \in SUBSET RowsOf(r, k)
  BY DEF RowsOf
<1> QED
  BY <1>1, RowsFinite, FS_Subset

\* The invariant gives what the run checks.
LEMMA HlsGives == HlsInv => Hls!TypeOK /\ Hls!SlotsFound /\ Hls!ServedHasSlot
<1> SUFFICES ASSUME HlsInv PROVE Hls!TypeOK /\ Hls!SlotsFound /\ Hls!ServedHasSlot
  OBVIOUS
<1>1. ASSUME NEW k \in HlsViewers PROVE rtmp[k] <= HlsCap /\ Hls!ActiveCount(k) <= HlsCap
  <2>1. Hls!Held(k) = RowsOf(slotOf, k)
    BY DEF Hls!Held, RowsOf
  <2>2. Cardinality(RowsOf(slotOf, k)) + rtmp[k] <= HlsCap /\ rtmp[k] \in Nat
    BY DEF HlsInv, HlsRest, Within
  <2>3. Hls!ActiveCount(k) = Cardinality(RowsOf(slotOf, k)) + rtmp[k]
    BY <2>1, HlsCardinality DEF Hls!ActiveCount
  <2> QED
    BY <2>2, <2>3, RowsFinite, HlsAssumption
<1>2. Hls!TypeOK
  <2>1. rtmp \in [HlsViewers -> 0 .. HlsCap]
    BY <1>1, HlsAssumption DEF HlsInv, HlsRest
  <2> QED
    BY <2>1 DEF HlsInv, HlsRest, HlsTables, Hls!TypeOK
<1>3. Hls!SlotsFound
  <2>1. ASSUME NEW k \in HlsViewers, NEW t \in Hls!Held(k)
        PROVE  Hls!Cardinality({c \in Clients : entry[k][c] # NoEntry /\ entry[k][c].slot = t}) = 1
    <3> DEFINE S == {c \in Clients : entry[k][c] # NoEntry /\ entry[k][c].slot = t}
    <3>1. PICK x \in EntriesOf(entry) : SlotIn(entry, x) = t
      BY <2>1 DEF HlsInv, HlsTables, Hls!Held
    <3>2. x[1] = k
      BY <2>1, <3>1 DEF HlsInv, HlsTables, Hls!Held
    <3>3. x \in HlsViewers \X Clients /\ x[2] \in Clients /\ x[2] \in S
      BY <3>1, <3>2 DEF EntriesOf, SlotIn
    <3>4. ASSUME NEW c \in S PROVE c = x[2]
      <4>1. <<k, c>> \in EntriesOf(entry) /\ SlotIn(entry, <<k, c>>) = t
        BY DEF EntriesOf, SlotIn
      <4> QED
        BY <3>1, <4>1 DEF HlsInv, HlsTables
    <3>5. S = {x[2]}
      BY <3>3, <3>4
    <3> QED
      BY <3>5, FS_Singleton, HlsCardinality
  <2> QED
    BY <1>1, <2>1 DEF Hls!SlotsFound
<1>4. Hls!ServedHasSlot
  BY DEF HlsInv, Served, Hls!ServedHasSlot
<1> QED
  BY <1>2, <1>3, <1>4

\* The registry starts empty.
LEMMA HlsInit == Hls!Init => HlsInv
<1> SUFFICES ASSUME Hls!Init PROVE HlsInv
  OBVIOUS
<1> USE HlsAssumption DEF Hls!Init, Hls!Unused
<1>1. HlsRest
  <2>1. present \in BOOLEAN
    BY Zenon
  <2> QED
    BY <2>1 DEF HlsRest
<1>2. EntriesOf(entry) = {}
  BY DEF EntriesOf
<1>3. HlsTables(entry, slotOf)
  BY <1>2 DEF HlsTables
<1>4. ASSUME NEW k \in HlsViewers PROVE Cardinality(RowsOf(slotOf, k)) + rtmp[k] <= HlsCap
  <2>1. RowsOf(slotOf, k) = {}
    BY DEF RowsOf
  <2>2. Cardinality(RowsOf(slotOf, k)) = 0
    BY <2>1, FS_EmptySet
  <2> QED
    BY <2>2
<1>5. Served(viewer, entry, slotOf)
  BY DEF Served
<1> QED
  BY <1>1, <1>3, <1>4, <1>5 DEF HlsInv, Within

-----------------------------------------------------------------------------
\* The purge keeps all of this, whichever releases fail: an entry is dropped
\* only together with its slot.
LEMMA PurgeKeeps ==
    ASSUME HlsInv, NEW f \in SUBSET Hls!Expired
    PROVE  /\ HlsTables(Hls!purge_stale(f).entry, Hls!purge_stale(f).slotOf)
           /\ Within(Hls!purge_stale(f).slotOf, rtmp)
           /\ Served(viewer, Hls!purge_stale(f).entry, Hls!purge_stale(f).slotOf)
           /\ \A t \in Slots : /\ Hls!purge_stale(f).slotOf[t].active => slotOf[t].active
                               /\ Hls!purge_stale(f).slotOf[t].of = slotOf[t].of
<1> DEFINE done == Hls!Expired \ f
           freed == IF present THEN {Hls!SlotOf(x) : x \in done} ELSE {}
           e == [k \in HlsViewers |-> [c \in Clients |-> IF <<k, c>> \in done THEN NoEntry ELSE entry[k][c]]]
           r == [t \in Slots |-> IF t \in freed THEN [slotOf[t] EXCEPT !.active = FALSE] ELSE slotOf[t]]
<1>1. Hls!purge_stale(f).entry = e /\ Hls!purge_stale(f).slotOf = r
  BY DEF Hls!purge_stale, Hls!Released
<1>2. done \subseteq EntriesOf(entry) /\ \A x \in done : Hls!SlotOf(x) = SlotIn(entry, x)
  BY DEF Hls!Expired, EntriesOf, Hls!SlotOf, SlotIn
<1>3. \A t \in Slots : /\ r[t].of = slotOf[t].of
                       /\ r[t] \in [of : HlsViewers \cup {NoEntry}, active : BOOLEAN]
                       /\ t \in freed => ~r[t].active
                       /\ t \notin freed => r[t] = slotOf[t]
  <2> TAKE t \in Slots
  <2>1. slotOf[t] \in [of : HlsViewers \cup {NoEntry}, active : BOOLEAN]
    BY DEF HlsInv, HlsTables
  <2> HIDE DEF freed
  <2>2. CASE t \in freed
    <3>1. r[t] = [slotOf[t] EXCEPT !.active = FALSE]
      BY <2>2
    <3> QED
      BY <2>1, <2>2, <3>1
  <2>3. CASE t \notin freed
    BY <2>1, <2>3
  <2> QED
    BY <2>2, <2>3
<1>4. ASSUME NEW x \in HlsViewers \X Clients
      PROVE  /\ x \in done => e[x[1]][x[2]] = NoEntry
             /\ x \notin done => e[x[1]][x[2]] = entry[x[1]][x[2]]
  <2> HIDE DEF done
  <2>1. x[1] \in HlsViewers /\ x[2] \in Clients /\ x = <<x[1], x[2]>>
    OBVIOUS
  <2> QED
    BY <2>1
<1>5. EntriesOf(e) = EntriesOf(entry) \ done
  BY <1>2, <1>4 DEF EntriesOf
<1>6. \A x \in EntriesOf(e) : SlotIn(e, x) = SlotIn(entry, x)
  BY <1>4, <1>5 DEF EntriesOf, SlotIn
<1>7. \A t \in Slots : t \in freed <=> present /\ \E x \in done : SlotIn(entry, x) = t
  BY <1>2
<1>8. e \in [HlsViewers -> [Clients -> {NoEntry} \cup [slot : Slots, stale : BOOLEAN]]]
  BY DEF HlsInv, HlsTables
<1>9. r \in [Slots -> [of : HlsViewers \cup {NoEntry}, active : BOOLEAN]]
  BY <1>3
<1> HIDE DEF done, freed, e, r
<1>10. \A x \in EntriesOf(entry) : SlotIn(entry, x) \in Slots
  BY DEF EntriesOf, SlotIn, HlsInv, HlsTables
<1>11. HlsTables(e, r)
  <2>1. \A x, y \in EntriesOf(e) : SlotIn(e, x) = SlotIn(e, y) => x = y
    BY <1>5, <1>6 DEF HlsInv, HlsTables
  <2>2. \A x \in EntriesOf(e) : r[SlotIn(e, x)].of = x[1]
    BY <1>3, <1>5, <1>6, <1>10 DEF HlsInv, HlsTables
  <2>3. ASSUME NEW t \in Slots, r[t].active PROVE \E x \in EntriesOf(e) : SlotIn(e, x) = t
    <3>1. t \notin freed /\ slotOf[t].active
      BY <1>3, <2>3
    <3>2. present
      BY <3>1 DEF HlsInv, HlsRest
    <3>3. PICK x \in EntriesOf(entry) : SlotIn(entry, x) = t
      BY <3>1 DEF HlsInv, HlsTables
    <3>4. x \notin done
      BY <1>7, <3>1, <3>2, <3>3
    <3> QED
      BY <1>5, <1>6, <3>3, <3>4
  <2> QED
    BY <1>8, <1>9, <2>1, <2>2, <2>3 DEF HlsTables
<1>12. \A t \in Slots : r[t].active => slotOf[t].active
  BY <1>3
<1>13. ASSUME NEW k \in HlsViewers PROVE Cardinality(RowsOf(r, k)) + rtmp[k] <= HlsCap
  <2>1. Cardinality(RowsOf(r, k)) <= Cardinality(RowsOf(slotOf, k))
    BY <1>3, <1>12, FewerRows
  <2>2. Cardinality(RowsOf(slotOf, k)) + rtmp[k] <= HlsCap /\ rtmp[k] \in Nat
    BY DEF HlsInv, HlsRest, Within
  <2> QED
    BY <2>1, <2>2, RowsFinite, HlsAssumption
<1>14. ASSUME NEW k \in viewer, NEW c \in Clients, e[k][c] # NoEntry PROVE r[e[k][c].slot].active
  <2>1. k \in HlsViewers /\ present
    BY DEF HlsInv, HlsRest
  <2>2. <<k, c>> \in EntriesOf(e) /\ SlotIn(e, <<k, c>>) = e[k][c].slot
    BY <1>14, <2>1 DEF EntriesOf, SlotIn
  <2>3. /\ <<k, c>> \in EntriesOf(entry) /\ <<k, c>> \notin done
        /\ SlotIn(entry, <<k, c>>) = e[k][c].slot
    BY <1>5, <1>6, <2>2
  <2>4. entry[k][c] # NoEntry /\ SlotIn(entry, <<k, c>>) = entry[k][c].slot
    BY <2>3 DEF EntriesOf, SlotIn
  <2>5. slotOf[e[k][c].slot].active
    BY <2>3, <2>4 DEF HlsInv, Served
  <2>6. e[k][c].slot \in Slots /\ e[k][c].slot \notin freed
    BY <1>2, <1>7, <1>10, <2>3 DEF HlsInv, HlsTables
  <2> QED
    BY <1>3, <2>5, <2>6
<1> QED
  BY <1>1, <1>3, <1>11, <1>12, <1>13, <1>14 DEF Within, Served

\* The releases that fail are counted against their bound.
LEMMA FaultsCounted ==
    ASSUME HlsInv, NEW f \in Hls!Failures
    PROVE  f \in SUBSET Hls!Expired /\ hlsFaults + Hls!Cardinality(f) \in 0 .. MaxHlsFaults
<1>1. f \in SUBSET (HlsViewers \X Clients)
  BY DEF Hls!Failures, Hls!Expired
<1>2. IsFiniteSet(HlsViewers \X Clients)
  BY HlsAssumption, FS_Product
<1>3. Cardinality(f) \in Nat
  BY <1>1, <1>2, FS_Subset, FS_CardinalityType
<1>4. f \in SUBSET Hls!Expired /\ hlsFaults + Hls!Cardinality(f) <= MaxHlsFaults
  BY DEF Hls!Failures
<1> QED
  BY <1>3, <1>4, HlsCardinality, HlsAssumption DEF HlsInv, HlsRest

\* Renewing or taking a slot, on the tables the purge has left.
LEMMA ReserveKeeps ==
    ASSUME HlsInv, NEW k \in HlsViewers, NEW c \in Clients, NEW remote \in 0 .. 1, Hls!reserve_or_renew(k, c, remote),
           UNCHANGED <<viewer, present, rtmp>>
    PROVE  /\ HlsTables(entry', slotOf') /\ Within(slotOf', rtmp) /\ Served(viewer, entry', slotOf')
           /\ hlsFaults' \in 0 .. MaxHlsFaults
           /\ ~present => \A t \in Slots : ~slotOf'[t].active
<1>1. PICK f \in Hls!Failures :
        LET p == Hls!purge_stale(f)
            full == Hls!CountAfter(p, k) + remote >= HlsCap
        IN /\ hlsFaults' = hlsFaults + Hls!Cardinality(f)
           /\ \/ /\ p.entry[k][c] # NoEntry
                 /\ entry' = [p.entry EXCEPT ![k][c].stale = FALSE]
                 /\ slotOf' = p.slotOf
              \/ /\ p.entry[k][c] = NoEntry
                 /\ full \/ ~present
                 /\ entry' = p.entry /\ slotOf' = p.slotOf
              \/ /\ p.entry[k][c] = NoEntry
                 /\ ~full /\ present
                 /\ \E t \in Hls!NextSlot :
                      /\ slotOf' = [p.slotOf EXCEPT ![t] = [of |-> k, active |-> TRUE]]
                      /\ entry' = [p.entry EXCEPT ![k][c] = Hls!Fresh(t)]
  BY DEF Hls!reserve_or_renew
<1>2. f \in SUBSET Hls!Expired /\ hlsFaults' \in 0 .. MaxHlsFaults
  BY <1>1, FaultsCounted
<1> DEFINE e == Hls!purge_stale(f).entry
           r == Hls!purge_stale(f).slotOf
<1>3. /\ HlsTables(e, r) /\ Within(r, rtmp) /\ Served(viewer, e, r)
      /\ \A t \in Slots : (r[t].active => slotOf[t].active) /\ r[t].of = slotOf[t].of
  BY <1>2, PurgeKeeps
<1>4. Hls!CountAfter(Hls!purge_stale(f), k) = Cardinality(RowsOf(r, k)) + rtmp[k]
  <2>1. {t \in Slots : Hls!purge_stale(f).slotOf[t].of = k /\ Hls!purge_stale(f).slotOf[t].active} = RowsOf(r, k)
    BY DEF RowsOf
  <2> QED
    BY <2>1, HlsCardinality DEF Hls!CountAfter
<1>5. \/ e[k][c] # NoEntry /\ entry' = [e EXCEPT ![k][c].stale = FALSE] /\ slotOf' = r
      \/ entry' = e /\ slotOf' = r
      \/ /\ e[k][c] = NoEntry /\ present /\ Cardinality(RowsOf(r, k)) + rtmp[k] + remote < HlsCap
         /\ \E t \in Hls!NextSlot : /\ slotOf' = [r EXCEPT ![t] = [of |-> k, active |-> TRUE]]
                                    /\ entry' = [e EXCEPT ![k][c] = Hls!Fresh(t)]
  <2> DEFINE n == Hls!CountAfter(Hls!purge_stale(f), k) + remote
  <2>1. n \in Int /\ HlsCap \in Int
    BY <1>4, RowsFinite, HlsAssumption DEF HlsInv, HlsRest
  <2>2. ~(n >= HlsCap) => n < HlsCap
    BY <2>1
  <2>3. n = Cardinality(RowsOf(r, k)) + rtmp[k] + remote
    BY <1>4
  <2> HIDE DEF n
  <2> QED
    BY <1>1, <2>2, <2>3 DEF n
<1> HIDE DEF e, r
<1>6. CASE entry' = e /\ slotOf' = r
  BY <1>2, <1>3, <1>6 DEF HlsInv, HlsRest, Served
<1>7. CASE e[k][c] # NoEntry /\ entry' = [e EXCEPT ![k][c].stale = FALSE] /\ slotOf' = r
  <2>1. e \in [HlsViewers -> [Clients -> {NoEntry} \cup [slot : Slots, stale : BOOLEAN]]]
    BY <1>3 DEF HlsTables
  <2>2. e[k][c] \in [slot : Slots, stale : BOOLEAN]
    BY <1>7, <2>1
  <2>3. DEFINE w == [e[k][c] EXCEPT !.stale = FALSE]
  <2>4. w \in [slot : Slots, stale : BOOLEAN] /\ w.slot = e[k][c].slot /\ w # NoEntry
    BY <2>2, HlsAssumption
  <2>5. entry' = [e EXCEPT ![k] = [e[k] EXCEPT ![c] = w]]
    BY <1>7
  <2> HIDE DEF w
  <2>6. entry' \in [HlsViewers -> [Clients -> {NoEntry} \cup [slot : Slots, stale : BOOLEAN]]]
    BY <2>1, <2>4, <2>5
  <2>7. \A q \in HlsViewers, d \in Clients :
          /\ entry'[q][d] # NoEntry <=> e[q][d] # NoEntry
          /\ entry'[q][d] # NoEntry => entry'[q][d].slot = e[q][d].slot
    <3> TAKE q \in HlsViewers, d \in Clients
    <3>1. entry'[q][d] = IF q = k /\ d = c THEN w ELSE e[q][d]
      BY <2>1, <2>5
    <3>2. w.slot = e[k][c].slot /\ w # NoEntry /\ e[k][c] # NoEntry
      BY <1>7, <2>4
    <3> QED
      BY <3>1, <3>2
  <2>8. EntriesOf(entry') = EntriesOf(e)
    BY <2>7 DEF EntriesOf
  <2>9. \A x \in EntriesOf(e) : SlotIn(entry', x) = SlotIn(e, x)
    BY <2>7, <2>8 DEF EntriesOf, SlotIn
  <2>10. HlsTables(entry', r)
    BY <1>3, <2>6, <2>8, <2>9 DEF HlsTables
  <2>11. Served(viewer, entry', r)
    BY <1>3, <2>7 DEF Served, HlsInv, HlsRest
  <2> QED
    BY <1>2, <1>3, <1>7, <2>10, <2>11 DEF HlsInv, HlsRest, Served
<1>8. CASE /\ e[k][c] = NoEntry /\ present /\ Cardinality(RowsOf(r, k)) + rtmp[k] + remote < HlsCap
           /\ \E t \in Hls!NextSlot : /\ slotOf' = [r EXCEPT ![t] = [of |-> k, active |-> TRUE]]
                                      /\ entry' = [e EXCEPT ![k][c] = Hls!Fresh(t)]
  <2>1. PICK t \in Hls!NextSlot : /\ slotOf' = [r EXCEPT ![t] = [of |-> k, active |-> TRUE]]
                                  /\ entry' = [e EXCEPT ![k][c] = Hls!Fresh(t)]
    BY <1>8
  <2>2. t \in Slots /\ slotOf[t] = Hls!Unused
    BY DEF Hls!NextSlot
  <2>3. r[t].of = NoEntry
    BY <1>3, <2>2 DEF Hls!Unused
  <2>4. /\ e \in [HlsViewers -> [Clients -> {NoEntry} \cup [slot : Slots, stale : BOOLEAN]]]
        /\ r \in [Slots -> [of : HlsViewers \cup {NoEntry}, active : BOOLEAN]]
    BY <1>3 DEF HlsTables
  <2>5. DEFINE w == Hls!Fresh(t)
  <2>6. w \in [slot : Slots, stale : BOOLEAN] /\ w.slot = t /\ w # NoEntry
    <3>1. w = [slot |-> t, stale |-> FALSE]
      BY DEF Hls!Fresh
    <3> HIDE DEF w
    <3>2. w \in [slot : Slots, stale : BOOLEAN] /\ w.slot = t
      BY <2>2, <3>1
    <3> QED
      BY <3>2, HlsAssumption
  <2> HIDE DEF w
  <2>7. entry' = [e EXCEPT ![k] = [e[k] EXCEPT ![c] = w]]
    BY <2>1 DEF w
  <2>8. entry' \in [HlsViewers -> [Clients -> {NoEntry} \cup [slot : Slots, stale : BOOLEAN]]]
    BY <2>4, <2>6, <2>7
  <2>9. /\ entry'[k][c] = w
        /\ \A q \in HlsViewers, d \in Clients : <<q, d>> # <<k, c>> => entry'[q][d] = e[q][d]
    BY <2>4, <2>7
  <2>10. EntriesOf(entry') = EntriesOf(e) \cup {<<k, c>>}
    BY <2>6, <2>9 DEF EntriesOf
  <2>11. /\ SlotIn(entry', <<k, c>>) = t
         /\ \A x \in EntriesOf(e) : x # <<k, c>> /\ SlotIn(entry', x) = SlotIn(e, x)
    BY <1>8, <2>6, <2>9 DEF EntriesOf, SlotIn
  <2>12. \A x \in EntriesOf(e) : SlotIn(e, x) \in Slots /\ r[SlotIn(e, x)].of = x[1] /\ x[1] \in HlsViewers
    BY <1>3, <2>4 DEF EntriesOf, SlotIn, HlsTables
  <2>13. \A x \in EntriesOf(e) : SlotIn(e, x) # t
    BY <2>3, <2>12, HlsAssumption
  <2>14. /\ slotOf' \in [Slots -> [of : HlsViewers \cup {NoEntry}, active : BOOLEAN]]
         /\ slotOf'[t] = [of |-> k, active |-> TRUE]
         /\ \A u \in Slots : u # t => slotOf'[u] = r[u]
    BY <2>1, <2>2, <2>4
  <2>15. HlsTables(entry', slotOf')
    <3>1. \A x, y \in EntriesOf(entry') : SlotIn(entry', x) = SlotIn(entry', y) => x = y
      BY <1>3, <2>10, <2>11, <2>13 DEF HlsTables
    <3>2. \A x \in EntriesOf(entry') : slotOf'[SlotIn(entry', x)].of = x[1]
      BY <2>10, <2>11, <2>12, <2>13, <2>14
    <3>3. \A u \in Slots : slotOf'[u].active => \E x \in EntriesOf(entry') : SlotIn(entry', x) = u
      BY <1>3, <2>10, <2>11, <2>14 DEF HlsTables
    <3> QED
      BY <2>8, <2>14, <3>1, <3>2, <3>3 DEF HlsTables
  <2>16. ASSUME NEW q \in HlsViewers PROVE Cardinality(RowsOf(slotOf', q)) + rtmp[q] <= HlsCap
    <3>1. CASE q # k
      <4>1. RowsOf(slotOf', q) = RowsOf(r, q)
        <5>1. slotOf'[t].of = k /\ r[t].of # q
          BY <2>3, <2>14, HlsAssumption
        <5> QED
          BY <2>14, <3>1, <5>1 DEF RowsOf
      <4> QED
        BY <1>3, <4>1 DEF Within
    <3>2. CASE q = k
      <4>1. RowsOf(slotOf', k) = RowsOf(r, k) \cup {t} /\ t \notin RowsOf(r, k)
        <5>1. slotOf'[t].of = k /\ slotOf'[t].active /\ r[t].of # k
          BY <2>3, <2>14, HlsAssumption
        <5> QED
          BY <2>2, <2>14, <5>1 DEF RowsOf
      <4>2. Cardinality(RowsOf(slotOf', k)) = Cardinality(RowsOf(r, k)) + 1
        BY <4>1, RowsFinite, FS_AddElement
      <4>3. Cardinality(RowsOf(r, k)) \in Nat /\ rtmp[k] \in Nat /\ HlsCap \in Nat
        BY RowsFinite, HlsAssumption DEF HlsInv, HlsRest
      <4> QED
        BY <1>8, <3>2, <4>2, <4>3
    <3> QED
      BY <3>1, <3>2
  <2>17. ASSUME NEW q \in viewer, NEW d \in Clients, entry'[q][d] # NoEntry
         PROVE  slotOf'[entry'[q][d].slot].active
    <3>1. q \in HlsViewers
      BY DEF HlsInv, HlsRest
    <3>2. CASE <<q, d>> = <<k, c>>
      BY <2>6, <2>9, <2>14, <3>2
    <3>3. CASE <<q, d>> # <<k, c>>
      <4>1. entry'[q][d] = e[q][d]
        BY <2>9, <3>1, <3>3
      <4>2. <<q, d>> \in EntriesOf(e) /\ SlotIn(e, <<q, d>>) = e[q][d].slot
        BY <2>17, <3>1, <4>1 DEF EntriesOf, SlotIn
      <4>3. e[q][d].slot # t /\ e[q][d].slot \in Slots
        BY <2>12, <2>13, <4>2
      <4>4. r[e[q][d].slot].active
        BY <1>3, <2>17, <4>1 DEF Served
      <4> QED
        BY <2>14, <4>1, <4>3, <4>4
    <3> QED
      BY <3>2, <3>3
  <2> QED
    BY <1>2, <1>8, <2>15, <2>16, <2>17 DEF Within, Served
<1> QED
  BY <1>5, <1>6, <1>7, <1>8

\* The parts of the invariant, each about the new tables, make it up.
LEMMA HlsPrimed ==
    ASSUME HlsRest', HlsTables(entry', slotOf'), Within(slotOf', rtmp'), Served(viewer', entry', slotOf')
    PROVE  HlsInv'
  BY DEF HlsInv, HlsTables, Within, Served, EntriesOf, SlotIn, RowsOf

\* Every operation on the registry keeps its invariant.
LEMMA HlsStepInv == HlsInv /\ Hls!Next => HlsInv'
<1> SUFFICES ASSUME HlsInv, Hls!Next PROVE HlsInv'
  OBVIOUS
<1>1. ASSUME NEW k \in HlsViewers, NEW c \in Clients, Hls!Lookup(k, c) PROVE HlsInv'
  <2>1. HlsRest'
    BY <1>1 DEF Hls!Lookup, HlsInv, HlsRest
  <2> QED
    BY <1>1, <2>1, HlsPrimed DEF Hls!Lookup, HlsInv
<1>2. ASSUME NEW k \in HlsViewers, NEW c \in Clients, Hls!Age(k, c) PROVE HlsInv'
  <2>1. entry \in [HlsViewers -> [Clients -> {NoEntry} \cup [slot : Slots, stale : BOOLEAN]]]
    BY DEF HlsInv, HlsTables
  <2>2. entry[k][c] \in [slot : Slots, stale : BOOLEAN] /\ entry[k][c] # NoEntry
    BY <1>2, <2>1 DEF Hls!Age
  <2> DEFINE w == [entry[k][c] EXCEPT !.stale = TRUE]
  <2>3. w \in [slot : Slots, stale : BOOLEAN] /\ w.slot = entry[k][c].slot /\ w # NoEntry
    BY <2>2, HlsAssumption
  <2>4. entry' = [entry EXCEPT ![k] = [entry[k] EXCEPT ![c] = w]]
    BY <1>2 DEF Hls!Age
  <2> HIDE DEF w
  <2>5. entry' \in [HlsViewers -> [Clients -> {NoEntry} \cup [slot : Slots, stale : BOOLEAN]]]
    BY <2>1, <2>3, <2>4
  <2>6. \A q \in HlsViewers, d \in Clients :
          /\ entry'[q][d] # NoEntry <=> entry[q][d] # NoEntry
          /\ entry'[q][d] # NoEntry => entry'[q][d].slot = entry[q][d].slot
    <3> TAKE q \in HlsViewers, d \in Clients
    <3>1. entry'[q][d] = IF q = k /\ d = c THEN w ELSE entry[q][d]
      BY <2>1, <2>4
    <3> QED
      BY <2>2, <2>3, <3>1
  <2>7. EntriesOf(entry') = EntriesOf(entry)
    BY <2>6 DEF EntriesOf
  <2>8. \A x \in EntriesOf(entry) : SlotIn(entry', x) = SlotIn(entry, x)
    BY <2>6, <2>7 DEF EntriesOf, SlotIn
  <2>9. HlsTables(entry', slotOf)
    BY <2>5, <2>7, <2>8 DEF HlsInv, HlsTables
  <2>10. Served(viewer, entry', slotOf)
    BY <2>6 DEF HlsInv, HlsRest, Served
  <2>11. HlsRest'
    BY <1>2 DEF Hls!Age, HlsInv, HlsRest
  <2> QED
    BY <1>2, <2>9, <2>10, <2>11, HlsPrimed DEF Hls!Age, HlsInv
<1>3. ASSUME NEW k \in HlsViewers, NEW c \in Clients, NEW n \in 0 .. 1, Hls!Reserve(k, c, n) PROVE HlsInv'
  <2>1. UNCHANGED <<viewer, present, rtmp>> /\ Hls!reserve_or_renew(k, c, n) /\ looking' \subseteq looking
    BY <1>3 DEF Hls!Reserve
  <2>2. /\ HlsTables(entry', slotOf') /\ Within(slotOf', rtmp) /\ Served(viewer, entry', slotOf')
        /\ hlsFaults' \in 0 .. MaxHlsFaults
        /\ ~present => \A t \in Slots : ~slotOf'[t].active
    BY <2>1, ReserveKeeps
  <2>3. HlsRest'
    BY <2>1, <2>2 DEF HlsInv, HlsRest
  <2> QED
    BY <2>1, <2>2, <2>3, HlsPrimed DEF HlsInv
<1>4. CASE Hls!PurgeTick
  <2>1. PICK f \in Hls!Failures : /\ entry' = Hls!purge_stale(f).entry /\ slotOf' = Hls!purge_stale(f).slotOf
                                  /\ hlsFaults' = hlsFaults + Hls!Cardinality(f)
    BY <1>4 DEF Hls!PurgeTick
  <2>2. f \in SUBSET Hls!Expired /\ hlsFaults' \in 0 .. MaxHlsFaults
    BY <2>1, FaultsCounted
  <2>3. /\ HlsTables(entry', slotOf') /\ Within(slotOf', rtmp) /\ Served(viewer, entry', slotOf')
        /\ \A t \in Slots : slotOf'[t].active => slotOf[t].active
    BY <2>1, <2>2, PurgeKeeps
  <2>4. UNCHANGED <<viewer, present, rtmp, looking>>
    BY <1>4 DEF Hls!PurgeTick
  <2>5. HlsRest'
    BY <2>2, <2>3, <2>4 DEF HlsInv, HlsRest
  <2> QED
    BY <2>3, <2>4, <2>5, HlsPrimed DEF HlsInv
<1>5. ASSUME NEW k \in HlsViewers, Hls!RtmpJoin(k) PROVE HlsInv'
  <2>1. Hls!ActiveCount(k) = Cardinality(RowsOf(slotOf, k)) + rtmp[k]
    <3>1. Hls!Held(k) = RowsOf(slotOf, k)
      BY DEF Hls!Held, RowsOf
    <3> QED
      BY <3>1, HlsCardinality DEF Hls!ActiveCount
  <2>2. Cardinality(RowsOf(slotOf, k)) \in Nat /\ rtmp[k] \in Nat /\ HlsCap \in Nat
    BY RowsFinite, HlsAssumption DEF HlsInv, HlsRest
  <2>3. Cardinality(RowsOf(slotOf, k)) + (rtmp[k] + 1) <= HlsCap
    BY <1>5, <2>1, <2>2 DEF Hls!RtmpJoin
  <2>4. HlsRest'
    BY <1>5 DEF Hls!RtmpJoin, HlsInv, HlsRest
  <2>5. Within(slotOf, rtmp')
    BY <1>5, <2>3 DEF Hls!RtmpJoin, HlsInv, HlsRest, Within
  <2> QED
    BY <1>5, <2>4, <2>5, HlsPrimed DEF Hls!RtmpJoin, HlsInv
<1>6. ASSUME NEW k \in HlsViewers, Hls!RtmpLeave(k) PROVE HlsInv'
  <2>1. HlsRest'
    BY <1>6 DEF Hls!RtmpLeave, HlsInv, HlsRest
  <2>2. ASSUME NEW q \in HlsViewers PROVE Cardinality(RowsOf(slotOf, q)) + rtmp'[q] <= HlsCap
    <3>1. Cardinality(RowsOf(slotOf, q)) \in Nat /\ rtmp[q] \in Nat /\ HlsCap \in Nat
      BY RowsFinite, HlsAssumption DEF HlsInv, HlsRest
    <3>2. rtmp'[q] = rtmp[q] \/ rtmp'[q] = rtmp[q] - 1
      BY <1>6 DEF Hls!RtmpLeave, HlsInv, HlsRest
    <3>3. Cardinality(RowsOf(slotOf, q)) + rtmp[q] <= HlsCap
      BY DEF HlsInv, Within
    <3> QED
      BY <3>1, <3>2, <3>3
  <2>3. Within(slotOf, rtmp')
    BY <2>2 DEF Within
  <2> QED
    BY <1>6, <2>1, <2>3, HlsPrimed DEF Hls!RtmpLeave, HlsInv
<1>7. ASSUME NEW k \in HlsViewers, Hls!DeleteViewer(k) PROVE HlsInv'
  <2>1. slotOf \in [Slots -> [of : HlsViewers \cup {NoEntry}, active : BOOLEAN]]
    BY DEF HlsInv, HlsTables
  <2>2. /\ slotOf' \in [Slots -> [of : HlsViewers \cup {NoEntry}, active : BOOLEAN]]
        /\ \A t \in Slots : /\ slotOf'[t].of = slotOf[t].of
                            /\ slotOf'[t].active => slotOf[t].active
                            /\ slotOf[t].of # k => slotOf'[t] = slotOf[t]
    BY <1>7, <2>1 DEF Hls!DeleteViewer
  <2>3. /\ viewer' = viewer \ {k} /\ rtmp' = [rtmp EXCEPT ![k] = 0]
        /\ UNCHANGED <<present, entry, looking, hlsFaults>>
    BY <1>7 DEF Hls!DeleteViewer
  <2>4. \A x \in EntriesOf(entry) : SlotIn(entry, x) \in Slots
    BY DEF EntriesOf, SlotIn, HlsInv, HlsTables
  <2>5. HlsTables(entry, slotOf')
    BY <2>2, <2>4 DEF HlsInv, HlsTables
  <2>6. HlsRest'
    BY <2>2, <2>3 DEF HlsInv, HlsRest
  <2>7. ASSUME NEW q \in HlsViewers PROVE Cardinality(RowsOf(slotOf', q)) + rtmp'[q] <= HlsCap
    <3>1. Cardinality(RowsOf(slotOf', q)) <= Cardinality(RowsOf(slotOf, q))
      BY <2>2, FewerRows
    <3>2. /\ Cardinality(RowsOf(slotOf, q)) \in Nat /\ Cardinality(RowsOf(slotOf', q)) \in Nat
          /\ rtmp[q] \in Nat /\ HlsCap \in Nat
      BY RowsFinite, HlsAssumption DEF HlsInv, HlsRest
    <3>3. rtmp'[q] = rtmp[q] \/ rtmp'[q] = 0
      BY <2>3 DEF HlsInv, HlsRest
    <3>4. Cardinality(RowsOf(slotOf, q)) + rtmp[q] <= HlsCap
      BY DEF HlsInv, Within
    <3> QED
      BY <3>1, <3>2, <3>3, <3>4
  <2>8. ASSUME NEW q \in viewer', NEW d \in Clients, entry[q][d] # NoEntry PROVE slotOf'[entry[q][d].slot].active
    <3>1. q \in viewer /\ q # k /\ q \in HlsViewers
      BY <2>3 DEF HlsInv, HlsRest
    <3>2. <<q, d>> \in EntriesOf(entry) /\ SlotIn(entry, <<q, d>>) = entry[q][d].slot
      BY <2>8, <3>1 DEF EntriesOf, SlotIn
    <3>3. entry[q][d].slot \in Slots /\ slotOf[entry[q][d].slot].of = q
      BY <2>4, <3>2 DEF HlsInv, HlsTables
    <3>4. slotOf[entry[q][d].slot].active
      BY <2>8, <3>1 DEF HlsInv, Served
    <3> QED
      BY <2>2, <3>1, <3>3, <3>4
  <2> QED
    BY <2>3, <2>5, <2>6, <2>7, <2>8, HlsPrimed DEF Within, Served
<1>8. CASE Hls!DeleteStream
  <2>1. slotOf \in [Slots -> [of : HlsViewers \cup {NoEntry}, active : BOOLEAN]]
    BY DEF HlsInv, HlsTables
  <2>2. /\ slotOf' \in [Slots -> [of : HlsViewers \cup {NoEntry}, active : BOOLEAN]]
        /\ \A t \in Slots : slotOf'[t].of = slotOf[t].of /\ ~slotOf'[t].active
    BY <1>8, <2>1 DEF Hls!DeleteStream
  <2>3. /\ present' = FALSE /\ viewer' = {} /\ rtmp' = [q \in HlsViewers |-> 0]
        /\ UNCHANGED <<entry, looking, hlsFaults>>
    BY <1>8 DEF Hls!DeleteStream
  <2>4. \A x \in EntriesOf(entry) : SlotIn(entry, x) \in Slots
    BY DEF EntriesOf, SlotIn, HlsInv, HlsTables
  <2>5. HlsTables(entry, slotOf')
    BY <2>2, <2>4 DEF HlsInv, HlsTables
  <2>6. present' \in BOOLEAN
    BY <2>3, Zenon
  <2>7. HlsRest'
    BY <2>2, <2>3, <2>6 DEF HlsInv, HlsRest
  <2>8. ASSUME NEW q \in HlsViewers PROVE Cardinality(RowsOf(slotOf', q)) + rtmp'[q] <= HlsCap
    <3>1. RowsOf(slotOf', q) = {}
      BY <2>2 DEF RowsOf
    <3>2. Cardinality(RowsOf(slotOf', q)) = 0
      BY <3>1, FS_EmptySet
    <3> QED
      BY <2>3, <3>2, HlsAssumption
  <2> QED
    BY <2>3, <2>5, <2>7, <2>8, HlsPrimed DEF Within, Served
<1> QED
  BY <1>1, <1>2, <1>3, <1>4, <1>5, <1>6, <1>7, <1>8 DEF Hls!Next

-----------------------------------------------------------------------------
(* The theorems.                                                           *)
\* A step of another part leaves these variables, and so the invariants, as
\* they are.
LEMMA KeysQuiet == KeysInv /\ UNCHANGED keysPart => KeysInv'
  BY DEF keysPart, KeysInv, KeysType, Gone, Going, AskersMarked, SeenQuiet, ExpiredQuiet,
         Keys!NoRevokedViewer, Keys!KeysDistinct, Keys!SnapshotValid

\* The same for the traffic.
LEMMA StatsQuiet == StatsInv /\ UNCHANGED statsPart => StatsInv'
  BY DEF statsPart, StatsInv, StatsType, OwnOnly, Roles, Untouched, Latest, Reports, Stats!Used

\* The same for the ports.
LEMMA PortsQuiet == PortsInv /\ UNCHANGED portsPart => PortsInv'
<1> SUFFICES ASSUME PortsInv, UNCHANGED portsPart PROVE PortsInv'
  OBVIOUS
<1>1. PortsType' /\ OnWire' /\ Ports!AnswersTrue'
  BY DEF portsPart, PortsInv, PortsType, OnWire, Ports!AnswersTrue
<1>2. Ports!SlotsExact'
  <2>1. server' = server /\ UNCHANGED <<preauth, reserve, perIp, inflight, portBytes>>
    BY DEF portsPart
  <2>2. NReserve' = NReserve
    BY <2>1 DEF NReserve, Inside
  <2>3. \A p : NOpen(p)' = NOpen(p) /\ NBusy(p)' = NBusy(p) /\ NShared(p)' = NShared(p)
    BY <2>1 DEF NOpen, NBusy, NShared, Inside
  <2>4. \A p, ad : NFrom(p, ad)' = NFrom(p, ad)
    BY <2>1 DEF NFrom, Inside
  <2>5. \A k : NBytes(k)' = NBytes(k)
    BY <2>1 DEF NBytes, Inside, Ports!BytesOf
  <2>6. SlotsCounted'
    BY <2>1, <2>2, <2>3, <2>4, <2>5, SlotsExactCounted DEF PortsInv, SlotsCounted
  <2> QED
    BY <2>6, SlotsExactCounted, PTL
<1> QED
  BY <1>1, <1>2 DEF PortsInv

\* The same for the HLS clients.
LEMMA HlsQuiet == HlsInv /\ UNCHANGED hlsPart => HlsInv'
  BY DEF hlsPart, HlsInv, HlsRest, HlsTables, Within, Served, EntriesOf, SlotIn, RowsOf

\* Every step of the system is a step of one part or leaves the part alone.
LEMMA Parts ==
    ASSUME [TablesNext]_TablesVars
    PROVE  /\ Hls!Next \/ UNCHANGED hlsPart
           /\ Keys!Next \/ UNCHANGED keysPart
           /\ Stats!Next \/ UNCHANGED statsPart
           /\ (\E c \in Conns : Ports!Step(c)) \/ UNCHANGED portsPart
<1>1. CASE PortsStep
  <2>1. PartConns[part] \subseteq Conns
    BY <1>1, PortsAssumption DEF PortsStep
  <2> QED
    BY <1>1, <2>1 DEF PortsStep
<1>2. CASE LogStep \/ HlsStep \/ KeysStep \/ StatsStep
  BY <1>2 DEF LogStep, HlsStep, KeysStep, StatsStep
<1>3. CASE UNCHANGED TablesVars
  BY <1>3 DEF TablesVars
<1> QED
  BY <1>1, <1>2, <1>3 DEF TablesNext

\* A viewer whose key has been deleted is not still playing once the markers
\* of the deletion are gone, and no two viewers share a key: for any number
\* of viewers, players and poll shards and however old the snapshot is that
\* admission reads (try_fast_authorize_play, prune_markers).
THEOREM RevocationAlways == TablesSpec => []RevocationHolds
<1>1. TablesInit => KeysInv
  BY KeysInit DEF TablesInit
<1>2. KeysInv /\ [TablesNext]_TablesVars => KeysInv'
  BY Parts, KeysStepInv, KeysQuiet
<1>3. KeysInv => RevocationHolds
  BY DEF KeysInv, RevocationHolds
<1> QED
  BY <1>1, <1>2, <1>3, PTL DEF TablesSpec

\* Each session is charged with its own bytes only, and a report that a
\* failed flush took with it is not forgotten: for any number of sessions and
\* of bytes (update_player_stats, flush_pending_stats, requeue_pending_stats).
THEOREM TrafficAlways == TablesSpec => []TrafficCharged
<1>1. TablesInit => StatsInv
  BY StatsInit DEF TablesInit
<1>2. StatsInv /\ [TablesNext]_TablesVars => StatsInv'
  BY Parts, StatsStepInv, StatsQuiet
<1>3. StatsInv => TrafficCharged
  <2> SUFFICES ASSUME StatsInv PROVE Stats!OwnBytes /\ Stats!ReportKept
    BY DEF TrafficCharged
  <2>1. Stats!OwnBytes
    BY DEF StatsInv, StatsType, OwnOnly, Stats!OwnBytes
  <2>2. Stats!ReportKept
    BY StatsAssumption DEF StatsInv, StatsType, Reports, Latest, Stats!ReportKept, Stats!ConnFree, Stats!NoQueue, Stats!None
  <2> QED
    BY <2>1, <2>2
<1> QED
  BY <1>1, <1>2, <1>3, PTL DEF TablesSpec

\* No way a connection can end leaks a slot or a reserved byte, and a write
\* whose caller was told it was not sent never takes effect: for any number of
\* connections, addresses, members and limits (network.rs, security.rs).
THEOREM ControlAlways == TablesSpec => []ControlHolds
<1>1. TablesInit => PortsInv
  BY PortsInit DEF TablesInit
<1>2. PortsInv /\ [TablesNext]_TablesVars => PortsInv'
  BY Parts, PortsStepInv, PortsQuiet
<1>3. PortsInv => ControlHolds
  BY DEF PortsInv, ControlHolds
<1> QED
  BY <1>1, <1>2, <1>3, PTL DEF TablesSpec

\* No slot of a play key is lost to an HLS client that stopped asking, no key
\* has more sessions than its cap, and a client that is served holds a slot:
\* for any number of viewers, clients and slots and any failing releases
\* (HlsSessionRegistry).
THEOREM HlsSlotsAlways == TablesSpec => []HlsSlotsFound
<1>1. TablesInit => HlsInv
  BY HlsInit DEF TablesInit
<1>2. HlsInv /\ [TablesNext]_TablesVars => HlsInv'
  BY Parts, HlsStepInv, HlsQuiet
<1>3. HlsInv => HlsSlotsFound
  BY HlsGives DEF HlsSlotsFound
<1> QED
  BY <1>1, <1>2, <1>3, PTL DEF TablesSpec
=============================================================================
