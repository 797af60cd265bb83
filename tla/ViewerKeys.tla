----------------------------- MODULE ViewerKeys -----------------------------
(***************************************************************************)
(* The play keys of one stream: creating and revoking them over HTTP, the  *)
(* in-memory key snapshot that the RTMP threads authorize from, the        *)
(* sessions that play with a key, and the revoked_viewers markers by which *)
(* the poll threads find the sessions of a key that is gone.               *)
(*                                                                         *)
(* A viewer is a row of stream_viewers; two viewers of different times may *)
(* have the same play key.  Each step holds one lock: the SQLite           *)
(* connection, the snapshot, the connection map or the markers.            *)
(***************************************************************************)
EXTENDS Naturals, FiniteSets

CONSTANTS Viewers,       \* viewer ids
          KeyOf,         \* the play key of each viewer
          DefaultViewer, \* the viewer that carries streams.play_key
          Players,       \* RTMP connections
          ShardOf,       \* the poll thread of each connection
          MaxGeneration, \* bound on auth_generation
          Nobody         \* no viewer

VARIABLES rows,        \* stream_viewers
          used,        \* ids that were given to a viewer
          generation,  \* auth_generation
          snapshot,    \* access_keys: [gen, rows]
          session,     \* viewer a connection plays with
          asking,      \* authorization in flight: the viewer it has read
          unwritten,   \* fast admissions whose row is not written yet
          forceClose,  \* pending_force_close
          creating,    \* POST handlers past their checks
          deleting,    \* DELETE handlers: checked, or deleted but not marked
          effects,     \* RevokeViewer effects of the Raft apply, not polled
          revoked,     \* revoked_viewers
          expired,     \* the markers older than REVOKED_VIEWER_GRACE_MS
          seen         \* poll threads that ticked since the marker, no play pending

keyVars == <<rows, used, generation, snapshot, session, asking, unwritten, forceClose,
             creating, deleting, effects, revoked, expired, seen>>

Shards == {ShardOf[c] : c \in Players}
KeyRows(k) == {v \in rows : KeyOf[v] = k}

Init ==
  /\ rows = {DefaultViewer} /\ used = {DefaultViewer}
  /\ generation = 0
  /\ snapshot = [gen |-> 0, rows |-> rows]
  /\ session = [c \in Players |-> Nobody]
  /\ asking = [c \in Players |-> Nobody]
  /\ unwritten = {} /\ forceClose = {}
  /\ creating = {} /\ deleting = [checked |-> {}, deleted |-> {}]
  /\ effects = {} /\ revoked = {} /\ expired = {}
  /\ seen = [v \in Viewers |-> {}]

table == <<rows, used, generation>>
plays == <<session, asking, unwritten, forceClose>>
markers == <<effects, revoked, expired, seen>>
requests == <<creating, deleting>>

\* Every write to stream_viewers bumps the generation (the update hook).
Write(to) ==
  /\ generation < MaxGeneration
  /\ rows' = to /\ generation' = generation + 1

-----------------------------------------------------------------------------
(* POST /streams/{id}/players                                              *)

\* The checks of handle_stream_player_create: the key is not in use.
CreateChecked(v) ==
  /\ v \notin used /\ v \notin creating /\ KeyRows(KeyOf[v]) = {}
  /\ creating' = creating \cup {v}
  /\ UNCHANGED <<table, snapshot, plays, markers, deleting>>

\* viewer_add looks again, under the connection.
KeyIsFree(v) == KeyRows(KeyOf[v]) = {}

viewer_add(v) ==
  /\ v \in creating
  /\ creating' = creating \ {v}
  /\ \/ /\ KeyIsFree(v)
        /\ Write(rows \cup {v}) /\ used' = used \cup {v}
     \/ ~KeyIsFree(v) /\ UNCHANGED table          \* Duplicate
     \/ UNCHANGED table                           \* Conflict, or SQLite fails
  /\ UNCHANGED <<snapshot, plays, markers, deleting>>

-----------------------------------------------------------------------------
(* DELETE /streams/{id}/players/{player_id}                                *)

DeleteChecked(v) ==
  /\ v \in rows /\ v # DefaultViewer /\ Cardinality(rows) > 1
  /\ v \notin deleting.checked
  /\ deleting' = [deleting EXCEPT !.checked = @ \cup {v}]
  /\ UNCHANGED <<table, snapshot, plays, markers, creating>>

Checked(v) == v \in deleting.checked
NotChecked(v) == [deleting EXCEPT !.checked = @ \ {v}]

\* Standalone: the count and the delete under one lock.
viewer_delete_if_not_last(v) ==
  /\ Checked(v)
  /\ \/ /\ v \in rows /\ Cardinality(rows) > 1
        /\ Write(rows \ {v})
        /\ deleting' = [checked |-> deleting.checked \ {v}, deleted |-> deleting.deleted \cup {v}]
     \/ /\ deleting' = NotChecked(v)              \* NotFound, LastRemaining, DbError
        /\ UNCHANGED <<rows, generation>>
  /\ UNCHANGED <<used, snapshot, plays, markers, creating>>

Mark(v) ==
  /\ revoked' = revoked \cup {v}
  /\ expired' = expired \ {v}
  /\ seen' = [seen EXCEPT ![v] = {}]

\* The rest of the handler: the marker, then the rows are deactivated.
DeleteMarks(v) ==
  /\ v \in deleting.deleted
  /\ deleting' = [deleting EXCEPT !.deleted = @ \ {v}]
  /\ Mark(v)
  /\ UNCHANGED <<table, snapshot, plays, effects, creating>>

\* A cluster node: the command is applied, the effect is polled later.
ApplyDeleteViewer(v) ==
  /\ v \in rows /\ v # DefaultViewer /\ Cardinality(rows) > 1
  /\ Write(rows \ {v})
  /\ effects' = effects \cup {v}
  /\ UNCHANGED <<used, snapshot, plays, revoked, expired, seen, requests>>

poll_side_effects(v) ==
  /\ v \in effects /\ effects' = effects \ {v}
  /\ Mark(v)
  /\ UNCHANGED <<table, snapshot, plays, requests>>

\* RevokeViewer of a peer; it is ignored while the viewer exists.
RevokeHint(v) ==
  /\ v \in used \ rows
  /\ Mark(v)
  /\ UNCHANGED <<table, snapshot, plays, effects, requests>>

-----------------------------------------------------------------------------
(* Authorization                                                           *)

SnapshotValid == snapshot.gen = generation

\* The generation is taken under the connection, before the query.
refresh_key_cache ==
  /\ ~SnapshotValid
  /\ snapshot' = [gen |-> generation, rows |-> rows]
  /\ UNCHANGED <<table, plays, markers, requests>>

\* What a connection's request reads: the snapshot, or the tables.
Ask(c) ==
  /\ session[c] = Nobody /\ asking[c] = Nobody /\ c \notin forceClose
  /\ \/ SnapshotValid /\ \E v \in snapshot.rows : asking' = [asking EXCEPT ![c] = v]
     \/ \E v \in rows : asking' = [asking EXCEPT ![c] = v]
  /\ UNCHANGED <<table, snapshot, session, unwritten, forceClose, markers, requests>>

Answered(c) == asking' = [asking EXCEPT ![c] = Nobody]
Play(c, v) == session' = [session EXCEPT ![c] = v]

\* The fast path installs the session and queues its row, or takes it back.
try_fast_authorize_play(c) ==
  /\ asking[c] # Nobody
  /\ Answered(c)
  /\ \/ Play(c, asking[c]) /\ unwritten' = unwritten \cup {c}
     \/ UNCHANGED <<session, unwritten>>          \* cancel_fast_play, or the worker denies
  /\ UNCHANGED <<table, snapshot, forceClose, markers, requests>>

\* The worker installs the session with its row already written.
try_authorize_play(c) ==
  /\ asking[c] # Nobody
  /\ Answered(c) /\ Play(c, asking[c])
  /\ UNCHANGED <<table, snapshot, unwritten, forceClose, markers, requests>>

\* A row that cannot be written closes the connection; one whose session
\* was dropped meanwhile is deactivated at once.
persist_fast_play(c) ==
  /\ c \in unwritten
  /\ unwritten' = unwritten \ {c}
  /\ \/ UNCHANGED <<session, forceClose>>
     \/ Play(c, Nobody) /\ forceClose' = forceClose \cup {c}
  /\ UNCHANGED <<table, snapshot, asking, markers, requests>>

release_player(c) ==
  /\ session[c] # Nobody
  /\ Play(c, Nobody)
  /\ UNCHANGED <<table, snapshot, asking, unwritten, forceClose, markers, requests>>

-----------------------------------------------------------------------------
(* The poll threads                                                        *)

Waiting(v) == {c \in Players : asking[c] = v}

\* A tick closes the thread's connections that play with a marked viewer.
Tick(s) ==
  LET mine == {c \in Players : ShardOf[c] = s}
      kicked == {c \in mine : session[c] \in revoked} \cup (forceClose \cap mine)
  IN
  /\ session' = [c \in Players |-> IF c \in kicked THEN Nobody ELSE session[c]]
  /\ forceClose' = forceClose \ kicked
  /\ seen' = [v \in Viewers |->
                IF v \in revoked /\ Waiting(v) = {} THEN seen[v] \cup {s} ELSE seen[v]]
  /\ UNCHANGED <<table, snapshot, asking, unwritten, effects, revoked, expired, requests>>

\* REVOKED_VIEWER_GRACE_MS is far longer than an authorization and a tick:
\* when it ends, each thread has ticked after the last of them.
GraceEnds(v) ==
  /\ v \in revoked \ expired /\ seen[v] = Shards /\ Waiting(v) = {}
  /\ expired' = expired \cup {v}
  /\ UNCHANGED <<table, snapshot, plays, effects, revoked, seen, requests>>

\* Mutant: the marker goes as soon as the thread has no session for it.
prune_ungraced(s) ==
  {v \in revoked : ~\E c \in Players : ShardOf[c] = s /\ session[c] = v}

\* The markers one thread may drop; it looks at its own connections.
Prunable(s) ==
  {v \in expired : ~\E c \in Players : ShardOf[c] = s /\ session[c] = v}

prune_markers(s) ==
  /\ Prunable(s) # {}
  /\ revoked' = revoked \ Prunable(s)
  /\ expired' = expired \ Prunable(s)
  /\ UNCHANGED <<table, snapshot, plays, effects, seen, requests>>

Next ==
  \/ refresh_key_cache
  \/ \E v \in Viewers :
        \/ CreateChecked(v) \/ viewer_add(v)
        \/ DeleteChecked(v) \/ viewer_delete_if_not_last(v) \/ DeleteMarks(v)
        \/ ApplyDeleteViewer(v) \/ poll_side_effects(v) \/ RevokeHint(v)
        \/ GraceEnds(v)
  \/ \E c \in Players :
        \/ Ask(c) \/ try_fast_authorize_play(c) \/ try_authorize_play(c)
        \/ persist_fast_play(c) \/ release_player(c)
  \/ \E s \in Shards : Tick(s) \/ prune_markers(s)

-----------------------------------------------------------------------------
TypeOK ==
  /\ rows \subseteq used /\ used \subseteq Viewers /\ DefaultViewer \in rows
  /\ generation \in 0..MaxGeneration /\ snapshot.gen \in 0..generation
  /\ session \in [Players -> Viewers \cup {Nobody}]
  /\ asking \in [Players -> Viewers \cup {Nobody}]
  /\ expired \subseteq revoked /\ revoked \cap rows = {}

\* A session whose play key was revoked is on its way out: the marker that
\* makes the poll thread close it is set or about to be set, and is not
\* pruned before every thread has acted on it (revoked_viewers, server.rs).
NoRevokedViewer ==
  \A c \in Players : session[c] \in Viewers \ rows =>
     session[c] \in revoked \cup effects \cup deleting.deleted

\* Two requests that both found a play key free do not both get it, and a
\* snapshot that is still used names exactly the viewers of the tables.
KeysDistinct ==
  /\ \A v, w \in rows : KeyOf[v] = KeyOf[w] => v = w
  /\ SnapshotValid => snapshot.rows = rows
=============================================================================
