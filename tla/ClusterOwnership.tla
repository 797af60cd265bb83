--------------------------- MODULE ClusterOwnership ---------------------------
(***************************************************************************)
(* Who may feed one live stream of the cluster: the stream_owners row that *)
(* Raft replicates, and everything on a node that acquires, releases,      *)
(* copies and repairs it: ClusterManager (cluster/manager.rs), the         *)
(* OwnershipTracker (cluster/media/ownership.rs), the ownership_epochs of  *)
(* the bridge (rtmp_bridge.rs) and the DOWN sweep (cluster/health.rs).     *)
(*                                                                         *)
(* Streams do not interact, so there is one.  Nodes interact through the   *)
(* log only, so there is one in full, Me, and the others are Other: they   *)
(* may acquire a free stream and release what they own at any time.        *)
(* Consensus is OpenRaft's: one sequence of committed entries, the node a  *)
(* prefix of it behind.  An entry that changes nothing is answered and not *)
(* given an index.  acquired_at is in seconds; here every acquire has a    *)
(* second of its own.                                                      *)
(*                                                                         *)
(* A node has four threads that block on writes: the authorization worker, *)
(* the RTMP poll loop, the health loop and the cleanup task of a restart.  *)
(***************************************************************************)
EXTENDS Naturals, Sequences, FiniteSets

CONSTANTS
    Me, Other, NoNode,
    Conns, NoConn, \* publisher connections of Me; an id is never used again
    Faults,        \* which of FaultKinds happen
    MaxTries,      \* bound on the publishes; recovery may acquire once more
    MaxOther,      \* bound on the acquires of Other
    MaxFails,      \* bound on the writes and reads that fail
    MaxShocks      \* bound on the partitions and crashes

FaultKinds == {"timeout", "unsent", "cut", "crash", "age", "read"}

ASSUME OwnershipAssumption ==
    /\ NoNode \notin {Me, Other} /\ Me # Other /\ NoConn \notin Conns
    /\ Faults \subseteq FaultKinds
    /\ {MaxTries, MaxOther, MaxFails, MaxShocks} \subseteq Nat

Threads == {"worker", "poll", "health", "cleanup"}
Nodes == {Me, Other}

VARIABLES
    rows,       \* rows[k]: the stream_owners row after entry k
    flight,     \* writes whose caller gave up and which may still commit
    applied,    \* how much of rows the database of Me has
    tracker,    \* OwnershipTracker.owners
    call,       \* per thread, the write it is blocked on
    up, cut, local, \* process runs; unreachable; HealthTracker.local
    sweep,      \* the leader's release of what Me owns while it is DOWN
    retry,      \* recovery_retry_pending
    role,       \* per connection: idle, live (ConnState.publisher), closed
    session,    \* per connection, how many sessions it has had
    row,        \* per connection: its publishers row is active
    epochs,     \* per connection, ownership_epochs (0: no entry)
    marked,     \* the stream is in deleted_streams
    recheck,    \* pending_publisher_checks has the stream
    ambiguous,  \* acquired_at of pending_ambiguous_acquires
    pending,    \* epochs in pending_ownership_releases
    stale,      \* epochs in pending_stream_cleanups
    tries, others, fails, shocks, \* acquires and faults so far
    strands     \* history: events after which nobody may watch a grant

cluster == <<rows, flight, applied>>
health == <<up, cut, local, sweep, retry>>
bridge == <<role, session, row, epochs>>
marks == <<marked, recheck>>
queues == <<ambiguous, pending, stale>>
counts == <<tries, others, fails, shocks>>
vars == <<cluster, tracker, call, health, bridge, marks, queues, counts, strands>>

NoOwner == [node |-> NoNode, epoch |-> 0, at |-> 0]
Unknown == [node |-> NoNode, epoch |-> 0]
Row == IF rows = <<>> THEN NoOwner ELSE rows[Len(rows)]
DbRow == IF applied = 0 THEN NoOwner ELSE rows[applied]
View(r) == [node |-> r.node, epoch |-> r.epoch]
Publishing == \E c \in Conns : row[c]

Idle == [st |-> "idle"]
IsIdle(t) == up /\ call[t].st = "idle"
Fault(kind) == kind \in Faults /\ fails < MaxFails /\ fails' = fails + 1
Shock(kind) == kind \in Faults /\ shocks < MaxShocks /\ shocks' = shocks + 1
Blocked(t, why) == up /\ call[t].st # "idle" /\ call[t].why = why

-----------------------------------------------------------------------------
(* Commands, and the writes that carry them. *)

Acquire(n, at) == [op |-> "acquire", node |-> n, at |-> at]
Release(e) == [op |-> "release", epoch |-> e]
ReleaseNode(max) == [op |-> "release_node", max |-> max]

\* Mutant: an acquire replaces whatever row there is.
acquire_never_refused(c) == FALSE

Refused(c) == c.op = "acquire" /\ Row.node \notin {NoNode, c.node}

\* stream_owner_acquire, stream_owner_release, stream_owners_release_for_node
After(c, k) ==
    CASE c.op = "acquire" /\ ~Refused(c) ->
            [node |-> c.node, epoch |-> k, at |-> c.at]
      [] c.op = "release" /\ Row.epoch = c.epoch -> NoOwner
      [] c.op = "release_node" /\ Row.node = Me /\ Row.epoch <= c.max -> NoOwner
      [] OTHER -> Row

Append1(c) ==
    LET r == After(c, Len(rows) + 1)
    IN  rows' = IF r = Row THEN rows ELSE Append(rows, r)

\* A thread starts a write and blocks on it (block_on_write_outcome).
Dispatch(t, why, c, cmd) ==
    call' = [call EXCEPT ![t] =
        [st |-> "sent", why |-> why, conn |-> c, cmd |-> cmd, index |-> 0,
         session |-> IF c = NoConn THEN 0 ELSE session[c],
         held |-> c # NoConn /\ role[c] = "live"]]

\* The write commits and its answer is on the way to the caller.
Commit(t) ==
    /\ up /\ ~cut /\ call[t].st = "sent"
    /\ Append1(call[t].cmd)
    /\ call' = [call EXCEPT ![t].st = "answered", ![t].index =
                     IF Refused(call[t].cmd) THEN 0 ELSE Len(rows) + 1]
    /\ UNCHANGED <<flight, applied, tracker, health, bridge, marks, queues, counts, strands>>

\* Undispatched: no leader, no token, connect or handshake failed.
FailUnsent(t) ==
    /\ up /\ call[t].st = "sent" /\ ((cut /\ UNCHANGED fails) \/ Fault("unsent"))
    /\ call' = [call EXCEPT ![t].st = "unsent"]
    /\ UNCHANGED <<cluster, tracker, health, bridge, marks, queues, tries, others, shocks, strands>>

\* Dispatched: the caller gives up, the write may be lost or commit later.
FailDispatched(t) ==
    /\ up /\ call[t].st = "sent" /\ Fault("timeout")
    /\ call' = [call EXCEPT ![t].st = "failed"]
    /\ \E f \in {flight, flight \cup {call[t].cmd}} : flight' = f
    /\ UNCHANGED <<rows, applied, tracker, health, bridge, marks, queues, tries, others, shocks, strands>>

CommitLate(c) ==
    /\ Append1(c)
    /\ flight' = flight \ {c}
    /\ UNCHANGED <<applied, tracker, call, health, bridge, marks, queues, counts, strands>>

\* The node's database applies the next entry.
ApplyEntry ==
    /\ up /\ ~cut /\ applied < Len(rows)
    /\ applied' = applied + 1
    /\ UNCHANGED <<rows, flight, tracker, call, health, bridge, marks, queues, counts, strands>>

\* Another node acquires the stream or releases it.
OtherAcquires ==
    /\ others < MaxOther /\ ~Refused(Acquire(Other, 0))
    /\ Append1(Acquire(Other, 0))
    /\ others' = others + 1
    /\ UNCHANGED <<flight, applied, tracker, call, health, bridge, marks, queues, tries, fails, shocks, strands>>

OtherReleases ==
    /\ Row.node = Other
    /\ Append1(Release(Row.epoch))
    /\ UNCHANGED <<flight, applied, tracker, call, health, bridge, marks, queues, counts, strands>>

Ok(t) == call[t].st = "answered"
Failed(t) == call[t].st \in {"unsent", "failed"}
GrantTo(t) == Ok(t) /\ call[t].index # 0
Resume(t) == call' = [call EXCEPT ![t] = Idle]

\* OwnershipTracker::clear_if_epoch, after a release that succeeded.
ClearIfReleased(t) ==
    tracker' = IF Ok(t) /\ tracker.epoch = call[t].cmd.epoch THEN Unknown ELSE tracker

Strand(yes, event) == strands' = IF yes THEN strands \cup {event} ELSE strands

-----------------------------------------------------------------------------
(* The worker: publishing and closing. *)

\* try_authorize_publish up to the write of acquire_stream_owner.  A second
\* publish on a connection replaces its own row.
AuthorizePublish(c) ==
    /\ IsIdle("worker") /\ role[c] # "closed" /\ ~marked
    /\ local # "isolated" /\ tries < MaxTries
    /\ \A d \in Conns \ {c} : ~row[d]
    /\ Dispatch("worker", "publish", c, Acquire(Me, tries + 1))
    /\ tries' = tries + 1
    /\ row' = [row EXCEPT ![c] = TRUE]
    /\ UNCHANGED <<cluster, tracker, health, role, session, epochs, marks, queues, others, fails, shocks, strands>>

\* The grant is entered in the tracker; the worker goes on to the bridge.
AcquireGranted ==
    /\ Blocked("worker", "publish") /\ GrantTo("worker")
    /\ tracker' = View(rows[call["worker"].index])
    /\ call' = [call EXCEPT !["worker"].st = "granted"]
    /\ UNCHANGED <<cluster, health, bridge, marks, queues, counts, strands>>

\* A publish and a recovery of one node acquire at once, and the older grant
\* overwrites the newer one.
InstallPublisher ==
    /\ Blocked("worker", "publish") /\ call["worker"].st = "granted"
    /\ LET c == call["worker"].conn IN
        /\ epochs' = [epochs EXCEPT ![c] = call["worker"].index]
        /\ role' = [role EXCEPT ![c] = "live"]
        /\ session' = [session EXCEPT ![c] = @ + 1]
        /\ Strand(epochs[c] > call["worker"].index, "acquires crossed")
    /\ Resume("worker")
    /\ UNCHANGED <<cluster, tracker, health, row, marks, queues, counts>>

\* queue_ambiguous_acquire, for a write that may still commit.
QueueAmbiguous(w) ==
    ambiguous' = IF w.st = "failed" THEN ambiguous \cup {w.cmd.at} ELSE ambiguous

\* The acquire was refused or failed: the new row goes, a prior one is put
\* back; a write that may still commit is remembered.
RejectPublish ==
    LET w == call["worker"] IN
    /\ Blocked("worker", "publish")
    /\ Failed("worker") \/ (Ok("worker") /\ ~GrantTo("worker"))
    /\ row' = [row EXCEPT ![w.conn] = w.held]
    /\ QueueAmbiguous(w)
    /\ Resume("worker")
    /\ UNCHANGED <<cluster, tracker, health, role, session, epochs, marks, pending, stale, counts, strands>>

\* on_close: the connection and its row go, then the ownership is released.
CloseConn(c) ==
    /\ IsIdle("worker") /\ role[c] # "closed"
    /\ role' = [role EXCEPT ![c] = "closed"]
    /\ row' = [row EXCEPT ![c] = FALSE]
    /\ IF epochs[c] = 0 THEN UNCHANGED call
       ELSE Dispatch("worker", "release", c, Release(epochs[c]))
    /\ UNCHANGED <<cluster, tracker, health, session, epochs, marks, queues, counts, strands>>

\* release_publisher: the row first, then the ownership of this stream.
ReleasePublisher(t, c) ==
    /\ row' = [row EXCEPT ![c] = FALSE]
    /\ Dispatch(t, "release", c, Release(epochs[c]))

\* The poll loop visits a connection that stopped publishing, or one whose
\* stream is marked.  Without an entry in ownership_epochs there is nothing to
\* release.
PollReleases(c) ==
    /\ IsIdle("poll") /\ role[c] = "live"
    /\ IF epochs[c] # 0 THEN ReleasePublisher("poll", c) /\ UNCHANGED role
       ELSE /\ row' = [row EXCEPT ![c] = FALSE]
            /\ role' = [role EXCEPT ![c] = "idle"]
            /\ UNCHANGED call
    /\ UNCHANGED <<cluster, tracker, health, session, epochs, marks, queues, counts, strands>>

\* Whose publisher a returned release clears: only the session it was for.
ClearedRole(w) ==
    IF role[w.conn] = "live" /\ session[w.conn] = w.session
    THEN [role EXCEPT ![w.conn] = "idle"] ELSE role

\* Mutant: a failed release is only logged.
release_forgotten(t) == pending' = pending

\* A release that failed is kept for the poll loop.
KeepRelease(t) ==
    pending' = IF Ok(t) THEN pending ELSE pending \cup {call[t].cmd.epoch}

\* try_release_ownership_for_conn returns: the entry of the connection goes
\* whatever it holds by now.  A kick (health) marks the stream afterwards.
ReleaseReturns(t) ==
    LET w == call[t] IN
    /\ Blocked(t, "release") /\ (Ok(t) \/ Failed(t))
    /\ epochs' = [epochs EXCEPT ![w.conn] = 0]
    /\ ClearIfReleased(t)
    /\ KeepRelease(t)
    /\ role' = ClearedRole(w)
    /\ marked' = (marked \/ t = "health")
    /\ Strand(epochs[w.conn] # w.cmd.epoch, "replaced entry removed")
    /\ Resume(t)
    /\ UNCHANGED <<cluster, health, session, row, recheck, ambiguous, stale, counts>>

\* retry_pending_ownership_releases
RetryRelease ==
    /\ IsIdle("poll")
    /\ \E e \in pending :
        /\ Dispatch("poll", "again", NoConn, Release(e))
        /\ pending' = pending \ {e}
    /\ UNCHANGED <<cluster, tracker, health, bridge, marks, ambiguous, stale, counts, strands>>

RetryReturns ==
    /\ Blocked("poll", "again") /\ (Ok("poll") \/ Failed("poll"))
    /\ ClearIfReleased("poll")
    /\ KeepRelease("poll")
    /\ Resume("poll")
    /\ UNCHANGED <<cluster, health, bridge, marks, ambiguous, stale, counts, strands>>

\* prune_markers_if_due: no session of the stream is left.
PruneMarker ==
    /\ up /\ marked /\ \A c \in Conns : role[c] # "live"
    /\ marked' = FALSE
    /\ UNCHANGED <<cluster, tracker, call, health, bridge, recheck, queues, counts, strands>>

-----------------------------------------------------------------------------
(* The copy of the row: sync_ownership_from_db. *)

\* force_unpublish_and_drain.  Only a connection whose publisher is installed
\* is taken off; the marker that is set last catches any other.
Kick(t) ==
    LET kicked == {c \in Conns : role[c] = "live"} IN
    IF \E c \in kicked : epochs[c] # 0
    THEN /\ \E c \in kicked : epochs[c] # 0 /\ ReleasePublisher(t, c)
         /\ UNCHANGED <<role, marked>>
    ELSE /\ row' = [c \in Conns |-> row[c] /\ c \notin kicked]
         /\ role' = [c \in Conns |-> IF c \in kicked THEN "idle" ELSE role[c]]
         /\ marked' = TRUE
         /\ Resume(t)

\* What the sync looks at: the row changed and is not this node's.
LostStream == View(DbRow) # tracker /\ DbRow.node # Me

\* The tracker becomes the node's own row.  A change that leaves the stream to
\* somebody else takes a local publisher off; if the publishers cannot be
\* read the stream is remembered.  The poll loop syncs on the effect of any
\* stream, the health loop on every tick.
SyncOwnership(t) ==
    /\ IsIdle(t)
    /\ tracker' = View(DbRow)
    /\ \/ /\ LostStream /\ Publishing /\ Kick(t) /\ UNCHANGED recheck
          /\ UNCHANGED fails
       \/ /\ LostStream /\ Fault("read")
          /\ recheck' = TRUE
          /\ UNCHANGED <<call, role, row, marked>>
       \/ /\ ~(LostStream /\ Publishing)
          /\ UNCHANGED <<call, role, row, marked, recheck, fails>>
    /\ UNCHANGED <<cluster, health, session, epochs, queues, tries, others, shocks, strands>>

\* retry_pending_publisher_checks, when the read succeeds.
RetryPublisherCheck ==
    /\ IsIdle("health") /\ recheck
    /\ recheck' = FALSE
    /\ IF tracker.node # Me /\ Publishing THEN Kick("health")
       ELSE UNCHANGED <<call, role, row, marked>>
    /\ UNCHANGED <<cluster, tracker, health, session, epochs, queues, counts, strands>>

-----------------------------------------------------------------------------
(* Writes whose outcome is not known: reconcile_ambiguous_acquires. *)

\* The row is not of this write: taken to have lost, or been superseded.
DropSuperseded ==
    /\ IsIdle("health") /\ DbRow # NoOwner
    /\ \E at \in ambiguous :
        /\ DbRow.node # Me \/ DbRow.at # at
        /\ ambiguous' = ambiguous \ {at}
        /\ Strand(\/ Acquire(Me, at) \in flight
                  \/ \E k \in DOMAIN rows : k > applied /\ rows[k].node = Me /\ rows[k].at = at,
                  "open acquire dropped")
    /\ UNCHANGED <<cluster, tracker, call, health, bridge, marks, pending, stale, counts>>

\* requeue_ambiguous_acquire after AMBIGUOUS_ACQUIRE_MAX_AGE.
DropAged ==
    /\ IsIdle("health") /\ "age" \in Faults
    /\ DbRow = NoOwner \/ Publishing
    /\ \E at \in ambiguous : ambiguous' = ambiguous \ {at}
    /\ Strand(TRUE, "open acquire aged")
    /\ UNCHANGED <<cluster, tracker, call, health, bridge, marks, pending, stale, counts>>

ReleaseUnclaimed ==
    /\ IsIdle("health") /\ ~Publishing
    /\ DbRow.node = Me /\ DbRow.at \in ambiguous
    /\ Dispatch("health", "unclaimed", NoConn, Release(DbRow.epoch))
    /\ ambiguous' = ambiguous \ {DbRow.at}
    /\ UNCHANGED <<cluster, tracker, health, bridge, marks, pending, stale, counts, strands>>

UnclaimedReturns ==
    /\ Blocked("health", "unclaimed") /\ (Ok("health") \/ Failed("health"))
    /\ ClearIfReleased("health")
    /\ ambiguous' = IF Ok("health") THEN ambiguous
                    ELSE ambiguous \cup {rows[call["health"].cmd.epoch].at}
    /\ Resume("health")
    /\ UNCHANGED <<cluster, health, bridge, marks, pending, stale, counts, strands>>

-----------------------------------------------------------------------------
(* Isolation: health_loop and reconcile_publishers_after_isolation. *)

LoseQuorum ==
    /\ IsIdle("health") /\ cut /\ local = "ready"
    /\ local' = "isolated"
    /\ UNCHANGED <<cluster, tracker, call, up, cut, sweep, retry, bridge, marks, queues, counts, strands>>

\* Quorum is back, or the last recovery asked for another round: an active
\* publisher without the row acquires again, unless an acquire is open.
RecoverPublishers ==
    /\ IsIdle("health")
    /\ (local = "isolated" /\ ~cut) \/ (local = "ready" /\ retry)
    /\ local' = "ready"
    /\ IF ~Publishing \/ ambiguous # {} \/ DbRow.node = Me
       THEN /\ retry' = (Publishing /\ ambiguous # {})
            /\ UNCHANGED <<call, tries>>
       ELSE /\ tries < MaxTries + 1 /\ tries' = tries + 1
            /\ Dispatch("health", "recover", NoConn, Acquire(Me, tries + 1))
            /\ UNCHANGED retry
    /\ UNCHANGED <<cluster, tracker, up, cut, sweep, bridge, marks, queues, others, fails, shocks, strands>>

\* retag_stream_epoch: every connection with an entry, one that is just being
\* closed included.
Retagged == {c \in Conns : epochs[c] # 0}

\* The acquire of a recovery was granted: the publisher is stamped with the new
\* epoch; if it is gone the epoch is given back.
RecoverGranted ==
    LET e == call["health"].index IN
    /\ Blocked("health", "recover") /\ GrantTo("health")
    /\ tracker' = View(rows[e])
    /\ epochs' = [c \in Conns |-> IF c \in Retagged THEN e ELSE epochs[c]]
    /\ Strand(\E c \in Retagged : epochs[c] > e, "acquires crossed")
    /\ IF Retagged = {}
       THEN Dispatch("health", "giveback", NoConn, Release(e)) /\ UNCHANGED retry
       ELSE Resume("health") /\ retry' = FALSE
    /\ UNCHANGED <<cluster, up, cut, local, sweep, role, session, row, marks, queues, counts>>

GivebackReturns ==
    /\ Blocked("health", "giveback") /\ (Ok("health") \/ Failed("health"))
    /\ ClearIfReleased("health")
    /\ retry' = Failed("health")
    /\ Strand(Failed("health"), "recovery release failed")
    /\ Resume("health")
    /\ UNCHANGED <<cluster, up, cut, local, sweep, bridge, marks, queues, counts>>

\* Conflict: another node has the stream, the publisher is taken off.
RecoverConflicts ==
    /\ Blocked("health", "recover") /\ Ok("health") /\ ~GrantTo("health")
    /\ Kick("health")
    /\ retry' = FALSE
    /\ UNCHANGED <<cluster, tracker, up, cut, local, sweep, session, epochs, recheck, queues, counts, strands>>

\* Any other failure leaves the publisher and asks for another round.
RecoverFails ==
    /\ Blocked("health", "recover") /\ Failed("health")
    /\ retry' = TRUE
    /\ QueueAmbiguous(call["health"])
    /\ Resume("health")
    /\ UNCHANGED <<cluster, tracker, up, cut, local, sweep, bridge, marks, pending, stale, counts, strands>>

-----------------------------------------------------------------------------
(* The leader releases what a node that is DOWN owns:
   release_owners_for_node_with_fence. *)

NoSweep == [st |-> "idle", max |-> 0]
Swept == [st |-> "released", max |-> 0]

\* Me has been silent for the miss limit and the grace.  The fence is the
\* highest epoch of Me that the leader knows, or the last log index.
SweepStarts ==
    /\ cut \/ ~up
    /\ sweep = NoSweep
    /\ \/ \E max \in {0} \cup {rows[k].epoch : k \in {j \in DOMAIN rows : rows[j].node = Me}} :
             sweep' = [st |-> "sent", max |-> max] /\ UNCHANGED fails
       \/ Fault("read") /\ sweep' = [st |-> "sent", max |-> Len(rows)]
    /\ UNCHANGED <<cluster, tracker, call, up, cut, local, retry, bridge, marks, queues, tries, others, shocks, strands>>

\* The release was applied at some index: a second one, fenced just below it,
\* takes the rows the leader had not heard of.
SweepCommits ==
    /\ sweep.st = "sent"
    /\ Append1(ReleaseNode(sweep.max))
    /\ sweep' = [st |-> "repair", max |-> Len(rows)]
    /\ UNCHANGED <<flight, applied, tracker, call, up, cut, local, retry, bridge, marks, queues, counts, strands>>

\* mark_ownership_released; a heartbeat of Me forgets it.
SweepRepairs ==
    /\ sweep.st = "repair"
    /\ Append1(ReleaseNode(sweep.max))
    /\ sweep' = IF cut \/ ~up THEN Swept ELSE NoSweep
    /\ UNCHANGED <<flight, applied, tracker, call, up, cut, local, retry, bridge, marks, queues, counts, strands>>

\* Either write fails, and may still commit if it was sent: another try at the next tick.
SweepFails ==
    /\ sweep.st \in {"sent", "repair"}
    /\ \E kind \in {"timeout", "unsent"} :
        /\ Fault(kind)
        /\ \E f \in {{}} \cup (IF kind = "timeout" THEN {{ReleaseNode(sweep.max)}} ELSE {}) :
              flight' = flight \cup f
    /\ sweep' = NoSweep
    /\ UNCHANGED <<rows, applied, tracker, call, up, cut, local, retry, bridge, marks, queues, tries, others, shocks, strands>>

Cut ==
    /\ Shock("cut") /\ up /\ ~cut
    /\ cut' = TRUE
    /\ UNCHANGED <<cluster, tracker, call, up, local, sweep, retry, bridge, marks, queues, tries, others, fails, strands>>

\* Heartbeats get through again; peers forget the DOWN state.
Heal ==
    /\ cut
    /\ cut' = FALSE
    /\ sweep' = IF sweep = Swept THEN NoSweep ELSE sweep
    /\ UNCHANGED <<cluster, tracker, call, up, local, retry, bridge, marks, queues, counts, strands>>

\* The process stops: what it has sent may still commit, its memory is gone.
Crash ==
    /\ Shock("crash") /\ up
    /\ up' = FALSE
    /\ call' = [t \in Threads |-> Idle]
    /\ \E lost \in SUBSET {call[t].cmd : t \in {x \in Threads : call[x].st = "sent"}} :
          flight' = flight \cup lost
    /\ tracker' = Unknown
    /\ role' = [c \in Conns |-> IF role[c] = "idle" /\ ~row[c] THEN "idle" ELSE "closed"]
    /\ row' = [c \in Conns |-> FALSE]
    /\ epochs' = [c \in Conns |-> 0]
    /\ marked' = FALSE /\ recheck' = FALSE /\ retry' = FALSE
    /\ ambiguous' = {} /\ pending' = {} /\ stale' = {}
    /\ UNCHANGED <<rows, applied, cut, local, sweep, session, tries, others, fails, strands>>

\* Rows of this node at the start, left over from the previous run.
LeftOver == IF DbRow.node = Me THEN {DbRow.epoch} ELSE {}

\* ClusterManager::start: the tracker is read from the rows.
Restart ==
    /\ ~up
    /\ up' = TRUE
    /\ local' = "ready"
    /\ tracker' = View(DbRow)
    /\ stale' = LeftOver
    /\ sweep' = IF sweep = Swept /\ ~cut THEN NoSweep ELSE sweep
    /\ Strand(\/ \E c \in flight : c.op = "acquire"
              \/ \E k \in DOMAIN rows : k > applied /\ rows[k].node = Me,
              "restart before its own acquire was applied")
    /\ UNCHANGED <<cluster, call, cut, retry, bridge, marks, ambiguous, pending, counts>>

\* retry_pending_stream_cleanups
CleanStale ==
    /\ IsIdle("cleanup")
    /\ \E e \in stale : Dispatch("cleanup", "stale", NoConn, Release(e))
    /\ UNCHANGED <<cluster, tracker, health, bridge, marks, queues, counts, strands>>

CleanReturns ==
    /\ Blocked("cleanup", "stale") /\ (Ok("cleanup") \/ Failed("cleanup"))
    /\ IF Ok("cleanup")
       THEN stale' = stale \ {call["cleanup"].cmd.epoch} /\ tracker' = View(DbRow)
       ELSE UNCHANGED <<stale, tracker>>
    /\ Resume("cleanup")
    /\ UNCHANGED <<cluster, health, bridge, marks, ambiguous, pending, counts, strands>>

-----------------------------------------------------------------------------
Init ==
    /\ rows = <<>> /\ flight = {} /\ applied = 0
    /\ tracker = Unknown
    /\ call = [t \in Threads |-> Idle]
    /\ up = TRUE /\ cut = FALSE /\ local = "ready" /\ sweep = NoSweep /\ retry = FALSE
    /\ role = [c \in Conns |-> "idle"]
    /\ session = [c \in Conns |-> 0]
    /\ row = [c \in Conns |-> FALSE]
    /\ epochs = [c \in Conns |-> 0]
    /\ marked = FALSE /\ recheck = FALSE
    /\ ambiguous = {} /\ pending = {} /\ stale = {}
    /\ tries = 0 /\ others = 0 /\ fails = 0 /\ shocks = 0
    /\ strands = {}

\* What the node does by itself.
Work ==
    \/ \E t \in Threads : Commit(t) \/ ReleaseReturns(t)
    \/ ApplyEntry \/ AcquireGranted \/ InstallPublisher \/ RejectPublish
    \/ RetryRelease \/ RetryReturns \/ PruneMarker
    \/ SyncOwnership("poll") \/ SyncOwnership("health") \/ RetryPublisherCheck
    \/ DropSuperseded \/ ReleaseUnclaimed \/ UnclaimedReturns
    \/ LoseQuorum \/ RecoverPublishers \/ RecoverGranted \/ GivebackReturns
    \/ RecoverConflicts \/ RecoverFails \/ CleanStale \/ CleanReturns

\* What clients, other nodes and the network do.
Disturb ==
    \/ \E t \in Threads : FailUnsent(t) \/ FailDispatched(t)
    \/ \E c \in Conns : AuthorizePublish(c) \/ CloseConn(c) \/ PollReleases(c)
    \/ \E c \in flight : CommitLate(c)
    \/ OtherAcquires \/ OtherReleases \/ DropAged
    \/ SweepStarts \/ SweepCommits \/ SweepRepairs \/ SweepFails
    \/ Cut \/ Heal \/ Crash \/ Restart

Next == Work \/ Disturb

Spec == Init /\ [][Next]_vars

-----------------------------------------------------------------------------
Writes == [op : {"acquire"}, node : Nodes, at : Nat]
          \cup [op : {"release"}, epoch : Nat]
          \cup [op : {"release_node"}, max : Nat]

OwnerRows == [node : Nodes \cup {NoNode}, epoch : Nat, at : Nat]

Calls == [st : {"sent", "answered", "granted", "unsent", "failed"},
          why : {"publish", "release", "again", "unclaimed", "recover", "giveback", "stale"},
          conn : Conns \cup {NoConn}, cmd : Writes, index : Nat, session : Nat, held : BOOLEAN]

\* The values of the variables.
TypeOK ==
    /\ rows \in Seq(OwnerRows)
    /\ flight \subseteq Writes
    /\ applied \in Nat /\ applied <= Len(rows)
    /\ tracker \in [node : Nodes \cup {NoNode}, epoch : Nat]
    /\ call \in [Threads -> Calls \cup {Idle}]
    /\ up \in BOOLEAN /\ cut \in BOOLEAN /\ retry \in BOOLEAN
    /\ local \in {"ready", "isolated"}
    /\ sweep \in [st : {"idle", "sent", "repair", "released"}, max : Nat]
    /\ role \in [Conns -> {"idle", "live", "closed"}]
    /\ session \in [Conns -> Nat] /\ epochs \in [Conns -> Nat]
    /\ row \in [Conns -> BOOLEAN]
    /\ marked \in BOOLEAN /\ recheck \in BOOLEAN
    /\ ambiguous \subseteq Nat /\ pending \subseteq Nat /\ stale \subseteq Nat
    /\ tries \in Nat /\ others \in Nat /\ fails \in Nat /\ shocks \in Nat

\* Somebody on the node still knows of the grant of epoch e and will release it.
Watched(e) ==
    \/ ~up
    \/ \E c \in Conns : epochs[c] = e
    \/ e \in pending \cup stale
    \/ rows[e].at \in ambiguous
    \/ \E t \in Threads : LET w == call[t] IN
         /\ w # Idle
         /\ \/ w.cmd = Release(e)
            \/ w.st \in {"answered", "granted"} /\ w.cmd.op = "acquire" /\ w.index = e
            \/ w.st = "failed" /\ w.cmd = Acquire(Me, rows[e].at)

\* A committed owner row is never left behind: as long as none of the events
\* of `strands' has happened, the owning node holds the epoch for a publisher or
\* has it in one of its queues (manager.rs: "a ghost owner no local publisher
\* is actually using" blocks the stream for every other node).
NoGhostOwner == strands = {} /\ Row.node = Me => Watched(Row.epoch)

Lease == INSTANCE StreamLease WITH
    lease <- View(Row),
    given <- {View(rows[k]) : k \in {j \in DOMAIN rows : rows[j].epoch = j}},
    stamps <- {epochs[c] : c \in Conns} \ {0},
    believed <- tracker

\* The ownership protocol is a lease with fencing epochs: the owner changes by
\* grants of growing epochs and releases only, a publisher stamps its frames
\* with epochs that were granted to its node, and the tracker that decides whose
\* frames are accepted names leases that were really given.
IsLease == Lease!LeaseSpec
=============================================================================
