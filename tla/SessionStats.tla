---------------------------- MODULE SessionStats ----------------------------
(***************************************************************************)
(* The traffic counters of the sessions that one connection holds one      *)
(* after the other in one role (publisher or player; the code is the same  *)
(* for both).  The protocol layer counts the media bytes of the whole      *)
(* connection; the bridge subtracts the bytes of earlier sessions, the     *)
(* poll thread queues the result without touching SQLite, and the flush    *)
(* thread writes the queue in one transaction.                             *)
(*                                                                         *)
(* The poll thread copies the row under the connection map's lock and      *)
(* queues the copy after it; the auth worker replaces a session in three   *)
(* steps (deactivate the prior row, acquire a new one, install it) and     *)
(* restores the prior row when the second fails.  A full-row write may     *)
(* fail after it has dropped the row's queued report; the session then     *)
(* stays where it was.                                                     *)
(***************************************************************************)
EXTENDS Naturals

CONSTANTS Ids,       \* session ids, 1..n in the order they are created
          MaxBytes,  \* bound on the media counter
          NoBytes    \* nothing queued

VARIABLES media,     \* media_bytes_sent or media_bytes_received
          current,   \* session of the connection, 0 for none
          bytes,     \* its row in the connection map: bytes so far
          base,      \* media counter when the session was rebased
          armed,     \* stats_reset_pending
          row,       \* the table: state and bytes of each row
          queued,    \* pending_stats
          copy,      \* row copied by the poll thread and not yet queued
          leaving,   \* session the poll thread has deactivated, 0 for none
          prior,     \* session the worker has deactivated to replace it
          acquired,  \* session whose row the worker has inserted, 0 for none
          writing,   \* rows taken by the running flush
          own,       \* history: media of each session
          behind     \* history: the table lost a report; the next one mends it

statVars == <<media, current, bytes, base, armed, row, queued, copy, leaving, prior,
              acquired, writing, own, behind>>

None == [id |-> 0, bytes |-> 0]
NoQueue == [i \in Ids |-> NoBytes]
Used == {i \in Ids : row[i].state # "absent" \/ i = current}
NextId == {i \in Ids : i \notin Used /\ \A j \in Ids : j < i => j \in Used}
ConnFree == writing = NoQueue    \* no flush holds the SQLite connection

Init ==
  /\ media = 0 /\ current = 0 /\ bytes = 0 /\ base = 0 /\ armed = FALSE
  /\ row = [i \in Ids |-> [state |-> "absent", bytes |-> 0]]
  /\ queued = NoQueue /\ writing = NoQueue
  /\ copy = None /\ leaving = 0 /\ prior = None /\ acquired = 0
  /\ own = [i \in Ids |-> 0] /\ behind = FALSE

conns == <<current, bytes, base, armed>>
poll == <<copy, leaving>>
worker == <<prior, acquired>>

\* The protocol layer takes no media before the connection's first session,
\* which is charged from a base of 0.
Media ==
  /\ Used # {} /\ media < MaxBytes
  /\ media' = media + 1
  /\ own' = [i \in Ids |-> IF i = current THEN own[i] + 1 ELSE own[i]]
  /\ UNCHANGED <<conns, row, queued, poll, worker, writing, behind>>

-----------------------------------------------------------------------------
(* The poll thread                                                         *)

PollIdle == copy = None /\ leaving = 0

\* update_publisher_stats, update_player_stats
update_stats ==
  /\ PollIdle /\ current # 0
  /\ IF armed THEN armed' = FALSE /\ base' = media /\ bytes' = 0
              ELSE bytes' = media - base /\ UNCHANGED <<armed, base>>
  /\ copy' = [id |-> current, bytes |-> bytes']
  /\ UNCHANGED <<media, current, row, queued, leaving, worker, writing, own, behind>>

update_rtt ==
  /\ PollIdle /\ current # 0
  /\ copy' = [id |-> current, bytes |-> bytes]
  /\ UNCHANGED <<media, conns, row, queued, leaving, worker, writing, own, behind>>

queue_stats ==
  /\ copy # None
  /\ queued' = [queued EXCEPT ![copy.id] = copy.bytes]
  /\ copy' = None /\ behind' = FALSE
  /\ UNCHANGED <<media, conns, row, leaving, worker, writing, own>>

\* publisher_update, player_update: the row's queued stats are dropped and the
\* whole row is written, under one lock of the SQLite connection.
FullUpdate(i, state, n) ==
  /\ ConnFree
  /\ row' = [row EXCEPT ![i] = [state |-> state, bytes |-> n]]
  /\ queued' = [queued EXCEPT ![i] = NoBytes]

\* The check before the write, or the write, failed: the queued stats are gone.
FullUpdateFails(i) ==
  /\ ConnFree
  /\ queued' = [queued EXCEPT ![i] = NoBytes]
  /\ behind' = (behind \/ (i = current /\ queued[i] # NoBytes))
  /\ UNCHANGED row

\* release_player and release_publisher: the table first ...
ReleaseWrites ==
  /\ PollIdle /\ current # 0 /\ row[current].state # "absent"
  /\ FullUpdate(current, "inactive", bytes)
  /\ leaving' = current
  /\ UNCHANGED <<media, conns, copy, worker, writing, own, behind>>

\* The write failed, or found no row: the session stays in the connection map.
ReleaseFails ==
  /\ PollIdle /\ current # 0
  /\ FullUpdateFails(current)
  /\ UNCHANGED <<media, conns, poll, worker, writing, own>>

\* ... then the connection map, if the session is still there.
ReleaseClears ==
  /\ leaving # 0 /\ leaving' = 0
  /\ IF leaving = current
     THEN current' = 0 /\ base' = 0 /\ armed' = TRUE /\ UNCHANGED bytes
     ELSE UNCHANGED conns
  /\ UNCHANGED <<media, row, queued, copy, worker, writing, own, behind>>

-----------------------------------------------------------------------------
(* Authorization                                                           *)

WorkerIdle == prior = None /\ acquired = 0

\* A first session, by the worker with its row or by the fast path without.
Install(i) ==
  /\ WorkerIdle /\ current = 0 /\ i \in NextId
  /\ current' = i /\ bytes' = 0
  /\ \/ ConnFree /\ row' = [row EXCEPT ![i].state = "active"]
     \/ UNCHANGED row
  /\ UNCHANGED <<media, base, armed, queued, poll, worker, writing, own, behind>>

\* persist_fast_play and persist_fast_publish
PersistRow ==
  /\ WorkerIdle /\ ConnFree /\ current # 0 /\ row[current].state = "absent"
  /\ row' = [row EXCEPT ![current] = [state |-> "active", bytes |-> 0]]
  /\ UNCHANGED <<media, conns, queued, poll, worker, writing, own, behind>>

ReplaceDeactivates ==
  /\ WorkerIdle /\ current # 0 /\ row[current].state # "absent" /\ NextId # {}
  /\ prior' = [id |-> current, bytes |-> bytes]
  /\ FullUpdate(current, "inactive", bytes)
  /\ UNCHANGED <<media, conns, poll, acquired, writing, own, behind>>

\* The prior row could not be deactivated, or is not there yet: the request
\* is rejected.
ReplaceFails ==
  /\ WorkerIdle /\ current # 0
  /\ FullUpdateFails(current)
  /\ UNCHANGED <<media, conns, poll, worker, writing, own>>

ReplaceAcquires(i) ==
  /\ prior # None /\ acquired = 0 /\ i \in NextId /\ ConnFree
  /\ acquired' = i
  /\ row' = [row EXCEPT ![i].state = "active"]
  /\ UNCHANGED <<media, conns, queued, poll, prior, writing, own, behind>>

\* Mutant: the new session counts on from the old base.
install_unarmed(i) ==
  /\ i = acquired
  /\ current' = i /\ bytes' = 0 /\ UNCHANGED <<base, armed>>
  /\ prior' = None /\ acquired' = 0
  /\ UNCHANGED <<media, row, queued, poll, writing, own, behind>>

ReplaceInstalls(i) ==
  /\ i = acquired
  /\ current' = i /\ bytes' = 0 /\ armed' = TRUE /\ UNCHANGED base
  /\ prior' = None /\ acquired' = 0
  /\ UNCHANGED <<media, row, queued, poll, writing, own, behind>>

\* No slot: the row as it was copied becomes active again.
restore_row ==
  /\ prior # None /\ acquired = 0
  /\ FullUpdate(prior.id, "active", prior.bytes)
  /\ prior' = None /\ behind' = TRUE
  /\ UNCHANGED <<media, conns, poll, acquired, writing, own>>

\* Restoring it fails too: the row stays inactive under its session.
RestoreFails ==
  /\ prior # None /\ acquired = 0
  /\ FullUpdateFails(prior.id)
  /\ prior' = None
  /\ UNCHANGED <<media, conns, poll, acquired, writing, own>>

-----------------------------------------------------------------------------
(* flush_pending_stats                                                     *)

FlushTakes ==
  /\ ConnFree /\ queued # NoQueue
  /\ writing' = queued /\ queued' = NoQueue
  /\ UNCHANGED <<media, conns, row, poll, worker, own, behind>>

\* Only rows that are still active are written.
FlushCommits ==
  /\ ~ConnFree
  /\ row' = [i \in Ids |-> IF writing[i] # NoBytes /\ row[i].state = "active"
                           THEN [row[i] EXCEPT !.bytes = writing[i]] ELSE row[i]]
  /\ writing' = NoQueue
  /\ behind' = (behind \/ (current # 0 /\ writing[current] # NoBytes
                           /\ row[current].state # "active"))
  /\ UNCHANGED <<media, conns, queued, poll, worker, own>>

requeue_pending_stats ==
  [i \in Ids |-> IF queued[i] # NoBytes THEN queued[i] ELSE writing[i]]

FlushFails ==
  /\ ~ConnFree
  /\ queued' = requeue_pending_stats
  /\ writing' = NoQueue
  /\ UNCHANGED <<media, conns, row, poll, worker, own, behind>>

Next ==
  \/ Media \/ update_stats \/ update_rtt \/ queue_stats
  \/ ReleaseWrites \/ ReleaseFails \/ ReleaseClears
  \/ \E i \in Ids : Install(i) \/ ReplaceAcquires(i) \/ ReplaceInstalls(i)
  \/ PersistRow \/ ReplaceDeactivates \/ ReplaceFails \/ restore_row \/ RestoreFails
  \/ FlushTakes \/ FlushCommits \/ FlushFails

-----------------------------------------------------------------------------
TypeOK ==
  /\ current \in Ids \cup {0} /\ leaving \in Ids \cup {0}
  /\ bytes \in 0..MaxBytes /\ base \in 0..media /\ media \in 0..MaxBytes
  /\ row \in [Ids -> [state : {"absent", "active", "inactive"}, bytes : 0..MaxBytes]]

\* A row never shows bytes of another session of the connection, whatever
\* the order of replacement, late report and flush (update_player_stats).
OwnBytes == \A i \in Ids : row[i].bytes <= own[i]

\* The newest report of the current session is in the queue or in the row:
\* a failed flush gives back what it took without undoing what came since.
\* Three things leave the table behind until the next report: a prior row
\* restored from its copy, a flush that finds the row not active (not yet
\* inserted, or deactivated under its session), and a full-row write that
\* failed after it had dropped the queued report.
ReportKept ==
  (current # 0 /\ copy = None /\ prior = None /\ ConnFree /\ ~behind
     /\ row[current].state # "absent") =>
  bytes = IF queued[current] # NoBytes THEN queued[current] ELSE row[current].bytes
=============================================================================
