--------------------------- MODULE PublishSessions ---------------------------
(***************************************************************************)
(* The life of a publish session on one standalone node: the RTMP poll     *)
(* thread (server.rs), the auth worker (auth_worker.rs), the bridge they   *)
(* share (rtmp_bridge.rs), the publishers table (db.rs) and the task that  *)
(* deletes a stream (http.rs).                                             *)
(*                                                                         *)
(* A step is one critical section: a statement under the SQLite            *)
(* connection lock, or a block under the lock of the `conns` map.  What a  *)
(* thread read in an earlier section is kept in `poll` or `worker`, so the *)
(* other threads may have moved on when it is used.                        *)
(*                                                                         *)
(* One number names a publish request and the session it may create: both  *)
(* are fresh for every request (request id, keygen_stream_key).            *)
(***************************************************************************)
EXTENDS Integers, Sequences

CONSTANTS
    Conns,            \* connection ids
    Streams,          \* stream ids
    NoConn, NoStream, \* "none" values
    MaxSessions,      \* bound: publish requests the clients make
    MaxFaults,        \* bound: SQLite calls that fail
    MayFail,          \* the calls that may fail, by the name given below
    Deletable,        \* bound: the streams an operator may delete
    QueueCapacity,    \* AUTH_QUEUE_CAPACITY
    FinalizeAttempts, \* FINALIZE_ATTEMPTS
    MaxRestarts,      \* bound: process restarts
    Republish         \* may a connection ask to publish more than once?

DbCalls == {"prior", "acquire", "restore", "close", "persist", "drop",
            "release", "retry", "begin", "finalize", "rollback", "recover"}

ASSUME ConnAssumption == NoConn \notin Conns
ASSUME StreamAssumption == NoStream \notin Streams
ASSUME SessionsAssumption == MaxSessions \in Nat
ASSUME FaultAssumption == MaxFaults \in Nat /\ MayFail \subseteq DbCalls
ASSUME BoundAssumption ==
    /\ Deletable \subseteq Streams
    /\ QueueCapacity \in Nat
    /\ FinalizeAttempts \in Nat \ {0}
    /\ MaxRestarts \in Nat
    /\ Republish \in BOOLEAN

Sessions == 1..MaxSessions
NoSession == 0

VARIABLES
    row,         \* publishers table: the row of each session
    stream,      \* streams table: enabled / deleting (enabled=0, pending) / gone
    held,        \* ConnState.publisher of each connection
    deleted,     \* deleted_streams markers
    forceClose,  \* pending_force_close
    retry,       \* pending_deactivations
    queue,       \* jobs submitted to the auth worker
    done,        \* its completions, not yet applied
    worker,      \* where the auth worker is, and its locals
    poll,        \* where the poll thread is, and its locals
    deletedNow,  \* the poll thread's copy of the markers for this tick
    wire,        \* librtmp2's view of each connection
    entry,       \* TrackedConn: the stream a connection publishes to
    http,        \* the delete task of each stream
    attempt,     \* finalize attempts of each delete task
    gaveUp,      \* history: streams whose background delete gave up
    streamOf,    \* the stream each request names
    fast,        \* history: sessions admitted on the poll thread
    reqs, faults, restarts  \* counters against the bounds

dbVars == <<row, stream, faults>>
bridgeVars == <<held, forceClose, retry>>
pipeVars == <<queue, done>>
libVars == <<wire, entry, streamOf, reqs, fast>>
httpVars == <<http, attempt, deleted, gaveUp>>
vars == <<row, stream, held, deleted, forceClose, retry, queue, done, worker,
          poll, deletedNow, wire, entry, http, attempt, gaveUp, streamOf, fast,
          reqs, faults, restarts>>

IdleWorker == [pc |-> "idle", conn |-> NoConn, id |-> NoSession, old |-> NoSession]
IdlePoll == [pc |-> "idle", conn |-> NoConn, id |-> NoSession, why |-> "none"]
Connected == [open |-> TRUE, publishing |-> FALSE, pending |-> NoSession, asked |-> FALSE]

Init ==
    /\ row = [i \in Sessions |-> "absent"]
    /\ stream = [s \in Streams |-> "enabled"]
    /\ held = [c \in Conns |-> NoSession]
    /\ deleted = {} /\ deletedNow = {}
    /\ forceClose = {}
    /\ retry = {}
    /\ queue = <<>> /\ done = <<>>
    /\ worker = IdleWorker
    /\ poll = IdlePoll
    /\ wire = [c \in Conns |-> Connected]
    /\ entry = [c \in Conns |-> NoStream]
    /\ http = [s \in Streams |-> "none"]
    /\ attempt = [s \in Streams |-> 0]
    /\ gaveUp = {}
    /\ streamOf = [i \in Sessions |-> NoStream]
    /\ fast = {}
    /\ reqs = 0 /\ faults = 0 /\ restarts = 0

-----------------------------------------------------------------------------
(***************************************************************************)
(* The publishers table.  A call either fails (an SQLite fault, spent from *)
(* the budget) or has the effect of its statement.                         *)
(***************************************************************************)
ActiveOn(s) == {i \in Sessions : row[i] = "active" /\ streamOf[i] = s}

NoFault == faults' = faults

Fault(call) ==
    /\ call \in MayFail
    /\ faults < MaxFaults
    /\ faults' = faults + 1

\* Mutant: INSERT without looking for an active row of the stream.
AcquireUnchecked(i) ==
    /\ row[i] = "absent"
    /\ stream[streamOf[i]] # "gone"
    /\ row' = [row EXCEPT ![i] = "active"]
    /\ NoFault

\* INSERT ... unless the stream has an active row; the id and the foreign key
\* are checked by the table.
publisher_try_acquire(i) ==
    /\ row[i] = "absent"
    /\ stream[streamOf[i]] # "gone"
    /\ ActiveOn(streamOf[i]) = {}
    /\ row' = [row EXCEPT ![i] = "active"]
    /\ NoFault

publisher_try_acquire_fails(i, call) ==
    /\ \/ /\ \/ row[i] # "absent"
             \/ stream[streamOf[i]] = "gone"
             \/ ActiveOn(streamOf[i]) # {}
          /\ NoFault
       \/ Fault(call)
    /\ row' = row

\* publisher_update with active=0: any existing row.
deactivate(i) ==
    /\ row[i] # "absent"
    /\ row' = [row EXCEPT ![i] = "inactive"]
    /\ NoFault

deactivate_fails(i, call) ==
    /\ (row[i] = "absent" /\ NoFault) \/ Fault(call)
    /\ row' = row

\* Mutant: reactivate the row whoever else is active.
RestoreUnchecked(i) ==
    /\ row[i] # "absent"
    /\ row' = [row EXCEPT ![i] = "active"]
    /\ NoFault

\* publisher_update with active=1: refused while another row of the stream
\* is active.  (Its fallback, inserting the row again, hits the same id.)
restore_publisher_row(i) ==
    /\ row[i] # "absent"
    /\ ActiveOn(streamOf[i]) \subseteq {i}
    /\ row' = [row EXCEPT ![i] = "active"]
    /\ NoFault

restore_fails(i) ==
    /\ \/ (row[i] = "absent" \/ ~(ActiveOn(streamOf[i]) \subseteq {i})) /\ NoFault
       \/ Fault("restore")
    /\ row' = row

\* live_conn_count_for_stream: the connections that hold a role on s.
LiveConns(s) == {c \in Conns : held[c] # NoSession /\ streamOf[held[c]] = s}

-----------------------------------------------------------------------------
(***************************************************************************)
(* Clients and the protocol layer.  librtmp2 runs inside server.poll(), on *)
(* the poll thread, so these steps need that thread to be between visits.  *)
(***************************************************************************)
Job(kind, c, i) == [kind |-> kind, conn |-> c, id |-> i]

\* try_submit counts the authorizations still queued; a full queue denies.
QueueHasRoom == Len(SelectSeq(queue, LAMBDA j : j.kind = "auth")) < QueueCapacity

submit_auth(c, i) ==
    IF QueueHasRoom
    THEN /\ queue' = Append(queue, Job("auth", c, i))
         /\ wire' = [wire EXCEPT ![c].pending = i, ![c].asked = TRUE]
    ELSE /\ queue' = queue
         /\ wire' = [wire EXCEPT ![c].publishing = FALSE, ![c].asked = TRUE]

\* rtmp_publish_auth_cb: a cache hit goes on to the fast path, anything else
\* to the worker.
PublishCommand(c, s) ==
    /\ poll.pc = "idle"
    /\ wire[c].open /\ wire[c].pending = NoSession
    /\ Republish \/ ~wire[c].asked
    /\ reqs < MaxSessions
    /\ reqs' = reqs + 1
    /\ streamOf' = [streamOf EXCEPT ![reqs + 1] = s]
    /\ \/ /\ stream[s] = "enabled"            \* cached_publish_key
          /\ poll' = [pc |-> "install", conn |-> c, id |-> reqs + 1, why |-> "fast"]
          /\ wire' = [wire EXCEPT ![c].asked = TRUE]
          /\ UNCHANGED queue
       \/ /\ submit_auth(c, reqs + 1)
          /\ UNCHANGED poll
    /\ UNCHANGED <<dbVars, bridgeVars, done, worker, deletedNow, entry, fast,
                   httpVars, restarts>>

\* Mutant: the deleted_streams markers are not looked at under the lock.
FastAdmitsMarked(c, i) == LiveConns(streamOf[i]) = {} /\ held[c] = NoSession

\* The stream is not being deleted and has no session; c has no role.
FastAdmits(c, i) ==
    /\ streamOf[i] \notin deleted
    /\ LiveConns(streamOf[i]) = {}
    /\ held[c] = NoSession

\* The end of try_fast_authorize_publish, under deleted_streams and conns.
FastInstall ==
    /\ poll.pc = "install"
    /\ poll' = IdlePoll
    /\ LET c == poll.conn
           i == poll.id
       IN IF FastAdmits(c, i)
          THEN /\ held' = [held EXCEPT ![c] = i]
               /\ queue' = Append(queue, Job("persist", c, i))
               /\ wire' = [wire EXCEPT ![c].publishing = TRUE]
               /\ fast' = fast \cup {i}
          ELSE /\ submit_auth(c, i)
               /\ UNCHANGED <<held, fast>>
    /\ UNCHANGED <<dbVars, forceClose, retry, done, worker, deletedNow, entry,
                   streamOf, reqs, httpVars, restarts>>

\* FCUnpublish / closeStream: the protocol layer drops the role and forgets
\* the request it was waiting for.
UnpublishCommand(c) ==
    /\ poll.pc = "idle"
    /\ wire[c].open
    /\ wire[c].publishing \/ wire[c].pending # NoSession
    /\ wire' = [wire EXCEPT ![c].publishing = FALSE, ![c].pending = NoSession]
    /\ UNCHANGED <<dbVars, bridgeVars, pipeVars, worker, poll, deletedNow, entry,
                   streamOf, reqs, fast, httpVars, restarts>>

\* close_conn_off_poll_thread, after the peer or the poll loop closed c.
CloseConn(c) ==
    /\ wire' = [wire EXCEPT ![c].open = FALSE, ![c].publishing = FALSE,
                            ![c].pending = NoSession]
    /\ entry' = [entry EXCEPT ![c] = NoStream]
    /\ queue' = Append(queue, Job("close", c, NoSession))

PeerCloses(c) ==
    /\ poll.pc = "idle"
    /\ wire[c].open
    /\ CloseConn(c)
    /\ UNCHANGED <<dbVars, bridgeVars, done, worker, poll, deletedNow, streamOf,
                   reqs, fast, httpVars, restarts>>

-----------------------------------------------------------------------------
(***************************************************************************)
(* The poll thread: process_server_connections and what it calls.          *)
(***************************************************************************)

\* The markers are copied once per tick.
PollTick ==
    /\ poll.pc = "idle"
    /\ deletedNow # deleted
    /\ deletedNow' = deleted
    /\ UNCHANGED <<dbVars, bridgeVars, pipeVars, worker, poll, libVars, httpVars,
                   restarts>>

VisitForceClose(c) ==
    /\ poll.pc = "idle"
    /\ wire[c].open
    /\ c \in forceClose
    /\ forceClose' = forceClose \ {c}
    /\ CloseConn(c)
    /\ UNCHANGED <<dbVars, held, retry, done, worker, poll, deletedNow, streamOf,
                   reqs, fast, httpVars, restarts>>

\* The protocol layer stopped publishing: release what the bridge holds.
VisitRelease(c) ==
    /\ poll.pc = "idle"
    /\ wire[c].open /\ ~wire[c].publishing
    /\ \/ entry[c] # NoStream
       \/ held[c] # NoSession /\ wire[c].pending = NoSession
    /\ IF held[c] = NoSession
       THEN entry' = [entry EXCEPT ![c] = NoStream] /\ UNCHANGED poll
       ELSE /\ poll' = [pc |-> "deactivate", conn |-> c, id |-> held[c],
                        why |-> "unpublish"]
            /\ UNCHANGED entry
    /\ UNCHANGED <<dbVars, bridgeVars, pipeVars, worker, deletedNow, wire,
                   streamOf, reqs, fast, httpVars, restarts>>

\* A connection that started publishing: track it, or close it when the
\* bridge knows nothing of it.
VisitPublishing(c) ==
    /\ poll.pc = "idle"
    /\ wire[c].open /\ wire[c].publishing
    /\ \/ /\ held[c] # NoSession
          /\ entry[c] # streamOf[held[c]]
          /\ entry' = [entry EXCEPT ![c] = streamOf[held[c]]]
          /\ UNCHANGED <<wire, queue>>
       \/ /\ held[c] = NoSession
          /\ entry[c] = NoStream
          /\ CloseConn(c)
    /\ UNCHANGED <<dbVars, bridgeVars, done, worker, poll, deletedNow, streamOf,
                   reqs, fast, httpVars, restarts>>

\* drain_deleted_stream_roles: the bridge's role, else the tracked stream.
VisitDeleted(c) ==
    /\ poll.pc = "idle"
    /\ wire[c].open
    /\ \/ /\ held[c] # NoSession
          /\ streamOf[held[c]] \in deletedNow
          /\ poll' = [pc |-> "deactivate", conn |-> c, id |-> held[c],
                      why |-> "deleted"]
          /\ UNCHANGED <<wire, entry, queue>>
       \/ /\ held[c] = NoSession
          /\ entry[c] \in deletedNow
          /\ CloseConn(c)
          /\ UNCHANGED poll
    /\ UNCHANGED <<dbVars, bridgeVars, done, worker, deletedNow, streamOf, reqs,
                   fast, httpVars, restarts>>

\* release_publisher / release_publisher_if_id: first the row ...
PollDeactivate ==
    /\ poll.pc = "deactivate"
    /\ \/ deactivate(poll.id) /\ poll' = [poll EXCEPT !.pc = "clear"]
       \/ deactivate_fails(poll.id, "release") /\ poll' = IdlePoll
    /\ UNCHANGED <<stream, bridgeVars, pipeVars, worker, deletedNow, libVars,
                   httpVars, restarts>>

\* ... then the role, unless it has moved on; a connection left without a
\* role by a stream delete is kicked.
PollClear ==
    /\ poll.pc = "clear"
    /\ poll' = IdlePoll
    /\ LET c == poll.conn
           free == held[c] \in {NoSession, poll.id}
       IN /\ held' = [held EXCEPT ![c] = IF @ = poll.id THEN NoSession ELSE @]
          /\ IF free /\ poll.why = "deleted"
             THEN CloseConn(c)
             ELSE /\ entry' = IF free /\ poll.why = "unpublish"
                              THEN [entry EXCEPT ![c] = NoStream] ELSE entry
                  /\ UNCHANGED <<wire, queue>>
    /\ UNCHANGED <<dbVars, forceClose, retry, done, worker, deletedNow, streamOf,
                   reqs, fast, httpVars, restarts>>

\* apply_auth_completion.  librtmp2 applies a decision only to the request it
\* is waiting for; what it does with a role that was live when the request is
\* denied is left open.
ApplyCompletion ==
    /\ poll.pc = "idle"
    /\ done # <<>>
    /\ done' = Tail(done)
    /\ LET d == Head(done)
           c == d.conn
       IN /\ \/ /\ wire[c].pending # d.id
                /\ wire' = wire
             \/ /\ wire[c].pending = d.id
                /\ \E on \in (IF d.allow THEN {TRUE} ELSE {FALSE, wire[c].publishing}) :
                     wire' = [wire EXCEPT ![c].pending = NoSession, ![c].publishing = on]
          /\ poll' = IF /\ d.allow
                        /\ ~(wire'[c].pending = NoSession /\ wire'[c].publishing)
                        /\ d.session # NoSession
                        /\ held[c] = d.session
                     THEN [pc |-> "deactivate", conn |-> c, id |-> d.session,
                           why |-> "superseded"]
                     ELSE IdlePoll
    /\ UNCHANGED <<dbVars, bridgeVars, queue, worker, deletedNow, entry, streamOf,
                   reqs, fast, httpVars, restarts>>

\* retry_pending_deactivations: a row that is written or gone is settled.
RetryDeactivation(i) ==
    /\ poll.pc = "idle"
    /\ i \in retry
    /\ \/ deactivate(i) /\ retry' = retry \ {i}
       \/ deactivate_fails(i, "retry") /\ retry' = IF row[i] = "absent" THEN retry \ {i} ELSE retry
    /\ UNCHANGED <<stream, held, forceClose, pipeVars, worker, poll, deletedNow,
                   libVars, httpVars, restarts>>

-----------------------------------------------------------------------------
(***************************************************************************)
(* The auth worker: one job at a time, in submission order.                *)
(***************************************************************************)
WorkerAt(pc) == worker.pc = pc
WorkerGoes(pc) == worker' = [worker EXCEPT !.pc = pc]

Completes(c, i, allow, session) ==
    done' = Append(done, [conn |-> c, id |-> i, allow |-> allow, session |-> session])

\* Mutant: a denial nobody is told of.
DeniesSilently(c, i) == done' = done /\ worker' = IdleWorker

Denies(c, i) == Completes(c, i, FALSE, NoSession) /\ worker' = IdleWorker

\* authorize_publish up to the first write.  A request is denied for a stream
\* that is not enabled or is marked, and for reasons the model leaves out (the
\* failure budget of the address, another app, a failed lookup); otherwise
\* the worker notes the publisher the connection holds now.
WorkerTakesAuth ==
    /\ WorkerAt("idle") /\ queue # <<>> /\ Head(queue).kind = "auth"
    /\ queue' = Tail(queue)
    /\ LET j == Head(queue)
           s == streamOf[j.id]
       IN \/ Denies(j.conn, j.id)
          \/ /\ stream[s] = "enabled" /\ s \notin deleted
             /\ worker' = [pc |-> IF held[j.conn] = NoSession THEN "acquire" ELSE "prior",
                           conn |-> j.conn, id |-> j.id, old |-> held[j.conn]]
             /\ UNCHANGED done
    /\ UNCHANGED <<dbVars, bridgeVars, poll, deletedNow, libVars, httpVars, restarts>>

WorkerDeactivatesPrior ==
    /\ WorkerAt("prior")
    /\ \/ deactivate(worker.old) /\ WorkerGoes("acquire") /\ UNCHANGED done
       \/ deactivate_fails(worker.old, "prior") /\ Denies(worker.conn, worker.id)
    /\ UNCHANGED <<stream, bridgeVars, queue, poll, deletedNow, libVars, httpVars, restarts>>

WorkerAcquires ==
    /\ WorkerAt("acquire")
    /\ \/ publisher_try_acquire(worker.id) /\ WorkerGoes("install") /\ UNCHANGED done
       \/ /\ publisher_try_acquire_fails(worker.id, "acquire")
          /\ IF worker.old = NoSession
             THEN Denies(worker.conn, worker.id)
             ELSE WorkerGoes("restore") /\ UNCHANGED done
    /\ UNCHANGED <<stream, bridgeVars, queue, poll, deletedNow, libVars, httpVars, restarts>>

WorkerRestoresPrior ==
    /\ WorkerAt("restore")
    /\ restore_publisher_row(worker.old) \/ restore_fails(worker.old)
    /\ Denies(worker.conn, worker.id)
    /\ UNCHANGED <<stream, bridgeVars, queue, poll, deletedNow, libVars, httpVars, restarts>>

WorkerInstalls ==
    /\ WorkerAt("install")
    /\ held' = [held EXCEPT ![worker.conn] = worker.id]
    /\ WorkerGoes("complete")
    /\ UNCHANGED <<dbVars, forceClose, retry, pipeVars, poll, deletedNow, libVars,
                   httpVars, restarts>>

\* run_jobs reads the session back for the completion.
WorkerCompletes ==
    /\ WorkerAt("complete")
    /\ Completes(worker.conn, worker.id, TRUE, held[worker.conn])
    /\ worker' = IdleWorker
    /\ UNCHANGED <<dbVars, bridgeVars, queue, poll, deletedNow, libVars, httpVars, restarts>>

\* on_close: forget the connection, then write its row.
WorkerTakesClose ==
    /\ WorkerAt("idle") /\ queue # <<>> /\ Head(queue).kind = "close"
    /\ queue' = Tail(queue)
    /\ LET c == Head(queue).conn
       IN /\ forceClose' = forceClose \ {c}
          /\ held' = [held EXCEPT ![c] = NoSession]
          /\ worker' = IF held[c] = NoSession THEN IdleWorker
                       ELSE [IdleWorker EXCEPT !.pc = "close", !.conn = c, !.id = held[c]]
    /\ UNCHANGED <<dbVars, retry, done, poll, deletedNow, libVars, httpVars, restarts>>

\* Mutant: a failed write is forgotten.
WritesCloseOnce ==
    /\ WorkerAt("close")
    /\ deactivate(worker.id) \/ deactivate_fails(worker.id, "close")
    /\ worker' = IdleWorker
    /\ UNCHANGED <<stream, bridgeVars, pipeVars, poll, deletedNow, libVars, httpVars, restarts>>

WorkerWritesClose ==
    /\ WorkerAt("close")
    /\ \/ deactivate(worker.id) /\ UNCHANGED retry
       \/ deactivate_fails(worker.id, "close") /\ retry' = retry \cup {worker.id}
    /\ worker' = IdleWorker
    /\ UNCHANGED <<stream, held, forceClose, pipeVars, poll, deletedNow, libVars,
                   httpVars, restarts>>

WorkerTakesPersist ==
    /\ WorkerAt("idle") /\ queue # <<>> /\ Head(queue).kind = "persist"
    /\ queue' = Tail(queue)
    /\ worker' = [pc |-> "persist", conn |-> Head(queue).conn, id |-> Head(queue).id,
                  old |-> NoSession]
    /\ UNCHANGED <<dbVars, bridgeVars, done, poll, deletedNow, libVars, httpVars, restarts>>

\* persist_fast_publish: the row, or drop_fast_publisher and a forced close.
WorkerPersists ==
    /\ WorkerAt("persist")
    /\ \/ /\ publisher_try_acquire(worker.id)
          /\ WorkerGoes("check")
          /\ UNCHANGED <<held, forceClose>>
       \/ /\ publisher_try_acquire_fails(worker.id, "persist")
          /\ held' = [held EXCEPT ![worker.conn] = IF @ = worker.id THEN NoSession ELSE @]
          /\ forceClose' = forceClose \cup {worker.conn}
          /\ worker' = IdleWorker
    /\ UNCHANGED <<stream, retry, pipeVars, poll, deletedNow, libVars, httpVars, restarts>>

\* still_held: a session dropped while its row was queued is deactivated.
WorkerChecksHeld ==
    /\ WorkerAt("check")
    /\ IF held[worker.conn] = worker.id THEN worker' = IdleWorker ELSE WorkerGoes("drop")
    /\ UNCHANGED <<dbVars, bridgeVars, pipeVars, poll, deletedNow, libVars, httpVars, restarts>>

WorkerDropsRow ==
    /\ WorkerAt("drop")
    /\ deactivate(worker.id) \/ deactivate_fails(worker.id, "drop")
    /\ worker' = IdleWorker
    /\ UNCHANGED <<stream, bridgeVars, pipeVars, poll, deletedNow, libVars, httpVars, restarts>>

-----------------------------------------------------------------------------
(***************************************************************************)
(* DELETE /api/v1/streams/:id: handle_stream_delete and the background     *)
(* task wait_and_finalize_stream_delete.                                   *)
(***************************************************************************)
HttpGoes(s, pc) == http' = [http EXCEPT ![s] = pc]
clear_http_delete_marker(s) == deleted' = deleted \ {s}

HttpMarks(s) ==
    /\ s \in Deletable
    /\ http[s] = "none" /\ stream[s] # "gone" /\ s \notin deleted
    /\ deleted' = deleted \cup {s}
    /\ attempt' = [attempt EXCEPT ![s] = 0]
    /\ HttpGoes(s, "begin")
    /\ UNCHANGED <<dbVars, bridgeVars, pipeVars, worker, poll, deletedNow, libVars, gaveUp, restarts>>

HttpBegins(s) ==
    /\ http[s] = "begin"
    /\ \/ /\ stream' = [stream EXCEPT ![s] = "deleting"] /\ NoFault
          /\ HttpGoes(s, "count") /\ UNCHANGED deleted
       \/ /\ Fault("begin") /\ UNCHANGED stream
          /\ HttpGoes(s, "none") /\ clear_http_delete_marker(s)
    /\ UNCHANGED <<row, bridgeVars, pipeVars, worker, poll, deletedNow, libVars, attempt, gaveUp, restarts>>

\* No live session: finalize while the caller waits; otherwise answer 202.
HttpCounts(s) ==
    /\ http[s] = "count"
    /\ HttpGoes(s, IF LiveConns(s) = {} THEN "finalize_now" ELSE "drain")
    /\ UNCHANGED <<dbVars, bridgeVars, pipeVars, worker, poll, deletedNow, libVars,
                   attempt, deleted, gaveUp, restarts>>

HttpDrained(s) ==
    /\ http[s] = "drain" /\ LiveConns(s) = {}
    /\ HttpGoes(s, "finalize")
    /\ UNCHANGED <<dbVars, bridgeVars, pipeVars, worker, poll, deletedNow, libVars,
                   attempt, deleted, gaveUp, restarts>>

\* DELETE_DRAIN_TIMEOUT: abandon_roles_for_stream.
HttpDrainTimesOut(s) ==
    /\ http[s] = "drain" /\ LiveConns(s) # {}
    /\ held' = [c \in Conns |-> IF c \in LiveConns(s) THEN NoSession ELSE held[c]]
    /\ forceClose' = forceClose \cup LiveConns(s)
    /\ HttpGoes(s, "finalize")
    /\ UNCHANGED <<dbVars, retry, pipeVars, worker, poll, deletedNow, libVars,
                   attempt, deleted, gaveUp, restarts>>

\* stream_delete_if_pending: the row and, by ON DELETE CASCADE, its sessions.
stream_delete_if_pending(s) ==
    /\ stream' = [stream EXCEPT ![s] = "gone"]
    /\ row' = [i \in Sessions |-> IF streamOf[i] = s THEN "absent" ELSE row[i]]
    /\ NoFault

AttemptsLeft(s) == attempt[s] + 1 < FinalizeAttempts

\* finalize_stream_delete.  A failed synchronous delete is rolled back; the
\* background task tries again, and finally leaves the row pending.
HttpFinalizes(s) ==
    /\ http[s] \in {"finalize_now", "finalize"}
    /\ \/ /\ stream_delete_if_pending(s)
          /\ HttpGoes(s, "none") /\ clear_http_delete_marker(s) /\ UNCHANGED <<attempt, gaveUp>>
       \/ /\ Fault("finalize") /\ UNCHANGED <<row, stream>>
          /\ \/ /\ http[s] = "finalize_now"
                /\ HttpGoes(s, "rollback") /\ UNCHANGED <<deleted, attempt, gaveUp>>
             \/ /\ http[s] = "finalize" /\ AttemptsLeft(s)
                /\ attempt' = [attempt EXCEPT ![s] = @ + 1]
                /\ UNCHANGED <<http, deleted, gaveUp>>
             \/ /\ http[s] = "finalize" /\ ~AttemptsLeft(s)
                /\ HttpGoes(s, "none") /\ clear_http_delete_marker(s)
                /\ gaveUp' = gaveUp \cup {s} /\ UNCHANGED attempt
    /\ UNCHANGED <<bridgeVars, pipeVars, worker, poll, deletedNow, libVars, restarts>>

\* set_stream_enabled(id, true), whose result is ignored.
HttpRollsBack(s) ==
    /\ http[s] = "rollback"
    /\ \/ stream' = [stream EXCEPT ![s] = "enabled"] /\ NoFault
       \/ Fault("rollback") /\ UNCHANGED stream
    /\ HttpGoes(s, "none") /\ clear_http_delete_marker(s)
    /\ UNCHANGED <<row, bridgeVars, pipeVars, worker, poll, deletedNow, libVars, attempt, gaveUp, restarts>>

-----------------------------------------------------------------------------
(***************************************************************************)
(* A crash or restart: memory is gone, Db::open clears the active flags    *)
(* and recover_pending_stream_deletes finishes the deletes it finds.       *)
(***************************************************************************)
\* Mutant: the rows keep their active flag.
OpenKeepsActive(kept) ==
    [i \in Sessions |->
        IF \/ row[i] = "absent"
           \/ stream[streamOf[i]] = "deleting" /\ streamOf[i] \notin kept
        THEN "absent" ELSE row[i]]

\* The rows after Db::open and the recovery of all pending deletes but `kept`.
RowsAfterOpen(kept) ==
    [i \in Sessions |->
        IF \/ row[i] = "absent"
           \/ stream[streamOf[i]] = "deleting" /\ streamOf[i] \notin kept
        THEN "absent" ELSE "inactive"]

Restart ==
    /\ restarts < MaxRestarts
    /\ restarts' = restarts + 1
    /\ \E kept \in SUBSET {s \in Streams : stream[s] = "deleting"} :
         /\ IF kept = {} THEN NoFault ELSE Fault("recover")
         /\ stream' = [s \in Streams |-> IF stream[s] = "deleting" /\ s \notin kept
                                        THEN "gone" ELSE stream[s]]
         /\ row' = RowsAfterOpen(kept)
    /\ held' = [c \in Conns |-> NoSession]
    /\ deleted' = {} /\ deletedNow' = {}
    /\ forceClose' = {} /\ retry' = {}
    /\ queue' = <<>> /\ done' = <<>>
    /\ worker' = IdleWorker /\ poll' = IdlePoll
    /\ wire' = [c \in Conns |-> Connected]
    /\ entry' = [c \in Conns |-> NoStream]
    /\ http' = [s \in Streams |-> "none"]
    /\ attempt' = [s \in Streams |-> 0]
    /\ gaveUp' = {}
    /\ UNCHANGED <<streamOf, fast, reqs>>

ClientNext == \E c \in Conns :
    \/ \E s \in Streams : PublishCommand(c, s)
    \/ UnpublishCommand(c)
    \/ PeerCloses(c)

VisitNext(c) ==
    \/ VisitForceClose(c)
    \/ VisitRelease(c)
    \/ VisitPublishing(c)
    \/ VisitDeleted(c)

PollNext ==
    \/ FastInstall
    \/ PollTick
    \/ PollDeactivate
    \/ PollClear
    \/ ApplyCompletion
    \/ \E i \in Sessions : RetryDeactivation(i)
    \/ \E c \in Conns : VisitNext(c)

WorkerNext ==
    \/ WorkerTakesAuth \/ WorkerTakesClose \/ WorkerTakesPersist
    \/ WorkerDeactivatesPrior \/ WorkerAcquires \/ WorkerRestoresPrior
    \/ WorkerInstalls \/ WorkerCompletes
    \/ WorkerWritesClose
    \/ WorkerPersists \/ WorkerChecksHeld \/ WorkerDropsRow

HttpNext(s) ==
    \/ HttpMarks(s) \/ HttpBegins(s) \/ HttpCounts(s) \/ HttpDrained(s)
    \/ HttpDrainTimesOut(s) \/ HttpFinalizes(s) \/ HttpRollsBack(s)

Next ==
    \/ ClientNext
    \/ PollNext
    \/ WorkerNext
    \/ \E s \in Streams : HttpNext(s)
    \/ Restart

Spec == Init /\ [][Next]_vars

(***************************************************************************)
(* Each thread keeps running.  A pass of the poll loop copies the markers, *)
(* drains the completions, visits every connection and retries the failed  *)
(* writes, so each of these is taken again and again (SF: another step of  *)
(* the pass may disable it for a moment).  The worker takes its next job,  *)
(* and a delete task goes on to its next step (the drain ends by its       *)
(* timeout at the latest).  Clients and restarts owe nothing.              *)
(***************************************************************************)
Fairness ==
    /\ WF_vars(FastInstall \/ PollDeactivate \/ PollClear)
    /\ SF_vars(PollTick) /\ SF_vars(ApplyCompletion)
    /\ \A i \in Sessions : SF_vars(RetryDeactivation(i))
    /\ \A c \in Conns : SF_vars(VisitNext(c))
    /\ WF_vars(WorkerNext)
    /\ \A s \in Streams : WF_vars(http[s] # "none" /\ HttpNext(s))

FairSpec == Spec /\ Fairness

-----------------------------------------------------------------------------
(***************************************************************************)
(* Properties                                                              *)
(***************************************************************************)
Rows == {"absent", "inactive", "active"}
JobKinds == {"auth", "close", "persist"}
WorkerStates == {"idle", "prior", "acquire", "restore", "install", "complete",
                 "close", "persist", "check", "drop"}
PollStates == {"idle", "install", "deactivate", "clear"}
HttpStates == {"none", "begin", "count", "drain", "finalize_now", "finalize", "rollback"}
SessionsOrNone == Sessions \cup {NoSession}

Jobs == [kind : JobKinds, conn : Conns, id : SessionsOrNone]
Completions == [conn : Conns, id : SessionsOrNone, allow : BOOLEAN, session : SessionsOrNone]
WorkerLocals == [pc : WorkerStates, conn : Conns \cup {NoConn}, id : SessionsOrNone,
                 old : SessionsOrNone]
PollLocals == [pc : PollStates, conn : Conns \cup {NoConn}, id : SessionsOrNone,
               why : {"none", "fast", "unpublish", "deleted", "superseded"}]
WireStates == [open : BOOLEAN, publishing : BOOLEAN, pending : SessionsOrNone, asked : BOOLEAN]

\* Every variable has its type (the fields of ConnState, the queues and the
\* tables as the code declares them).
TypeOK ==
    /\ row \in [Sessions -> Rows]
    /\ stream \in [Streams -> {"enabled", "deleting", "gone"}]
    /\ held \in [Conns -> SessionsOrNone]
    /\ deleted \subseteq Streams
    /\ deletedNow \subseteq Streams
    /\ forceClose \subseteq Conns
    /\ retry \subseteq Sessions
    /\ queue \in Seq(Jobs)
    /\ done \in Seq(Completions)
    /\ worker \in WorkerLocals
    /\ poll \in PollLocals
    /\ wire \in [Conns -> WireStates]
    /\ entry \in [Conns -> Streams \cup {NoStream}]
    /\ http \in [Streams -> HttpStates]
    /\ attempt \in [Streams -> 0..(FinalizeAttempts - 1)]
    /\ streamOf \in [Sessions -> Streams \cup {NoStream}]
    /\ gaveUp \subseteq Streams
    /\ fast \subseteq Sessions
    /\ reqs \in 0..MaxSessions
    /\ faults \in 0..MaxFaults
    /\ restarts \in 0..MaxRestarts

\* A stream never has two active publisher rows, whatever path admitted them,
\* whichever writes failed and whatever was rolled back or restored.
OneActivePublisher ==
    \A i, j \in Sessions :
        row[i] = "active" /\ row[j] = "active" /\ streamOf[i] = streamOf[j] => i = j

\* An active row is always somebody's to clear: a connection holds it, the
\* retry list or the worker has it, or the delete task that abandoned its
\* session is about to remove it.  Any other active row blocks every later
\* publish.  (Exempt is a stream whose delete gave up: a later delete that is
\* rolled back enables it again with the rows the first one abandoned.)
NoOrphanRow ==
    \A i \in Sessions : row[i] = "active" =>
        \/ \E c \in Conns : held[c] = i
        \/ i \in retry
        \/ worker.id = i /\ worker.pc \in {"install", "close", "check", "drop"}
        \/ http[streamOf[i]] = "finalize"
        \/ streamOf[i] \in gaveUp

PersistPending(c, i) ==
    \/ \E k \in 1..Len(queue) : queue[k] = Job("persist", c, i)
    \/ worker.pc = "persist" /\ worker.conn = c /\ worker.id = i

\* try_fast_authorize_publish: "a delete marked right now either is seen here
\* or finds the session to drain".  A session admitted on the poll thread is
\* held on a stream that is gone only while its row is still to be refused:
\* after that nothing would ever end it.
FastSessionsDrain ==
    \A c \in Conns :
        /\ held[c] \in fast
        /\ stream[streamOf[held[c]]] = "gone"
        => PersistPending(c, held[c])

\* A publish request that librtmp2 holds as pending is always resolved.
RequestsResolved ==
    \A c \in Conns, i \in Sessions : wire[c].pending = i ~> wire[c].pending # i

\* Once every connection is closed no stream stays blocked by an active row.
StreamsUnblocked ==
    (\A c \in Conns : ~wire[c].open) ~>
        \/ \A i \in Sessions : row[i] # "active" \/ stream[streamOf[i]] = "deleting"
        \/ \E c \in Conns : wire[c].open
=============================================================================
