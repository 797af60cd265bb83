----------------------------- MODULE MediaOutputs -----------------------------
(***************************************************************************)
(* Recordings, HLS and push outputs of a publisher (media_output.rs) and   *)
(* the part of a shard's tick that feeds them (feed_media_outputs).        *)
(*                                                                         *)
(* A MediaSession holds the outputs of one publish session.  It is started *)
(* and retired on the poll thread, which never waits: a bounded queue takes*)
(* it to the reaper, a second one to the overflow worker, and what fits    *)
(* neither is dropped without publish_done.  Every output is a bounded     *)
(* queue and a worker thread; an FFmpeg output also has a child process and*)
(* a monitor that kills it once the output has failed.                     *)
(*                                                                         *)
(* Sessions are numbered in the order they start, which is also the order  *)
(* of the names of their HLS directories.  A frame is its route and the    *)
(* publish generation it was sent in.  Elapsed time is a step that closes  *)
(* a debounce window, or the one in which stop gives up on a worker.       *)
(***************************************************************************)
EXTENDS Naturals, Sequences

CONSTANTS
    Conns, Streams,
    Sinks,        \* the outputs of a session in order: "record", "hls", "push"
    QueueMax,     \* SINK_QUEUE_MESSAGES, and the byte limit with it
    RetireMax, OverflowMax, \* RETIRED_SESSION_QUEUE, OVERFLOW_SESSION_QUEUE
    Timestamps, TsMod, TsJump,  \* numbers modulo TsMod; the republish jump
    MaxSessions, MaxPublishes, MaxFrames, MaxFaults \* bounds

VARIABLES
    publishing, \* per connection, its stream (None: it does not publish)
    moved,      \* connections whose authorization has moved the bridge's row
                \* and is not applied yet: the library relays nothing for them
    generation, \* publisher_generation
    live,       \* MediaOutputManager.sessions: per connection 0 or a session
    sess,       \* every MediaSession
    sink,       \* per session and output, its SinkSender and worker
    retired,    \* the reaper's queue
    overflow,   \* the overflow worker's queue
    down,       \* stop_all has run
    started, frames, faults

vars == <<publishing, moved, generation, live, sess, sink, retired, overflow,
          down, started, frames, faults>>

None == "none"
SessionIds == 1..MaxSessions
Outputs == DOMAIN Sinks
FFmpeg(k) == Sinks[k] \in {"hls", "push"}

\* at is who holds the session; step, the output stop waits for; complete, what
\* stop has returned so far; done, what became of publish_done; merged is
\* history: a republish was coalesced into it.
NewSession(c, s, g) ==
    [at |-> "live", conn |-> c, stream |-> s, generation |-> g, last |-> <<>>,
     fresh |-> {}, merged |-> FALSE, step |-> 1,
     complete |-> TRUE, done |-> "no"]
NoSession ==
    [at |-> "unused", conn |-> None, stream |-> None, generation |-> 0,
     last |-> <<>>, fresh |-> {}, merged |-> FALSE, step |-> 1,
     complete |-> TRUE, done |-> "no"]

\* worker: born, idle (in recv), writing (a tag), done.  A worker thread
\* that could not be spawned behaves as one that fails at once.  lost
\* is history: an accepted tag was not written.
NewSink ==
    [open |-> TRUE, failed |-> FALSE, queue |-> <<>>, worker |-> "born",
     child |-> "none", dir |-> "none", lost |-> FALSE]

-----------------------------------------------------------------------------
(* The manager.  Its operations run on the poll thread, one after the other *)
(* in a tick, so they are functions on what they change.                    *)

M == [live |-> live, sess |-> sess, sink |-> sink, retired |-> retired,
      overflow |-> overflow, started |-> started]

Apply(m) ==
    /\ live' = m.live
    /\ sess' = m.sess
    /\ sink' = m.sink
    /\ retired' = m.retired
    /\ overflow' = m.overflow
    /\ started' = m.started

\* SinkSender::disable.
Disabled(k) == [k EXCEPT !.failed = TRUE, !.open = FALSE]

\* SinkSender::try_send.  The byte counter is lowered before disable, so its
\* steps and those of the worker commute.
try_send(k, tag) ==
    IF ~k.open \/ k.failed THEN [k EXCEPT !.open = FALSE]
    ELSE IF Len(k.queue) >= QueueMax \/ k.worker = "done"
    THEN Disabled(k)
    ELSE [k EXCEPT !.queue = Append(@, tag)]

\* drop_incomplete: nothing is joined, publish_done is not sent.  (The child of
\* the publish hook is terminated here and in teardown_hooks, and left out.)
drop_incomplete(m, i) ==
    [m EXCEPT
        !.sess[i] = [@ EXCEPT !.at = "dropped", !.done = "suppressed"],
        !.sink[i] = [k \in Outputs |-> Disabled(@[k])]]

retire_overflow(m, i) ==
    IF Len(m.overflow) < OverflowMax
    THEN [m EXCEPT !.overflow = Append(@, i), !.sess[i].at = "overflow"]
    ELSE drop_incomplete(m, i)

\* retire.  What only a live session needs is forgotten.
retire(m, i) ==
    LET out == [m EXCEPT !.live[m.sess[i].conn] = 0,
                         !.sess[i].fresh = {}, !.sess[i].last = <<>>] IN
    IF Len(m.retired) < RetireMax
    THEN [out EXCEPT !.retired = Append(@, i), !.sess[i].at = "retired"]
    ELSE retire_overflow(out, i)

RetireOld(m, c) == IF m.live[c] = 0 THEN m ELSE retire(m, m.live[c])

\* start_session; nothing is started when the stream's row is not found.
start_session(m, c, s, g, found, marks) ==
    IF ~found THEN m
    ELSE [m EXCEPT !.live[c] = m.started + 1, !.started = @ + 1,
                   !.sess[m.started + 1] =
                       [NewSession(c, s, g) EXCEPT !.fresh = marks],
                   !.sink[m.started + 1] = [k \in Outputs |-> NewSink]]

Switches(m, c, s) == m.live[c] # 0 /\ m.sess[m.live[c]].stream # s

\* ensure_publisher.
ensure_publisher(m, c, s, g, found) ==
    LET old == m.sess[m.live[c]]
        has == m.live[c] # 0 IN
    IF has /\ old.stream = s /\ old.generation = g THEN m
    ELSE IF has /\ old.stream = s /\ "restart" \in old.fresh
    THEN [m EXCEPT !.sess[m.live[c]].generation = g,
                   !.sess[m.live[c]].merged = TRUE]
    ELSE IF has /\ old.stream # s /\ "switch" \in old.fresh THEN m
    ELSE start_session(RetireOld(m, c), c, s, g, found,
                       {"restart"} \cup IF Switches(m, c, s) THEN {"switch"} ELSE {})

\* The republish boundary a backward jump of the timestamp stands for.
TimestampReset(session, ts) ==
    /\ "restart" \notin session.fresh
    /\ session.last # <<>>
    /\ LET backward == (session.last[1] + TsMod - ts) % TsMod
       IN backward > TsJump /\ backward < (TsMod - 1) \div 2

Follow(m, c, s, g, found) ==
    IF m.live[c] # 0 /\ ~Switches(m, c, s) THEN m
    ELSE start_session(RetireOld(m, c), c, s, g, found,
                       IF m.live[c] # 0 THEN {"switch"} ELSE {})

Restart(m, c, s, g, ts, found) ==
    IF m.live[c] # 0 /\ TimestampReset(m.sess[m.live[c]], ts)
    THEN start_session(RetireOld(m, c), c, s, g, found,
                       {"restart"} \cup (m.sess[m.live[c]].fresh \cap {"switch"}))
    ELSE m

\* handle_frame.
handle_frame(m, c, f, s, g, ts, found) ==
    LET r == Restart(Follow(m, c, s, g, found), c, s, g, ts, found)
        i == r.live[c] IN
    IF i = 0 \/ r.sess[i].stream # s THEN r
    ELSE [r EXCEPT !.sess[i].last = <<ts>>,
                   !.sink[i] = [k \in Outputs |-> try_send(@[k], f)]]

-----------------------------------------------------------------------------
(* The poll thread. *)

\* One of the faults the bound allows: a row that is not found, an output that
\* does not start, a child that dies, a write error.
Fault == faults < MaxFaults /\ faults' = faults + 1

Found(found) ==
    \/ found /\ UNCHANGED faults
    \/ ~found /\ Fault

\* A tick starts at most one session, or two when it moves and a frame is left.
Running == ~down /\ started < MaxSessions

\* A tick in which the exported batch holds a frame of c, with route s (the
\* relay key of the tick before).  moves: the tracker's stream id has changed
\* under it in this tick, so ensure_publisher already follows the new stream.
TickFrame(c, ts, found) ==
    /\ Running
    /\ publishing[c] # None
    /\ c \notin moved
    /\ frames < MaxFrames
    /\ frames' = frames + 1
    /\ Found(found)
    /\ LET s == publishing[c]
           g == generation[c]
           f == [stream |-> s, generation |-> g] IN
       \/ /\ UNCHANGED <<publishing, moved>>
          /\ Apply(ensure_publisher(handle_frame(M, c, f, s, g, ts, found),
                                    c, s, g, found))
       \/ \E t \in Streams \ {s} :
              /\ started + 2 <= MaxSessions
              /\ generation[c] < MaxPublishes
              /\ publishing' = [publishing EXCEPT ![c] = t]
              /\ moved' = moved \cup {c}
              /\ Apply(ensure_publisher(handle_frame(M, c, f, s, g, ts, found),
                                        c, t, g, found))
    /\ UNCHANGED <<generation, down>>

\* The authorization worker has moved the row of c to another stream, without a
\* frame in this tick's batch.
StreamMoves(c, s, found) ==
    /\ Running
    /\ publishing[c] \notin {None, s}
    /\ c \notin moved
    /\ generation[c] < MaxPublishes
    /\ publishing' = [publishing EXCEPT ![c] = s]
    /\ moved' = moved \cup {c}
    /\ Found(found)
    /\ Apply(ensure_publisher(M, c, s, generation[c], found))
    /\ UNCHANGED <<generation, down, frames>>

\* A publish is applied in this tick.  The frames of the batch cannot be given
\* to either session (republished_during_poll) and are left out.
PublishApplied(c, s, found) ==
    /\ Running
    /\ c \in moved => s = publishing[c]
    /\ generation[c] < MaxPublishes
    /\ generation' = [generation EXCEPT ![c] = @ + 1]
    /\ publishing' = [publishing EXCEPT ![c] = s]
    /\ moved' = moved \ {c}
    /\ Found(found)
    /\ Apply(ensure_publisher(M, c, s, generation[c] + 1, found))
    /\ UNCHANGED <<down, frames>>

\* A tick without news for c.
TickIdle(c) ==
    /\ Running
    /\ publishing[c] # None
    /\ Apply(ensure_publisher(M, c, publishing[c], generation[c], TRUE))
    /\ UNCHANGED <<publishing, moved, generation, down, frames, faults>>

\* The publish ends, or its socket closes; the session stays until the next
\* retain_publishers, and until then a publish on c takes it over.
Unpublish(c) ==
    /\ ~down
    /\ publishing[c] # None
    /\ publishing' = [publishing EXCEPT ![c] = None]
    /\ moved' = moved \ {c}
    /\ UNCHANGED <<generation, live, sess, sink, retired, overflow, down,
                   started, frames, faults>>

\* retain_publishers, for one connection.
RetainPublishers(c) ==
    /\ ~down
    /\ publishing[c] = None
    /\ live[c] # 0
    /\ Apply(retire(M, live[c]))
    /\ UNCHANGED <<publishing, moved, generation, down, frames, faults>>

\* REPUBLISH_RESTART_MIN_INTERVAL has passed since one of the two marks.
WindowElapses(c, mark) ==
    /\ live[c] # 0
    /\ mark \in sess[live[c]].fresh
    /\ sess' = [sess EXCEPT ![live[c]].fresh = @ \ {mark}]
    /\ UNCHANGED <<publishing, moved, generation, live, sink, retired, overflow,
                   down, started, frames, faults>>

-----------------------------------------------------------------------------
(* Teardown: MediaSession::stop and abort, by the reaper, the overflow      *)
(* worker, or (stop_all) the poll thread.                                   *)

Idle(holder) == \A i \in SessionIds : sess[i].at # holder

\* SinkSender::stop begins: the sender of output k is dropped.
Closed(new, i, k) ==
    sink' = IF k \in Outputs THEN [new EXCEPT ![i][k].open = FALSE] ELSE new

ReaperTakes ==
    /\ retired # <<>>
    /\ Idle("reaping")
    /\ retired' = Tail(retired)
    /\ sess' = [sess EXCEPT ![Head(retired)].at = "reaping"]
    /\ Closed(sink, Head(retired), 1)
    /\ UNCHANGED <<publishing, moved, generation, live, overflow, down, started,
                   frames, faults>>

OverflowTakes ==
    /\ overflow # <<>>
    /\ Idle("aborting")
    /\ overflow' = Tail(overflow)
    /\ sess' = [sess EXCEPT ![Head(overflow)].at = "aborting"]
    /\ Closed(sink, Head(overflow), 1)
    /\ UNCHANGED <<publishing, moved, generation, live, retired, down, started,
                   frames, faults>>

\* stop_all stops what is live on the poll thread, one session at a time, and
\* then waits for the two queues.
StopAll(c) ==
    /\ live[c] # 0
    /\ Idle("stopping")
    /\ down' = TRUE
    /\ live' = [live EXCEPT ![c] = 0]
    /\ sess' = [sess EXCEPT ![live[c]].at = "stopping", ![live[c]].fresh = {},
                            ![live[c]].last = <<>>]
    /\ Closed(sink, live[c], 1)
    /\ UNCHANGED <<publishing, moved, generation, retired, overflow, started,
                   frames, faults>>

TornDown(i) == sess[i].at \in {"reaping", "aborting", "stopping"}

\* The worker of output k has finished within the five seconds.
SinkStopped(i, k) ==
    /\ TornDown(i)
    /\ sess[i].step = k
    /\ sink[i][k].worker = "done"
    /\ sess' = [sess EXCEPT ![i].step = k + 1]
    /\ Closed(sink, i, k + 1)
    /\ UNCHANGED <<publishing, moved, generation, live, retired, overflow, down,
                   started, frames, faults>>

\* It has not: failed tells the monitor to kill the child, and the session's
\* publish_done is suppressed.  A worker that waits for a tag is not late.
SinkTimesOut(i, k) ==
    /\ TornDown(i)
    /\ sess[i].step = k
    /\ sink[i][k].worker \in {"born", "writing"}
    /\ sess' = [sess EXCEPT ![i].step = k + 1, ![i].complete = FALSE]
    /\ Closed([sink EXCEPT ![i][k].failed = TRUE], i, k + 1)
    /\ UNCHANGED <<publishing, moved, generation, live, retired, overflow, down,
                   started, frames, faults>>

\* teardown_hooks, after every output.
TeardownHooks(i) ==
    /\ TornDown(i)
    /\ sess[i].step = Len(Sinks) + 1
    /\ sess' = [sess EXCEPT ![i].at = "gone",
                    ![i].done = IF sess[i].complete THEN "sent" ELSE "suppressed"]
    /\ UNCHANGED <<publishing, moved, generation, live, sink, retired, overflow,
                   down, started, frames, faults>>

-----------------------------------------------------------------------------
(* The worker and the monitor of an output. *)

\* A step that changes output k of session i to new.
Work(i, k, new) ==
    /\ sink' = [sink EXCEPT ![i][k] = new]
    /\ UNCHANGED <<publishing, moved, generation, live, sess, retired, overflow,
                   down, started, frames>>

\* The receiver is dropped, and what is queued or being written with it.
Unread(k) ==
    [k EXCEPT !.queue = <<>>,
              !.lost = @ \/ k.queue # <<>> \/ k.worker = "writing"]

\* Mutant: every other directory of the stream.
any_other(i, j) == j # i /\ sess[j].stream = sess[i].stream

\* clean_older_hls_sessions: the directories of the stream with a smaller name.
Older(i, j) == j < i /\ sess[j].stream = sess[i].stream
Cleaned(i, k) ==
    [j \in SessionIds |->
        IF Sinks[k] = "hls" /\ Older(i, j) /\ sink[j][k].dir = "open"
        THEN [sink[j] EXCEPT ![k].dir = "removed"]
        ELSE sink[j]]

\* The worker makes its file, or its directory and its child.
WorkerStarts(i, k) ==
    /\ sess[i].at # "unused"
    /\ sink[i][k].worker = "born"
    /\ sink' = [Cleaned(i, k) EXCEPT
                    ![i][k].worker = "idle",
                    ![i][k].child = IF FFmpeg(k) THEN "run" ELSE "none",
                    ![i][k].dir = IF Sinks[k] = "hls" THEN "open" ELSE "none"]
    /\ UNCHANGED <<publishing, moved, generation, live, sess, retired, overflow,
                   down, started, frames, faults>>

\* The file cannot be made; or FFmpeg, once spawned, dies before it has read the
\* header and is left to the monitor (as good as not spawned, once it is dead).
WorkerFailsAtStart(i, k) ==
    /\ sess[i].at # "unused"
    /\ sink[i][k].worker = "born"
    /\ Fault
    /\ Work(i, k, [Unread(sink[i][k]) EXCEPT !.worker = "done", !.failed = TRUE,
                       !.child = IF FFmpeg(k) THEN "run" ELSE "none"])

\* consume_queue: a tag is taken and not refused by the second look at failed.
Recv(i, k) ==
    /\ UNCHANGED faults
    /\ sink[i][k].worker = "idle"
    /\ ~sink[i][k].failed
    /\ sink[i][k].queue # <<>>
    /\ Work(i, k, [sink[i][k] EXCEPT !.worker = "writing", !.queue = Tail(@)])

\* Mutant: the worker leaves what is queued when its sender is closed.
ends_when_closed(i, k) ==
    /\ UNCHANGED faults
    /\ sink[i][k].worker = "idle"
    /\ sink[i][k].failed \/ ~sink[i][k].open
    /\ Work(i, k, [Unread(sink[i][k]) EXCEPT !.worker = "done",
                       !.child = IF @ = "run" THEN "dead" ELSE @])

\* The worker ends: consume_queue found failed set, or the sender gone and the
\* queue drained; the file is flushed, or the child waited for and, after three
\* seconds, killed (wait_child_bounded, terminate_child).
WorkerEnds(i, k) ==
    /\ UNCHANGED faults
    /\ sink[i][k].worker = "idle"
    /\ \/ sink[i][k].failed
       \/ ~sink[i][k].open /\ sink[i][k].queue = <<>>
    /\ Work(i, k, [Unread(sink[i][k]) EXCEPT !.worker = "done",
                       !.child = IF @ = "run" THEN "dead" ELSE @])

Written(i, k) ==
    /\ UNCHANGED faults
    /\ sink[i][k].worker = "writing"
    /\ FFmpeg(k) => sink[i][k].child = "run"
    /\ Work(i, k, [sink[i][k] EXCEPT !.worker = "idle"])

\* A write error: the disk's, or the child is dead.
WriteFails(i, k) ==
    /\ sink[i][k].worker = "writing"
    /\ IF FFmpeg(k) THEN sink[i][k].child = "dead" /\ UNCHANGED faults ELSE Fault
    /\ Work(i, k, [Unread(sink[i][k]) EXCEPT !.worker = "done", !.failed = TRUE])

MonitorKills(i, k) ==
    /\ UNCHANGED faults
    /\ sink[i][k].failed
    /\ sink[i][k].child = "run"
    /\ Work(i, k, [sink[i][k] EXCEPT !.child = "dead"])

\* FFmpeg ends by itself, which the next write finds out.
ChildDies(i, k) ==
    /\ sink[i][k].worker = "writing"
    /\ Fault
    /\ sink[i][k].child = "run"
    /\ Work(i, k, [sink[i][k] EXCEPT !.child = "dead"])

-----------------------------------------------------------------------------
Init ==
    /\ publishing = [c \in Conns |-> None]
    /\ moved = {}
    /\ generation = [c \in Conns |-> 0]
    /\ live = [c \in Conns |-> 0]
    /\ sess = [i \in SessionIds |-> NoSession]
    /\ sink = [i \in SessionIds |-> [k \in Outputs |-> NewSink]]
    /\ retired = <<>>
    /\ overflow = <<>>
    /\ down = FALSE
    /\ started = 0
    /\ frames = 0
    /\ faults = 0

Poll ==
    \E c \in Conns :
        \/ TickIdle(c) \/ Unpublish(c) \/ RetainPublishers(c) \/ StopAll(c)
        \/ \E mark \in {"restart", "switch"} : WindowElapses(c, mark)
        \/ \E found \in BOOLEAN :
               \/ \E ts \in Timestamps : TickFrame(c, ts, found)
               \/ \E s \in Streams : \/ StreamMoves(c, s, found)
                                     \/ PublishApplied(c, s, found)

Teardown ==
    \/ ReaperTakes \/ OverflowTakes
    \/ \E i \in SessionIds :
           \/ TeardownHooks(i)
           \/ \E k \in Outputs : SinkStopped(i, k) \/ SinkTimesOut(i, k)

Worker(i, k) ==
    \/ WorkerStarts(i, k) \/ WorkerFailsAtStart(i, k)
    \/ Recv(i, k) \/ WorkerEnds(i, k) \/ WriteFails(i, k)

Next ==
    \/ Poll
    \/ Teardown
    \/ \E i \in SessionIds, k \in Outputs :
           Worker(i, k) \/ Written(i, k) \/ MonitorKills(i, k) \/ ChildDies(i, k)

Spec == Init /\ [][Next]_vars

-----------------------------------------------------------------------------
(* Properties. *)

TypeOK ==
    /\ \A c \in Conns : live[c] \in 0..started
    /\ Len(retired) <= RetireMax /\ Len(overflow) <= OverflowMax
    /\ \A i \in SessionIds :
           /\ sess[i].at \in {"unused", "live", "retired", "reaping", "overflow",
                              "aborting", "stopping", "dropped", "gone"}
           /\ sess[i].step \in 1..(Len(Sinks) + 1)
           /\ \A k \in Outputs :
                  /\ sink[i][k].worker \in {"born", "idle", "writing", "done"}
                  /\ Len(sink[i][k].queue) <= QueueMax

\* A session is held in one place: it is live, or in one queue, or on one
\* thread, and nothing that has been retired is fed again.
HeldOnce ==
    /\ \A i \in SessionIds :
           /\ sess[i].at = "live" <=> \E c \in Conns : live[c] = i
           /\ sess[i].at = "retired" <=> \E n \in DOMAIN retired : retired[n] = i
           /\ sess[i].at = "overflow" <=> \E n \in DOMAIN overflow : overflow[n] = i
    /\ \A i, j \in SessionIds : TornDown(i) /\ sess[j].at = sess[i].at => j = i

\* publish_done announces finished outputs: every worker has ended, and an
\* output that has not failed has no child left and every tag it accepted.
DoneAfterOutputs ==
    \A i \in SessionIds, k \in Outputs :
        sess[i].done = "sent" =>
            /\ sink[i][k].worker = "done"
            /\ sink[i][k].failed \/ (~sink[i][k].lost /\ sink[i][k].child # "run")

\* Two publish sessions share no output, unless the republish came within the
\* debounce window of the session's start; two streams never do.
PublishesApart ==
    \A i \in SessionIds, k \in Outputs : \A n \in DOMAIN sink[i][k].queue :
        LET tag == sink[i][k].queue[n] IN
        /\ tag.stream = sess[i].stream
        /\ tag.generation = sess[i].generation \/ sess[i].merged

\* The directory a session writes to is not removed while the session is live,
\* although workers start in any order, unless another connection has published
\* the stream since.
LiveDirKept ==
    \A i \in SessionIds, k \in Outputs :
        sess[i].at = "live" /\ sink[i][k].dir = "removed" =>
            \E j \in SessionIds : /\ j > i /\ sess[j].stream = sess[i].stream
                                   /\ sess[j].conn # sess[i].conn

\* Nobody waits for the child of a session that is out of everyone's hands, so
\* one that runs must be marked for its monitor to kill: also the child that a
\* worker spawns after its session was dropped.
NoLeakedChild ==
    \A i \in SessionIds, k \in Outputs :
        sess[i].at \in {"dropped", "gone"} /\ sink[i][k].child = "run"
            => sink[i][k].failed
=============================================================================
