---------------------------- MODULE LiveMediaQueue ----------------------------
(***************************************************************************)
(* The outbound queues of cluster media (cluster/media/live_queue.rs) and  *)
(* the fan-out that fills them (fanout_local_frame in hub.rs).             *)
(*                                                                         *)
(* An owner reaches one subscribing node over up to two connections: the   *)
(* inbound session on which the node subscribed (InboundMediaSink) and its *)
(* own outbound MediaPeer.  Each has a LiveMediaQueue and a writer.  A     *)
(* frame is offered to the sink and, when the sink refuses it, to the peer.*)
(* A sink whose write fails is closed; a peer connects again and keeps its *)
(* queue.                                                                  *)
(*                                                                         *)
(* A frame is a stream, a DeliveryHint, a size and the number of its kind  *)
(* in its stream: a Droppable frame can be decoded after the frame before  *)
(* it only, a ResyncPoint always.  Time is a counter.  The statistics are  *)
(* left out.                                                               *)
(***************************************************************************)
EXTENDS Naturals, Sequences, FiniteSets

CONSTANTS
    NStreams,     \* streams are numbers: their order is the order of names
    Frames,       \* what a publisher sends: <<stream, hint, approx_size>>
    ControlSize,  \* approx_size of any other message
    MaxMessages, MaxBytes, MaxAge, ResyncWait, \* LiveQueueConfig
    MaxPushes, MaxTime, MaxFails \* bounds

ASSUME QueueAssumption ==
    /\ {NStreams, MaxMessages, MaxBytes, ResyncWait, MaxPushes, MaxTime, MaxFails}
           \subseteq Nat \ {0}
    /\ ControlSize \in Nat \ {0}
    /\ Frames \subseteq (1..NStreams) \X {"Critical", "ResyncPoint", "Droppable"} \X (Nat \ {0})

Links == {"sink", "peer"}
Streams == 1..NStreams
Hints == {"Critical", "ResyncPoint", "Droppable"}
Kinds == Hints \cup {"Control"}

VARIABLES
    queue,    \* per link, its LiveMediaQueue
    writing,  \* per link, the message its writer has popped, in a sequence
    link,     \* per link: up, down (a peer between two connections)
    now,
    count,    \* per stream, the frames that are not Critical so far
    pushes, fails,
    got,      \* history: per link and stream, the last frame written
    lacks     \* history: per link and stream, a Critical frame was evicted and
              \* no InitCache was queued since

vars == <<queue, writing, link, now, count, pushes, fails, got, lacks>>

\* Inner, with one StreamState per stream: since is awaiting_since (0: None),
\* evictable and frames are evictable_bytes and queued_frames.  excuse is
\* history: why the stream's next frame may lack the one before it.
NewQueue ==
    [entries |-> <<>>, bytes |-> 0, closed |-> FALSE, reinit_pending |-> FALSE,
     since |-> [s \in Streams |-> 0], evictable |-> [s \in Streams |-> 0],
     frames |-> [s \in Streams |-> 0], needs_reinit |-> [s \in Streams |-> FALSE],
     excuse |-> [s \in Streams |-> "none"]]

Evictable(e) == e.kind \in {"ResyncPoint", "Droppable"}
IsFrame(e) == e.kind \in Hints
Age(t) == IF now > t THEN now - t ELSE 0
Minus(a, b) == IF a > b THEN a - b ELSE 0
Awaiting(q, s) == q.since[s] # 0
Excuse(q, s, why) ==
    [q EXCEPT !.excuse[s] = IF @ = "none" THEN why ELSE @]

-----------------------------------------------------------------------------
(* What leaves a queue. *)

SizeOf(es, P(_)) ==
    LET sum[i \in 0..Len(es)] ==
            IF i = 0 THEN 0 ELSE sum[i - 1] + IF P(es[i]) THEN es[i].size ELSE 0
    IN sum[Len(es)]
CountOf(es, P(_)) == Cardinality({i \in DOMAIN es : P(es[i])})

\* account_removed, for every entry that satisfies Gone.
Without(q, Gone(_)) ==
    LET es == q.entries IN
    [q EXCEPT
        !.entries = SelectSeq(@, LAMBDA e : ~Gone(e)),
        !.bytes = Minus(@, SizeOf(es, Gone)),
        !.frames = [s \in Streams |->
            Minus(@[s], CountOf(es, LAMBDA e : Gone(e) /\ IsFrame(e) /\ e.stream = s))],
        !.evictable = [s \in Streams |->
            Minus(@[s], SizeOf(es, LAMBDA e : Gone(e) /\ Evictable(e) /\ e.stream = s))]]

\* Mutant: a purged stream does not wait.
purge_without_wait(q, S) == q

Await(q, S) == [q EXCEPT !.since = [s \in Streams |->
                   IF s \in S /\ @[s] = 0 THEN now ELSE @[s]]]
Resynced(q, S) == [q EXCEPT !.since = [s \in Streams |-> IF s \in S THEN 0 ELSE @[s]]]

purge_stream(q, s) == Without(q, LAMBDA e : Evictable(e) /\ e.stream = s)

\* Streams with a stale frame among the entries before the first fresh one.
StaleStreams(q) ==
    {s \in Streams : \E i \in DOMAIN q.entries :
        /\ Evictable(q.entries[i]) /\ q.entries[i].stream = s
        /\ \A j \in 1..i : Age(q.entries[j].at) > MaxAge}

FreshResyncs(q, s) ==
    {i \in DOMAIN q.entries : /\ q.entries[i].kind = "ResyncPoint"
                              /\ q.entries[i].stream = s
                              /\ Age(q.entries[i].at) <= MaxAge}

\* purge_stale_stream keeps the frames from the first fresh ResyncPoint on.
enforce_age(q) ==
    LET stale == StaleStreams(q)
        fresh == {s \in stale : FreshResyncs(q, s) # {}}
        Gone(e) == /\ Evictable(e) /\ e.stream \in stale
                   /\ \A i \in FreshResyncs(q, e.stream) : e.n < q.entries[i].n
    IN IF stale = {} THEN q
       ELSE Await(Resynced(Without(q, Gone), fresh), stale \ fresh)

release_expired_waits(q) ==
    LET late == {s \in Streams : Awaiting(q, s) /\ Age(q.since[s]) >= ResyncWait}
    IN IF late = {} THEN q
       ELSE [Resynced(q, late) EXCEPT !.excuse = [s \in Streams |->
                IF s \in late /\ @[s] = "none" THEN "expired" ELSE @[s]]]

\* Mutant: one message too many.
fits_at_bound(q, size) == Len(q.entries) <= MaxMessages /\ q.bytes + size <= MaxBytes

Fits(q, size) == Len(q.entries) < MaxMessages /\ q.bytes + size <= MaxBytes

\* heaviest_evictable; of two equal streams the smaller name.
Heaviest(q) ==
    {s \in Streams : /\ q.evictable[s] > 0
                     /\ \A t \in Streams : \/ q.evictable[t] < q.evictable[s]
                                           \/ q.evictable[t] = q.evictable[s] /\ s <= t}

FirstCritical(q) ==
    {i \in DOMAIN q.entries : /\ q.entries[i].kind = "Critical"
                              /\ \A j \in 1..(i - 1) : q.entries[j].kind # "Critical"}

\* The Critical frame at i is evicted.
EvictCritical(q, i) ==
    LET e == q.entries[i] IN
    [q EXCEPT !.entries = SubSeq(@, 1, i - 1) \o SubSeq(@, i + 1, Len(@)),
              !.bytes = Minus(@, e.size), !.frames[e.stream] = Minus(@, 1),
              !.needs_reinit[e.stream] = TRUE, !.reinit_pending = TRUE]

\* make_room after k rounds of its loop.
RoomAfter(q, size, k) ==
    LET room[j \in 0..k] ==
            IF j = 0 THEN q
            ELSE LET p == room[j - 1] IN
                 IF Fits(p, size) THEN p
                 ELSE IF Heaviest(p) # {}
                 THEN LET s == CHOOSE s \in Heaviest(p) : TRUE
                      IN Await(purge_stream(p, s), {s})
                 ELSE IF FirstCritical(p) # {}
                 THEN EvictCritical(p, CHOOSE i \in FirstCritical(p) : TRUE)
                 ELSE p
    IN room[k]
make_room(q, size) ==
    IF Fits(q, size) THEN q ELSE RoomAfter(q, size, NStreams + Len(q.entries))

-----------------------------------------------------------------------------
(* push_at and pop_at. *)

Refuse(q, why) == [queue |-> q, queued |-> FALSE, why |-> why]

\* A frame of a waiting stream: a ResyncPoint ends the wait.
Supersede(q, e) ==
    IF e.kind = "ResyncPoint" /\ Awaiting(q, e.stream)
    THEN Resynced(purge_stream(q, e.stream), {e.stream}) ELSE q

Held(q, e) == e.kind = "Droppable" /\ Awaiting(q, e.stream)

Enqueued(q, e) ==
    LET p == IF e.kind = "ResyncPoint" THEN Resynced(q, {e.stream}) ELSE q
        x == [e EXCEPT !.at = now, !.excuse =
                 IF Evictable(e) THEN p.excuse[e.stream] ELSE "none"]
    IN [p EXCEPT
        !.entries = Append(@, x), !.bytes = @ + e.size,
        !.frames = IF IsFrame(e) THEN [@ EXCEPT ![e.stream] = @ + 1] ELSE @,
        !.evictable = IF Evictable(e) THEN [@ EXCEPT ![e.stream] = @ + e.size] ELSE @,
        !.excuse = IF Evictable(e) THEN [@ EXCEPT ![e.stream] = "none"] ELSE @,
        !.reinit_pending = @ \/ (IsFrame(e) /\ p.needs_reinit[e.stream])]

Limit(e) == IF IsFrame(e) THEN MaxBytes \div 2 ELSE MaxBytes

\* A frame that is lost although its stream does not wait excuses the next.
Lost(q, e, why) == IF Evictable(e) THEN Excuse(q, e.stream, why) ELSE q

push_at(q, e) ==
    IF q.closed THEN Refuse(q, "Closed")
    ELSE IF e.size > Limit(e) THEN Refuse(Lost(q, e, "oversized"), "Oversized")
    ELSE LET p == release_expired_waits(enforce_age(q)) IN
         IF Held(p, e) THEN Refuse(p, "AwaitingResync")
         ELSE LET r == make_room(Supersede(p, e), e.size) IN
              IF ~Fits(r, e.size) THEN Refuse(Lost(r, e, "full"), "Full")
              ELSE IF Held(r, e) THEN Refuse(r, "AwaitingResync")
              ELSE [queue |-> Enqueued(r, e), queued |-> TRUE, why |-> "Queued"]

Aged(q) == release_expired_waits(enforce_age(q))

Frame(s, kind, size) ==
    [stream |-> s, kind |-> kind, size |-> size, at |-> 0, excuse |-> "none",
     n |-> IF kind = "Critical" THEN 0 ELSE count[s] + 1]
InitCache(s) == [Frame(s, "Control", ControlSize) EXCEPT !.n = 0]

\* History: the streams of which r evicted a Critical frame that q held.
Evicted(q, r) ==
    {s \in Streams : CountOf(q.entries, LAMBDA e : e.kind = "Critical" /\ e.stream = s)
                     > CountOf(r.entries, LAMBDA e : e.kind = "Critical" /\ e.stream = s)}

-----------------------------------------------------------------------------
(* fanout_local_frame, for the one subscriber. *)

Open(l) == ~queue[l].closed

\* take_reinit: the flag is read behind reinit_pending and cleared.
take_reinit(q, s) ==
    LET r == [q EXCEPT !.needs_reinit[s] = FALSE] IN
    IF ~q.reinit_pending THEN q
    ELSE [r EXCEPT !.reinit_pending = \E t \in Streams : r.needs_reinit[t]]
mark_reinit(q, s) == [q EXCEPT !.needs_reinit[s] = TRUE, !.reinit_pending = TRUE]

Taken(l, e) == /\ e.kind = "ResyncPoint" /\ Open(l)
               /\ queue[l].reinit_pending /\ queue[l].needs_reinit[e.stream]

\* What becomes of the queue of a link, as a set of one, once the init cache, if
\* it is due, and the frame are offered: the frame is not offered when the init
\* cache is refused.
Offered(q, e, reinit) ==
    IF reinit
    THEN {IF i.queued THEN [sent |-> push_at(i.queue, e), init |-> TRUE]
                      ELSE [sent |-> i, init |-> FALSE]
            : i \in {push_at(q, InitCache(e.stream))}}
    ELSE {[sent |-> push_at(q, e), init |-> FALSE]}

\* A link of the pair whose flag was taken and which did not carry the frame.
ReArm(q, l, e, closed) ==
    IF Taken(l, e) /\ ~closed THEN mark_reinit(q, e.stream) ELSE q

fanout_local_frame(s, kind, size) ==
    LET e == Frame(s, kind, size)
        reinit == \E l \in Links : Taken(l, e)
        Ready(l) == IF e.kind = "ResyncPoint" /\ Open(l)
                    THEN take_reinit(queue[l], s) ELSE queue[l]
        Flag(q) == IF reinit /\ ~q.closed THEN mark_reinit(q, s) ELSE q
    IN
    /\ pushes < MaxPushes /\ pushes' = pushes + 1
    /\ count' = [count EXCEPT ![s] = IF kind = "Critical" THEN @ ELSE @ + 1]
    /\ \E sink \in Offered(Ready("sink"), e, reinit),
          \* A frame that the sink did not take has no predecessor on the peer.
          other \in Offered(Lost(Ready("peer"), e, "fallback"), e, reinit) :
       LET bySink == Open("sink") /\ sink.sent.queued
           byPeer == ~bySink /\ Open("peer") /\ other.sent.queued
           neither == ~bySink /\ ~byPeer
           sinkQ == IF byPeer THEN ReArm(sink.sent.queue, "sink", e, ~Open("sink"))
                    ELSE IF neither THEN Flag(sink.sent.queue) ELSE sink.sent.queue
           peerQ == IF bySink THEN ReArm(Ready("peer"), "peer", e, ~Open("peer"))
                    ELSE IF neither THEN Flag(other.sent.queue) ELSE other.sent.queue
           after == [l \in Links |-> IF l = "sink" THEN sinkQ ELSE peerQ]
           sentInit == [l \in Links |-> IF l = "sink" THEN sink.init ELSE ~bySink /\ other.init]
       IN
       /\ queue' = [l \in Links |-> IF Open(l) THEN after[l] ELSE queue[l]]
       /\ lacks' = [l \in Links |-> [t \in Streams |->
              /\ Open(l)
              /\ \/ t \in Evicted(queue[l], after[l])
                 \/ lacks[l][t] /\ ~(t = s /\ sentInit[l])]]
    /\ UNCHANGED <<writing, link, now, fails, got>>

\* Any other message: Subscribe, Unsubscribe, an InitCache for a Subscribe.  An
\* InitCache that is refused on the sink is asked for again.
SendControl(l, s) ==
    /\ Open(l) /\ pushes < MaxPushes /\ pushes' = pushes + 1
    /\ \E p \in {push_at(queue[l], InitCache(s))} :
       /\ queue' = [queue EXCEPT ![l] = IF p.queued \/ l = "peer" THEN p.queue
                                         ELSE mark_reinit(p.queue, s)]
       /\ lacks' = [lacks EXCEPT ![l] = [t \in Streams |->
              @[t] \/ t \in Evicted(queue[l], p.queue)]]
    /\ UNCHANGED <<writing, link, now, count, fails, got>>

-----------------------------------------------------------------------------
(* The writers: InboundMediaSink::spawn and MediaPeer::spawn. *)

pop_at(l) ==
    /\ Open(l) /\ link[l] = "up" /\ writing[l] = <<>>
    /\ \E q \in {Aged(queue[l])} :
       /\ q.entries # <<>>
       /\ LET e == Head(q.entries)
              r == [q EXCEPT !.entries = Tail(@), !.bytes = Minus(@, e.size),
                             !.frames = IF IsFrame(e) THEN [@ EXCEPT ![e.stream] = Minus(@, 1)]
                                        ELSE @,
                             !.evictable = IF Evictable(e)
                                           THEN [@ EXCEPT ![e.stream] = Minus(@, e.size)]
                                           ELSE @]
          IN /\ queue' = [queue EXCEPT ![l] = r]
             /\ writing' = [writing EXCEPT ![l] = <<e>>]
    /\ UNCHANGED <<link, now, count, pushes, fails, got, lacks>>

Written(l) ==
    /\ link[l] = "up" /\ writing[l] # <<>>
    /\ writing' = [writing EXCEPT ![l] = <<>>]
    /\ LET e == writing[l][1] IN
       got' = IF Evictable(e) THEN [got EXCEPT ![l][e.stream] = e.n] ELSE got
    /\ UNCHANGED <<queue, link, now, count, pushes, fails, lacks>>

Closed == [NewQueue EXCEPT !.closed = TRUE]

\* The sink is closed: its write failed, or a newer session took its place.
CloseSink ==
    /\ Open("sink") /\ fails < MaxFails /\ fails' = fails + 1
    /\ queue' = [queue EXCEPT !["sink"] = Closed]
    /\ writing' = [writing EXCEPT !["sink"] = <<>>]
    /\ lacks' = [lacks EXCEPT !["sink"] = [s \in Streams |-> FALSE]]
    /\ UNCHANGED <<link, now, count, pushes, got>>

\* The connection of the peer is lost, and with it what is being written.
PeerDown ==
    /\ link["peer"] = "up" /\ fails < MaxFails /\ fails' = fails + 1
    /\ link' = [link EXCEPT !["peer"] = "down"]
    /\ UNCHANGED <<queue, writing, now, count, pushes, got, lacks>>

\* on_connection_reset; the next connection starts after it.
on_connection_reset ==
    LET q == queue["peer"]
        S == {s \in Streams : q.evictable[s] > 0}
        r == Await(Without(q, LAMBDA e : Evictable(e) /\ e.stream \in S), S)
        lost == {s \in Streams : \E e \in {writing["peer"][i] : i \in DOMAIN writing["peer"]} :
                     Evictable(e) /\ e.stream = s}
    IN /\ link["peer"] = "down"
       /\ link' = [link EXCEPT !["peer"] = "up"]
       /\ queue' = [queue EXCEPT !["peer"] =
              [r EXCEPT !.excuse = [s \in Streams |->
                   IF s \in lost /\ @[s] = "none" THEN "lost" ELSE @[s]]]]
       /\ writing' = [writing EXCEPT !["peer"] = <<>>]
       /\ UNCHANGED <<now, count, pushes, fails, got, lacks>>

Tick == now < MaxTime /\ now' = now + 1
        /\ UNCHANGED <<queue, writing, link, count, pushes, fails, got, lacks>>

-----------------------------------------------------------------------------
Init ==
    /\ queue = [l \in Links |-> NewQueue] /\ writing = [l \in Links |-> <<>>]
    /\ link = [l \in Links |-> "up"] /\ now = 1
    /\ count = [s \in Streams |-> 0] /\ pushes = 0 /\ fails = 0
    /\ got = [l \in Links |-> [s \in Streams |-> 0]]
    /\ lacks = [l \in Links |-> [s \in Streams |-> FALSE]]

Next ==
    \/ \E f \in Frames : fanout_local_frame(f[1], f[2], f[3])
    \/ \E l \in Links : SendControl(l, 1)
    \/ \E l \in Links : pop_at(l)
    \/ \E l \in Links : Written(l)
    \/ CloseSink \/ PeerDown \/ on_connection_reset \/ Tick

Spec == Init /\ [][Next]_vars

-----------------------------------------------------------------------------
(* Properties. *)

Message == [stream : Streams, kind : Kinds, size : Nat, at : Nat, n : Nat,
            excuse : {"none", "oversized", "full", "expired", "lost", "fallback"}]

TypeOK ==
    /\ \A l \in Links : /\ queue[l].entries \in Seq(Message)
                        /\ writing[l] \in Seq(Message) /\ Len(writing[l]) <= 1
                        /\ Len(queue[l].entries) <= MaxMessages
                        /\ queue[l].needs_reinit \in [Streams -> BOOLEAN]
                        /\ queue[l].since \in [Streams -> Nat]
                        /\ {queue[l].closed, queue[l].reinit_pending} \subseteq BOOLEAN
    /\ link \in [Links -> {"up", "down"}] /\ link["sink"] = "up"
    /\ {now, pushes, fails} \subseteq Nat

\* The counters that make_room and heaviest_evictable decide by are exact after
\* any sequence of pushes, pops, purges and evictions, and stay in the bounds.
CountersExact ==
    \A l \in Links : LET q == queue[l] IN
        /\ q.bytes = SizeOf(q.entries, LAMBDA e : TRUE)
        /\ q.bytes <= MaxBytes
        /\ \A s \in Streams :
            /\ q.evictable[s] = SizeOf(q.entries, LAMBDA e : Evictable(e) /\ e.stream = s)
            /\ q.frames[s] = CountOf(q.entries, LAMBDA e : IsFrame(e) /\ e.stream = s)

\* A stream that waits for a resync point has no frame queued that depends on
\* what was dropped: every way into AwaitingResync purges the stream first.
WaitingIsPurged ==
    \A l \in Links, s \in Streams :
        Awaiting(queue[l], s) => queue[l].evictable[s] = 0

\* The frames of s on link l: the last one written, then the ones to write.
Chain(l, s) ==
    LET Mine(e) == Evictable(e) /\ e.stream = s
    IN SelectSeq(writing[l] \o queue[l].entries, Mine)

\* A Droppable frame reaches a connection only right behind the frame that it
\* depends on, whatever was evicted, aged out or purged by a reconnect in
\* between.  The excuses: the frame before it was oversized, found the queue
\* full of control messages or was lost in the write that failed, the wait for a
\* resync point expired, or the sink refused it.
NoTornGop ==
    \A l \in Links, s \in Streams :
        link[l] = "up" =>
            LET chain == Chain(l, s) IN
            \A i \in DOMAIN chain :
                \/ chain[i].kind = "ResyncPoint" \/ chain[i].excuse # "none"
                \/ chain[i].n = 1 + IF i = 1 THEN got[l][s] ELSE chain[i - 1].n

\* An evicted codec header is owed until an init cache is queued on the same
\* connection, and take_reinit's fast path sees the debt.
HeaderDebtKept ==
    \A l \in Links :
        /\ \A s \in Streams : lacks[l][s] => queue[l].needs_reinit[s]
        /\ (\E s \in Streams : queue[l].needs_reinit[s]) => queue[l].reinit_pending

(***************************************************************************)
(* Overload never tears a stream: the counters by which the queue to a     *)
(* peer evicts are those of what it holds, a stream that lost a frame goes *)
(* on at a resync point only, with nothing of the torn group of pictures   *)
(* left, and a peer that missed a codec header is owed an init cache until *)
(* it gets one (live_queue.rs, hub.rs fanout_local_frame).                 *)
(***************************************************************************)
OverloadResyncs == CountersExact /\ WaitingIsPurged /\ NoTornGop /\ HeaderDebtKept
=============================================================================
