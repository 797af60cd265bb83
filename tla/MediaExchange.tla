---------------------------- MODULE MediaExchange ----------------------------
(***************************************************************************)
(* What a node does with the media of one stream, Watched, between its     *)
(* RTMP poll loop and its media connections.                               *)
(*                                                                         *)
(*   - frames of the local publisher go through the export queue to the    *)
(*     fan-out task, which remaps their timestamps and stages the stream's *)
(*     codec header and last keyframe in the init cache;                   *)
(*   - frames and init caches of the node that owns the stream pass the    *)
(*     ownership check, then the same timeline and cache, and wait in the  *)
(*     inject queue for the poll loop.                                     *)
(*                                                                         *)
(* Both queues are bounded in bytes and shared with the other streams; a   *)
(* full queue gives up frames it holds.  The check, the timeline, the      *)
(* cache and the queue are locked one after the other, so ownership may    *)
(* move between any two of them.                                           *)
(***************************************************************************)
EXTENDS Naturals, Sequences, SequencesExt, FiniteSetsExt

CONSTANTS Watched, Other,   \* streams
          FarConns,         \* media connections of the other node
          FarKinds,         \* messages of the other node: "init", "key", "delta"
          MaxQueueBytes,    \* bound of each queue
          Wrap,             \* 2^32 in the code: timestamps are taken modulo it
          Stamps,           \* timestamps that encoders send
          MaxEpoch,         \* bound: ownership moves
          MaxPushes,        \* bound: frames of the local publishers
          MaxArrivals,      \* bound: messages of the other node
          NoInit            \* nothing staged

VARIABLES holders,    \* who held each ownership epoch: "here" or "far"
          claimed,    \* epoch claimed by the local publisher, 0 for none
          config,     \* codec configuration of the local publisher
          exportQ, exportBytes, notifying, permit, exporter, fanning,
          injectQ, injectBytes,
          cache,      \* InitCacheEntry
          timeline,   \* TimelineRemapper
          arriving,   \* message each connection has accepted and not yet queued
          pushes, arrivals,
          lost        \* history: configurations whose header was evicted here

exchangeVars == <<holders, claimed, config, exportQ, exportBytes, notifying, permit, exporter,
                  fanning, injectQ, injectBytes, cache, timeline, arriving, pushes,
                  arrivals, lost>>

exportVars == <<exportQ, exportBytes, notifying, permit, exporter, fanning>>
injectVars == <<injectQ, injectBytes>>
localVars == <<claimed, config, pushes>>
farVars == <<arriving, arrivals>>

Epoch == Len(holders)
\* DeliveryHint of each kind of frame, the cheapest first.
Class(k) == CASE k = "delta" -> 1 [] k = "key" -> 2 [] k = "header" -> 3
Frame(s, k, c, n) == [stream |-> s, kind |-> k, config |-> c, size |-> n]
NewTimeline == [offset |-> 0, last |-> 0, epoch |-> 0]
Idle == [pc |-> "idle"]

Init ==
  /\ holders \in {<<"here">>, <<"far">>}
  /\ claimed = 0 /\ config = <<0, 0>>
  /\ exportQ = <<>> /\ exportBytes = 0 /\ notifying = {} /\ permit = FALSE
  /\ exporter = "check" /\ fanning = <<>>
  /\ injectQ = <<>> /\ injectBytes = 0
  /\ cache = NoInit /\ timeline = NewTimeline
  /\ arriving = [k \in FarConns |-> Idle]
  /\ pushes = 0 /\ arrivals = 0 /\ lost = {}

-----------------------------------------------------------------------------
(***************************************************************************)
(* evict_for_room.  Until the new frame fits: the cheapest class that any  *)
(* stream has queued; of the streams that have it, the one with the most   *)
(* bytes; of that stream, the oldest frame of the class.                   *)
(***************************************************************************)
StreamBytes(q, s) == MapThenSumSet(LAMBDA i : IF q[i].stream = s THEN q[i].size ELSE 0, DOMAIN q)
Cheapest(q) == Min({Class(q[i].kind) : i \in DOMAIN q})
HasClass(q, c) == {q[i].stream : i \in {j \in DOMAIN q : Class(q[j].kind) = c}}
Heaviest(q, streams) ==
  CHOOSE s \in streams : \A t \in streams : \/ StreamBytes(q, s) > StreamBytes(q, t)
                                            \/ StreamBytes(q, s) = StreamBytes(q, t) /\ t # Watched
                                            \/ s = t
Oldest(q, s, c) == Min({i \in DOMAIN q : q[i].stream = s /\ Class(q[i].kind) = c})

Victim(q) == Oldest(q, Heaviest(q, HasClass(q, Cheapest(q))), Cheapest(q))

Room(q, bytes, need) ==
  LET after[n \in 0 .. Len(q)] ==
        IF n = 0 THEN [q |-> q, bytes |-> bytes]
        ELSE LET x == after[n - 1]
             IN IF x.bytes + need <= MaxQueueBytes THEN x
                ELSE LET i == Victim(x.q)
                     IN [q |-> RemoveAt(x.q, i), bytes |-> x.bytes - x.q[i].size]
  IN after[Len(q)]

\* A frame larger than the whole queue is refused and evicts nothing.
evict_for_room(q, bytes, f) ==
  IF f.size > MaxQueueBytes THEN [q |-> q, bytes |-> bytes]
  ELSE LET x == Room(q, bytes, f.size)
       IN [q |-> Append(x.q, f), bytes |-> x.bytes + f.size]

HeadersOf(q) == {q[i].config : i \in {j \in DOMAIN q : q[j].stream = Watched /\ q[j].kind = "header"}}

(***************************************************************************)
(* TimelineRemapper::map.                                                  *)
(***************************************************************************)
Anchor(t, ts) == (t.last + 1 + Wrap - ts) % Wrap

\* Mutant: no guard within an epoch; an encoder that starts again goes back.
map_unguarded(t, e, ts) ==
  LET offset == IF t.epoch = e THEN t.offset ELSE IF t.epoch = 0 THEN 0 ELSE Anchor(t, ts)
  IN [offset |-> offset, last |-> (ts + offset) % Wrap, epoch |-> e]

map(t, e, ts) ==
  LET offset == IF t.epoch = e THEN t.offset ELSE IF t.epoch = 0 THEN 0 ELSE Anchor(t, ts)
      out == (ts + offset) % Wrap
  IN IF out < t.last
       THEN [offset |-> Anchor(t, ts), last |-> (ts + Anchor(t, ts)) % Wrap, epoch |-> e]
       ELSE [offset |-> offset, last |-> out, epoch |-> e]

(***************************************************************************)
(* InitCacheStore.                                                         *)
(***************************************************************************)
put_if_epoch_ge(entry) ==
  IF cache # NoInit /\ entry.epoch < cache.epoch THEN cache ELSE entry

\* Mutant: a new header leaves the staged keyframe.
stage_header(e, c) == [e EXCEPT !.header = c]

StageHeader(e, c) == [e EXCEPT !.header = c, !.key = IF e.header = c THEN @ ELSE NoInit]

update_from_frame(e, f) ==
  LET staged == IF cache = NoInit \/ e > cache.epoch
                  THEN [epoch |-> e, header |-> NoInit, key |-> NoInit] ELSE cache
  IN IF e < staged.epoch THEN staged
     ELSE CASE f.kind = "header" -> StageHeader(staged, f.config)
            [] f.kind = "key"    -> [staged EXCEPT !.key = f.config]
            [] f.kind = "delta"  -> staged

-----------------------------------------------------------------------------
(***************************************************************************)
(* The local publisher and the export queue.  A configuration is named by  *)
(* the epoch it was sent in and a number.                                  *)
(***************************************************************************)
Claim ==
  /\ holders[Epoch] = "here" /\ claimed # Epoch
  /\ claimed' = Epoch
  /\ config' = <<Epoch, 0>>
  /\ UNCHANGED <<holders, exportVars, injectVars, cache, timeline, farVars, pushes, lost>>

Unpublish ==
  /\ claimed # 0
  /\ claimed' = 0
  /\ UNCHANGED <<holders, config, exportVars, injectVars, cache, timeline, farVars, pushes, lost>>

push(f) ==
  LET x == evict_for_room(exportQ, exportBytes, f)
  IN /\ exportQ' = x.q /\ exportBytes' = x.bytes
     /\ lost' = lost \cup (HeadersOf(exportQ) \ HeadersOf(x.q))
     /\ notifying' = IF f.size > MaxQueueBytes THEN notifying ELSE notifying \cup {f.stream}
     /\ pushes' = pushes + 1
     /\ UNCHANGED <<holders, claimed, permit, exporter, fanning, injectVars, cache, timeline, farVars>>

PushHeader ==
  /\ claimed # 0 /\ pushes < MaxPushes /\ Watched \notin notifying
  /\ config' = [config EXCEPT ![2] = @ + 1]
  /\ push(Frame(Watched, "header", config', 1))

PushMedia(k, n) ==
  /\ claimed # 0 /\ config[2] > 0 /\ pushes < MaxPushes /\ Watched \notin notifying
  /\ push(Frame(Watched, k, config, n))
  /\ UNCHANGED config

PushOther(k) ==
  /\ pushes < MaxPushes /\ Other \notin notifying
  /\ push(Frame(Other, k, <<0, 0>>, 1))
  /\ UNCHANGED config

Permit(p, x) == TRUE

\* push's notify_one, after the queue's lock is released.
Notify(s) ==
  /\ s \in notifying
  /\ notifying' = notifying \ {s}
  /\ permit' = (permit \/ Permit(permit, exporter))
  /\ UNCHANGED <<holders, localVars, exportQ, exportBytes, exporter, fanning, injectVars, cache,
                 timeline, farVars, lost>>

\* wait_and_drain: drain; after an empty queue wait for a permit and drain again.
Drain ==
  /\ exporter = "check"
  /\ exporter' = IF exportQ = <<>> THEN "empty" ELSE "fan"
  /\ fanning' = exportQ /\ exportQ' = <<>> /\ exportBytes' = 0
  /\ UNCHANGED <<holders, localVars, notifying, permit, injectVars, cache, timeline, farVars, lost>>

Sleep ==
  /\ exporter = "empty"
  /\ exporter' = "wait"
  /\ UNCHANGED <<holders, localVars, exportQ, exportBytes, notifying, permit, fanning, injectVars,
                 cache, timeline, farVars, lost>>

Wake ==
  /\ exporter = "wait" /\ permit
  /\ permit' = FALSE /\ exporter' = "check"
  /\ UNCHANGED <<holders, localVars, exportQ, exportBytes, notifying, fanning, injectVars, cache,
                 timeline, farVars, lost>>

\* fanout_local_frame: the timeline, then the cache; the frame goes on to the
\* peers' queues (LiveMediaQueue).  Any timestamp may come from an encoder.
FanOut(ts) ==
  /\ exporter = "fan"
  /\ LET f == Head(fanning)
         e == f.config[1]
     IN IF f.stream = Watched
          THEN /\ timeline' = map(timeline, e, ts)
               /\ cache' = update_from_frame(e, f)
          ELSE UNCHANGED <<timeline, cache>>
  /\ fanning' = Tail(fanning)
  /\ exporter' = IF Len(fanning) = 1 THEN "check" ELSE "fan"
  /\ UNCHANGED <<holders, localVars, exportQ, exportBytes, notifying, permit, injectVars, farVars, lost>>

-----------------------------------------------------------------------------
(***************************************************************************)
(* Messages of the other node: accepted under the tracker's lock, mapped   *)
(* and staged under others, queued last.                                   *)
(***************************************************************************)
Accept(k, m) ==
  /\ holders[Epoch] = "far" /\ arriving[k] = Idle /\ arrivals < MaxArrivals
  /\ arrivals' = arrivals + 1
  /\ arriving' = [arriving EXCEPT ![k] = [pc |-> "accepted", msg |-> m, epoch |-> Epoch]]
  /\ UNCHANGED <<holders, localVars, exportVars, injectVars, cache, timeline, lost>>

FarConfig(k) == <<arriving[k].epoch, 0>>

\* A MediaFrame: its timestamp.
MapFar(k, ts) ==
  /\ arriving[k].pc = "accepted" /\ arriving[k].msg # "init"
  /\ timeline' = map(timeline, arriving[k].epoch, ts)
  /\ arriving' = [arriving EXCEPT ![k].pc = "mapped"]
  /\ UNCHANGED <<holders, localVars, exportVars, injectVars, cache, lost, arrivals>>

\* An InitCache: staged, and given the timestamp the stream has reached.  Only
\* the first message of a timeline maps the keyframe's own.
StageFar(k, hasKey, ts) ==
  /\ arriving[k].pc = "accepted" /\ arriving[k].msg = "init"
  /\ cache' = put_if_epoch_ge([epoch |-> arriving[k].epoch, header |-> FarConfig(k),
                               key |-> IF hasKey THEN FarConfig(k) ELSE NoInit])
  /\ timeline' = IF hasKey /\ timeline.last = 0 THEN map(timeline, arriving[k].epoch, ts)
                 ELSE timeline
  /\ arriving' = [arriving EXCEPT ![k].pc = "mapped", ![k].msg = IF hasKey THEN "initKey" ELSE "init"]
  /\ UNCHANGED <<holders, localVars, exportVars, injectVars, lost, arrivals>>

\* try_send of a frame; of the header and the keyframe of an init cache.
try_send(q, bytes, k, kind) ==
  evict_for_room(q, bytes, Frame(Watched, kind, FarConfig(k), IF kind = "key" THEN 2 ELSE 1))

Inject(k) ==
  /\ arriving[k].pc = "mapped"
  /\ LET m == arriving[k].msg
         x == try_send(injectQ, injectBytes, k, IF m \in {"init", "initKey"} THEN "header" ELSE m)
         y == IF m = "initKey" THEN try_send(x.q, x.bytes, k, "key") ELSE x
     IN injectQ' = y.q /\ injectBytes' = y.bytes
  /\ arriving' = [arriving EXCEPT ![k] = Idle]
  /\ UNCHANGED <<holders, localVars, exportVars, cache, timeline, lost, arrivals>>

\* The poll loop takes what is queued (drain_injects).
TakeInjects ==
  /\ injectQ # <<>>
  /\ injectQ' = <<>> /\ injectBytes' = 0
  /\ UNCHANGED <<holders, localVars, exportVars, cache, timeline, farVars, lost>>

-----------------------------------------------------------------------------
\* Ownership of the stream moves to a new epoch.
Move(h) ==
  /\ Epoch < MaxEpoch
  /\ holders' = Append(holders, h)
  /\ UNCHANGED <<localVars, exportVars, injectVars, cache, timeline, farVars, lost>>

\* The stream is deleted: evict_init_cache_for_stream, prune_deleted_timelines
\* once no local session is left.
Forget ==
  /\ claimed = 0 /\ (cache # NoInit \/ timeline # NewTimeline)
  /\ cache' = NoInit /\ timeline' = NewTimeline
  /\ UNCHANGED <<holders, localVars, exportVars, injectVars, farVars, lost>>

Next ==
  \/ Claim \/ Unpublish \/ PushHeader \/ Drain \/ Sleep \/ Wake \/ TakeInjects \/ Forget
  \/ PushMedia("key", 2) \/ PushMedia("delta", 1) \/ PushMedia("delta", MaxQueueBytes + 1)
  \/ \E k \in {"header", "delta"} : PushOther(k)
  \/ \E s \in {Watched, Other} : Notify(s)
  \/ \E ts \in Stamps : FanOut(ts)
  \/ \E k \in FarConns, m \in FarKinds : Accept(k, m)
  \/ \E k \in FarConns, ts \in Stamps : MapFar(k, ts) \/ StageFar(k, TRUE, ts)
  \/ \E k \in FarConns : StageFar(k, FALSE, 0) \/ Inject(k)
  \/ \E h \in {"here", "far"} : Move(h)

Spec == Init /\ [][Next]_exchangeVars

-----------------------------------------------------------------------------
SumOf(q) == MapThenSumSet(LAMBDA i : q[i].size, DOMAIN q)

(***************************************************************************)
(* The byte counters of both queues say what is queued, and never pass     *)
(* the bound.                                                              *)
(***************************************************************************)
TypeOK ==
  /\ exportBytes = SumOf(exportQ) /\ exportBytes <= MaxQueueBytes
  /\ injectBytes = SumOf(injectQ) /\ injectBytes <= MaxQueueBytes
  /\ exporter \in {"check", "empty", "wait", "fan"} /\ permit \in BOOLEAN
  /\ timeline.last \in 0 .. Wrap - 1 /\ timeline.epoch \in 0 .. MaxEpoch

(***************************************************************************)
(* What a joining subscriber is given decodes: header and keyframe of the  *)
(* init cache belong to the entry's epoch, and a keyframe is never staged  *)
(* with the header of another configuration, whatever an old owner sends   *)
(* late, unless this node's export queue had to give up the keyframe's own *)
(* header (update_from_frame's comment: a keyframe decodes only against    *)
(* the configuration it was produced with).                                *)
(***************************************************************************)
InitDecodes ==
  cache # NoInit =>
    /\ cache.header # NoInit => cache.header[1] = cache.epoch
    /\ cache.key # NoInit =>
         /\ cache.key[1] = cache.epoch
         /\ cache.header \in {NoInit, cache.key} \/ cache.key \in lost

(***************************************************************************)
(* wait_and_drain never sleeps over a queued frame: a frame that waits has *)
(* a wakeup under way.                                                     *)
(***************************************************************************)
NoSleepingExport ==
  exporter = "wait" /\ exportQ # <<>> => permit \/ notifying # {}

(***************************************************************************)
(* Within a queue a codec header is given up only when no stream has a     *)
(* cheaper frame left (evict_for_room: "cheapest class first, across all   *)
(* streams").                                                              *)
(***************************************************************************)
Headers(q) == Len(SelectSeq(q, LAMBDA f : f.kind = "header"))
HeadersLast(q, r) ==
  r # q /\ r # <<>> /\ Headers(r) < Headers(q) =>
    \A i \in 1 .. Len(r) - 1 : r[i].kind = "header"
CriticalLast == [][HeadersLast(exportQ, exportQ')]_exchangeVars

(***************************************************************************)
(* The timeline that players see never goes back: not when ownership       *)
(* moves, not when a frame of the old owner is mapped after one of the     *)
(* new, not when an encoder starts again; at the last value it goes        *)
(* through zero once.                                                      *)
(***************************************************************************)
TimelineForward ==
  [][\/ timeline'.last >= timeline.last
     \/ timeline.last = Wrap - 1 /\ timeline'.last = 0
     \/ timeline' = NewTimeline]_exchangeVars
=============================================================================
