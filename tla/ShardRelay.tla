----------------------------- MODULE ShardRelay -----------------------------
(***************************************************************************)
(* The media relay between the RTMP shards of one process (server.rs).     *)
(*                                                                         *)
(* A shard is a thread that repeats: poll its connections, record the      *)
(* routes of the frames its publishers produced, put the frames and the    *)
(* notices of ended routes into the bounded inboxes of the other shards,   *)
(* signal their wake fds, inject what its own inbox holds, and wait until  *)
(* a socket, its wake fd or the timeout ends the wait.  Injected frames    *)
(* claim their route on the receiving shard; librtmp2 refuses a publish of *)
(* a claimed route, so a claim has to be released when the route ends.     *)
(***************************************************************************)
EXTENDS Naturals, Sequences

CONSTANTS Shards, Conns,
          Home,        \* Conns -> Shards, the shard that accepted it
          Routes,
          Wants,       \* Conns -> the routes the client may publish
          InboxCap,    \* CROSS_SHARD_RELAY_QUEUE_CAPACITY
          MaxFrames,   \* bound: frames a shard exports in one tick
          MaxEnds,     \* bound: undelivered notices of a route when a publish starts
          None

VARIABLES phase,      \* Shards -> the step its thread is at
          publishes,  \* Conns -> the route it publishes, or None
          exported,   \* Shards -> routes of this tick's frames, in order
          routes,     \* Shards -> Routes -> exporting conn (ExportedRoutes)
          connRoute,  \* Conns -> the route it exports (conn_routes)
          renamed,    \* Shards -> Routes -> ends that this tick's frames show
          pendingEnds,\* Shards -> target -> Routes -> notices to deliver
          serving,    \* Shards -> targets it has not finished in this tick
          frames,     \* Shards -> target -> frames still to try
          ends,       \* Shards -> target -> Routes -> notices still to try
          dirty,      \* Shards -> shards it queued something for
          inbox,      \* Shards -> messages received
          claims,     \* Shards -> routes claimed by injected frames
          wake        \* Shards -> whether its wake fd is signalled

sending == <<serving, frames, ends, dirty>>
relayVars == <<phase, publishes, exported, routes, connRoute, renamed, pendingEnds,
               sending, inbox, claims, wake>>

Frame(r) == [kind |-> "frame", route |-> r]
RouteEnded(r) == [kind |-> "ended", route |-> r]
LocalConns(s) == {c \in Conns : Home[c] = s}
NoEnds == [r \in Routes |-> 0]

Init ==
  /\ phase = [s \in Shards |-> "poll"]
  /\ publishes = [c \in Conns |-> None]
  /\ exported = [s \in Shards |-> <<>>]
  /\ routes = [s \in Shards |-> [r \in Routes |-> None]]
  /\ connRoute = [c \in Conns |-> None]
  /\ renamed = [s \in Shards |-> NoEnds]
  /\ pendingEnds = [s \in Shards |-> [t \in Shards |-> NoEnds]]
  /\ serving = [s \in Shards |-> {}]
  /\ frames = [s \in Shards |-> [t \in Shards |-> <<>>]]
  /\ ends = [s \in Shards |-> [t \in Shards |-> NoEnds]]
  /\ dirty = [s \in Shards |-> {}]
  /\ inbox = [s \in Shards |-> <<>>]
  /\ claims = [s \in Shards |-> {}]
  /\ wake = [s \in Shards |-> FALSE]

\* server.poll: a publish is granted unless its route is taken on this shard.
Publish(c, r) ==
  /\ phase[Home[c]] = "poll" /\ publishes[c] # r
  /\ \A t \in Shards, q \in Routes : pendingEnds[Home[c]][t][q] < MaxEnds
  /\ r \in Wants[c] \ claims[Home[c]]
  /\ \A d \in LocalConns(Home[c]) : publishes[d] # r
  /\ publishes' = [publishes EXCEPT ![c] = r]
  /\ UNCHANGED <<phase, exported, routes, connRoute, renamed, pendingEnds, sending,
                 inbox, claims, wake>>

\* ExportedRoutes::record, one frame of connection c for route key.  It reads
\* nothing but the frames and its own tables, so each frame is recorded as it
\* is produced, and the tables are read when the batch is complete.
record(c, key) ==
  LET s == Home[c]
      previous == connRoute[c]
      moved == previous \notin {None, key} /\ routes[s][previous] = c IN
  /\ connRoute' = [connRoute EXCEPT ![c] = key]
  /\ routes' = [routes EXCEPT ![s] =
       [r \in Routes |-> IF r = key THEN c
                         ELSE IF moved /\ r = previous THEN None ELSE @[r]]]
  /\ renamed' = IF moved THEN [renamed EXCEPT ![s][previous] = @ + 1] ELSE renamed

Media(c) ==
  /\ phase[Home[c]] = "poll" /\ publishes[c] # None
  /\ Len(exported[Home[c]]) < MaxFrames
  /\ exported' = [exported EXCEPT ![Home[c]] = Append(@, publishes[c])]
  /\ record(c, publishes[c])
  /\ UNCHANGED <<phase, publishes, pendingEnds, sending, inbox, claims, wake>>

\* The connection closes or stops publishing.
Unpublish(c) ==
  /\ phase[Home[c]] = "poll" /\ publishes[c] # None
  /\ publishes' = [publishes EXCEPT ![c] = None]
  /\ UNCHANGED <<phase, exported, routes, connRoute, renamed, pendingEnds, sending,
                 inbox, claims, wake>>

\* take_ended: the recorded routes whose connection no longer publishes.
Gone(s) == {r \in Routes : routes[s][r] # None /\ publishes[routes[s][r]] = None}

\* How often each route ended in this tick; one that was renamed away and then
\* recorded again is still live.
Ended(s) == [r \in Routes |-> IF r \in Gone(s) THEN 1
                              ELSE IF routes[s][r] = None THEN renamed[s][r] ELSE 0]

\* relay_to_other_shards, up to the first send: the ends become notices for
\* every other shard.
Relay(s) ==
  LET others == Shards \ {s}
      left == [r \in Routes |-> IF r \in Gone(s) THEN None ELSE routes[s][r]]
      notices == [t \in Shards |-> IF t = s THEN NoEnds
                    ELSE [r \in Routes |-> pendingEnds[s][t][r] + Ended(s)[r]]]
  IN
  /\ phase[s] = "poll"
  /\ phase' = [phase EXCEPT ![s] = IF others = {} THEN "inject" ELSE "send"]
  /\ routes' = [routes EXCEPT ![s] = left]
  /\ connRoute' = [c \in Conns |->
       IF /\ Home[c] = s /\ connRoute[c] # None
          /\ publishes[c] = None \/ left[connRoute[c]] # c
       THEN None ELSE connRoute[c]]
  /\ renamed' = [renamed EXCEPT ![s] = NoEnds]
  /\ pendingEnds' = [pendingEnds EXCEPT ![s] = notices]
  /\ serving' = [serving EXCEPT ![s] = others]
  /\ frames' = [frames EXCEPT ![s] = [t \in Shards |-> IF t = s THEN <<>> ELSE exported[s]]]
  /\ ends' = [ends EXCEPT ![s] = notices]
  /\ exported' = [exported EXCEPT ![s] = <<>>]
  /\ dirty' = [dirty EXCEPT ![s] = {}]
  /\ UNCHANGED <<publishes, inbox, claims, wake>>

\* One try_send of s into the bounded inbox of t.
Fits(t) == Len(inbox[t]) < InboxCap

TrySend(s, t, msg) ==
  /\ phase[s] = "send" /\ t \in serving[s]
  /\ inbox' = IF Fits(t) THEN [inbox EXCEPT ![t] = Append(@, msg)] ELSE inbox
  /\ dirty' = IF Fits(t) THEN [dirty EXCEPT ![s] = @ \cup {t}] ELSE dirty
  /\ UNCHANGED <<phase, publishes, exported, routes, connRoute, renamed, serving, claims, wake>>

\* send_to_shard: a frame that does not fit is lost.
SendFrame(s, t) ==
  /\ frames[s][t] # <<>>
  /\ TrySend(s, t, Frame(Head(frames[s][t])))
  /\ frames' = [frames EXCEPT ![s][t] = Tail(@)]
  /\ UNCHANGED <<pendingEnds, ends>>

\* Mutant: a notice that does not fit is dropped like a frame.
ends_dropped(s, t, r) == pendingEnds[s][t][r] - 1

\* A notice that does not fit is kept for the next tick.
Kept(s, t, r) == IF Fits(t) THEN pendingEnds[s][t][r] - 1 ELSE pendingEnds[s][t][r]

\* send_to_shard: the notices for t come after the frames.
SendEnd(s, t, r) ==
  /\ frames[s][t] = <<>> /\ ends[s][t][r] > 0
  /\ TrySend(s, t, RouteEnded(r))
  /\ ends' = [ends EXCEPT ![s][t][r] = @ - 1]
  /\ pendingEnds' = [pendingEnds EXCEPT ![s][t][r] = Kept(s, t, r)]
  /\ UNCHANGED frames

\* The target is woken if anything was queued for it.
Signal(s, t) ==
  /\ phase[s] = "send" /\ t \in serving[s] /\ frames[s][t] = <<>> /\ ends[s][t] = NoEnds
  /\ wake' = [wake EXCEPT ![t] = @ \/ t \in dirty[s]]
  /\ dirty' = [dirty EXCEPT ![s] = @ \ {t}]
  /\ serving' = [serving EXCEPT ![s] = @ \ {t}]
  /\ phase' = [phase EXCEPT ![s] = IF serving[s] = {t} THEN "inject" ELSE @]
  /\ UNCHANGED <<publishes, exported, routes, connRoute, renamed, pendingEnds, frames, ends,
                 inbox, claims>>

\* inject_from_other_shards: a frame claims its route unless a connection of
\* this shard publishes it (inject_relay_frame), a notice releases it.
Inject(s) ==
  /\ phase[s] \in {"inject", "injected"} /\ inbox[s] # <<>>
  /\ LET msg == Head(inbox[s]) IN
     claims' = [claims EXCEPT ![s] =
       IF msg.kind = "ended" THEN @ \ {msg.route}
       ELSE IF \E c \in LocalConns(s) : publishes[c] = msg.route THEN @
       ELSE @ \cup {msg.route}]
  /\ inbox' = [inbox EXCEPT ![s] = Tail(@)]
  /\ phase' = [phase EXCEPT ![s] = "injected"]
  /\ UNCHANGED <<publishes, exported, routes, connRoute, renamed, pendingEnds, sending, wake>>

\* The wake fd is drained when a wait has returned, before the next poll.
Drains(s) == phase[s] \in {"waits", "returns"}

WakeAfter(s) == [wake EXCEPT ![s] = @ /\ ~Drains(s)]

\* After an injection the shard polls again at once, otherwise it waits.
Drained(s) ==
  /\ phase[s] \in {"inject", "injected"} /\ inbox[s] = <<>>
  /\ phase' = [phase EXCEPT ![s] = IF @ = "injected" THEN "returns" ELSE "enters"]
  /\ UNCHANGED <<publishes, exported, routes, connRoute, renamed, pendingEnds, sending,
                 inbox, claims, wake>>

\* epoll_wait is entered.
Wait(s) ==
  /\ phase[s] = "enters"
  /\ phase' = [phase EXCEPT ![s] = "waits"]
  /\ wake' = WakeAfter(s)
  /\ UNCHANGED <<publishes, exported, routes, connRoute, renamed, pendingEnds, sending,
                 inbox, claims>>

\* EpollReadiness::wait ends by its wake fd, a socket or the timeout.
WaitEnds(s) ==
  /\ phase[s] \in {"waits", "returns"}
  /\ phase' = [phase EXCEPT ![s] = "poll"]
  /\ wake' = WakeAfter(s)
  /\ UNCHANGED <<publishes, exported, routes, connRoute, renamed, pendingEnds, sending,
                 inbox, claims>>

Next ==
  \/ \E c \in Conns : Media(c) \/ Unpublish(c) \/ \E r \in Routes : Publish(c, r)
  \/ \E s \in Shards : Relay(s) \/ Inject(s) \/ Drained(s) \/ Wait(s) \/ WaitEnds(s)
  \/ \E s, t \in Shards : SendFrame(s, t) \/ Signal(s, t) \/ \E r \in Routes : SendEnd(s, t, r)

(* A claim never outlives its route: where a shard holds one, another      *)
(* shard still records the route, or its end is on the way: seen in this   *)
(* tick's frames, in an inbox, or waiting for room in one.  A stranded     *)
(* claim would refuse the publisher until the stale-route timeout of 120 s *)
(* (server.rs ShardRelayMsg).                                              *)
NoStrandedClaim ==
  \A t \in Shards : \A r \in claims[t] :
    \/ \E i \in 1..Len(inbox[t]) : inbox[t][i] = RouteEnded(r)
    \/ \E s \in Shards \ {t} :
         routes[s][r] # None \/ renamed[s][r] > 0 \/ pendingEnds[s][t][r] > 0

(* A shard does not sleep on a full inbox: when it waits with messages in  *)
(* its inbox, its wake fd is signalled or the sender is about to signal it *)
(* (server.rs relay_to_other_shards, readiness.rs WakeFd).                 *)
NoLostWakeup ==
  \A s \in Shards : phase[s] = "waits" /\ inbox[s] # <<>> =>
    wake[s] \/ \E o \in Shards : s \in dirty[o]
==============================================================================
