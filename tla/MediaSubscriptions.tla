-------------------------- MODULE MediaSubscriptions --------------------------
(***************************************************************************)
(* How a node asks the owner of a stream for its frames (MediaHub in       *)
(* cluster/media/hub.rs, MediaPeer in peer.rs, subscription.rs) and how    *)
(* the manager drives it for its players and its standby replica.          *)
(*                                                                         *)
(* One stream, one subscribing node, one owner.  The wire has no answer to *)
(* a Subscribe that is accepted; one that is refused is answered by an     *)
(* Error with the generation of the request.  The owner counts Subscribes  *)
(* per connection: a second one on the same connection outlives the        *)
(* Unsubscribe.                                                            *)
(*                                                                         *)
(* Calls of the manager run as tasks of the runtime, retries as sleeping   *)
(* tasks, notes of the reconnect loop and messages of the reader in two    *)
(* more; subscribe_lock makes subscribe, unsubscribe and replay atomic,    *)
(* and a retry does not take it.  Media frames are one message.            *)
(***************************************************************************)
EXTENDS Naturals, Sequences, FiniteSets

CONSTANTS
    Sessions,     \* player rows, and the standby token
    Standby,      \* STANDBY_SUB_OWNER
    QueueMax,     \* control messages that the queue of a peer holds
    NackMax,      \* SUBSCRIBE_NACK_MAX
    RoundMax,     \* SUBSCRIBE_TRANSIENT_MAX_ATTEMPTS
    SendRetries,  \* attempts of one retry task
    MaxBreaks, MaxRefusals, MaxMoves, MaxLives \* bounds

ASSUME SubscriptionAssumption ==
    /\ {NackMax, RoundMax, SendRetries, MaxBreaks, MaxRefusals, MaxMoves, MaxLives}
           \subseteq Nat
    /\ QueueMax \in Nat \ {0}

VARIABLES
    live,       \* per session: new, live, gone
    owner,      \* the stream is owned by the other node
    addr,       \* its media address is known
    tasks,      \* calls of the manager that run later
    owners, wired,  \* OutboundEntry
    gen, next,      \* subscribe_gens of the stream (0: none), next_sub_gen
    nacks, rounds,  \* subscribe_nacks, transient_sub_retries
    retries,    \* run_subscribe_retry tasks
    peer,       \* MediaPeer: none, dialing, up
    conn,       \* history: how many connections are over
    queue,      \* its control messages
    wire,       \* written and not yet read by the owner
    notes,      \* on_reconnected messages
    inbox,      \* what the reader has received
    tally, old, \* owner: conn_subs of the session, of the ones not torn down
    breaks, refusals, moves,
    life,       \* history: how many times the last reference was released
    doubt       \* history: what made the owner's count doubtful

local == <<live, owner, addr, tasks>>
refs == <<owners, wired, gen, next, nacks, rounds>>
peers == <<peer, conn, queue, notes>>
remote == <<wire, inbox, tally, old>>
counts == <<breaks, refusals, moves>>
vars == <<local, refs, retries, peers, remote, counts, life, doubt>>

Codes == {"SUBSCRIBE_DENIED", "SUBSCRIBE_UNAVAILABLE"}
Subscribe(g) == [op |-> "Subscribe", generation |-> g, life |-> life]
Unsubscribe == [op |-> "Unsubscribe", generation |-> 0, life |-> life]
\* Mutant: one message too many.
fits_at_bound(q) == Len(q) <= QueueMax

Fits(q) == Len(q) < QueueMax

\* The owner counts a Subscribe of this connection once it has read the messages
\* ms: the last of them is one, or none is left and one is counted.
Pending(ms) == IF ms = <<>> THEN tally > 0 ELSE ms[Len(ms)].op = "Subscribe"

\* This connection has a Subscribe already: counted, on its way or refused with
\* the answer on its way.
Sent(q) == \/ Pending(wire \o q)
           \/ \E i \in DOMAIN inbox : inbox[i].op \in Codes /\ inbox[i].conn = conn

Doubted(why, cond) == IF cond THEN {why} ELSE {}

-----------------------------------------------------------------------------
(* What the manager asks for: every call is a task. *)

Spawn(op, who) == tasks' = Append(tasks, [op |-> op, who |-> who])

\* A session starts to play; reconcile_media_replicas does the same for the
\* standby token, but not before the address is known.
notify_play_subscription(s) ==
    /\ live[s] = "new" /\ live' = [live EXCEPT ![s] = "live"]
    /\ s = Standby => owner /\ addr /\ life < MaxLives
    /\ IF owner THEN Spawn("sub", {s}) ELSE UNCHANGED tasks
    /\ UNCHANGED <<owner, addr, refs, retries, peers, remote, counts, life, doubt>>

notify_play_unsubscribe(s) ==
    /\ live[s] = "live" /\ live' = [live EXCEPT ![s] = "gone"]
    /\ IF owner \/ s = Standby THEN Spawn("unsub", {s}) ELSE UNCHANGED tasks
    /\ UNCHANGED <<owner, addr, refs, retries, peers, remote, counts, life, doubt>>

Playing == {s \in Sessions \ {Standby} : live[s] = "live"}

\* The tracker moves the stream to this node, where every reference to the old
\* owner is dropped (unsubscribe_captured_remote_owners), or back, where every
\* player asks again (refresh_subscriptions_for).
OwnerMoves ==
    /\ moves < MaxMoves /\ moves' = moves + 1
    /\ owner' = ~owner
    /\ IF owner THEN Spawn("all", Sessions)
       ELSE IF Playing # {} THEN Spawn("sub", Playing) ELSE UNCHANGED tasks
    /\ UNCHANGED <<live, addr, refs, retries, peers, remote, breaks, refusals, life, doubt>>

\* Task i runs; Overtaking it passes an earlier one of another kind.
Take(i) ==
    tasks' = SubSeq(tasks, 1, i - 1) \o SubSeq(tasks, i + 1, Len(tasks))
TakeOne(i, s) ==
    IF tasks[i].who = {s} THEN Take(i)
    ELSE tasks' = [tasks EXCEPT ![i].who = @ \ {s}]
Overtaking(i) == Doubted("overtaken", \E j \in 1..(i - 1) : tasks[j].op # tasks[i].op)

-----------------------------------------------------------------------------
(* MediaHub on the subscribing node. *)

\* resubscribe_peer_locked for the references o on the queue q: the outcome.
Replayed(o, q) ==
    LET g == IF gen = 0 THEN next ELSE gen
        ask == o # {} /\ owner
    IN [wired |-> ask /\ Fits(q),
        gen |-> IF ask THEN g ELSE gen,
        next |-> IF ask /\ gen = 0 THEN next + 1 ELSE next,
        queue |-> IF ask /\ Fits(q) THEN Append(q, Subscribe(g)) ELSE q,
        retries |-> IF ask /\ ~Fits(q)
                    THEN retries \cup {[gen |-> g, left |-> SendRetries, st |-> "sleep", seen |-> <<>>, by |-> conn]}
                    ELSE retries,
        doubt |-> Doubted("replayed", o # {} /\ Sent(q))]

Apply(r) ==
    /\ wired' = r.wired /\ gen' = r.gen /\ next' = r.next
    /\ queue' = r.queue /\ retries' = r.retries

\* ensure_peer_locked when there is no peer: the fresh one gets every reference.
FreshPeer(o) ==
    /\ peer = "none" /\ peer' = "dialing"
    /\ Apply(Replayed(o, <<>>))

subscribe_remote(i, s) ==
    LET o == owners \cup {s} IN
    /\ i \in DOMAIN tasks /\ tasks[i].op = "sub" /\ s \in tasks[i].who /\ TakeOne(i, s)
    /\ rounds' = IF owners = {} THEN 0 ELSE rounds
    /\ \/ /\ ~addr /\ owners' = o
          /\ UNCHANGED <<live, wired, gen, next, retries, peer, queue, life>>
          /\ doubt' = doubt \cup Overtaking(i)
       \/ /\ addr /\ FreshPeer(o) /\ owners' = o
          /\ doubt' = doubt \cup Overtaking(i)
          /\ UNCHANGED <<live, life>>
       \/ /\ addr /\ peer # "none" /\ (wired \/ ~owner) /\ owners' = o
          /\ doubt' = doubt \cup Overtaking(i)
          /\ UNCHANGED <<live, wired, gen, next, retries, peer, queue, life>>
       \/ /\ addr /\ peer # "none" /\ ~wired /\ owner /\ Fits(queue)
          /\ owners' = o /\ wired' = TRUE
          /\ queue' = Append(queue, Subscribe(gen))
          /\ doubt' = doubt \cup Overtaking(i) \cup
                 Doubted("replayed", Sent(queue))
          /\ UNCHANGED <<live, gen, next, retries, peer, life>>
       \/ /\ addr /\ peer # "none" /\ ~wired /\ owner /\ ~Fits(queue)
          /\ IF o = {s}
             THEN /\ owners' = {} /\ gen' = next /\ next' = next + 1 /\ life' = life + 1
                  /\ live' = IF s = Standby /\ live[s] = "live"
                             THEN [live EXCEPT ![s] = "new"] ELSE live
                  /\ doubt' = doubt \cup Overtaking(i)
             ELSE /\ owners' = o /\ UNCHANGED <<gen, next, life, live>>
                  /\ doubt' = doubt \cup Overtaking(i) \cup
                         Doubted("gave up", retries = {})
          /\ UNCHANGED <<wired, retries, peer, queue>>
    /\ UNCHANGED <<owner, addr, nacks, conn, notes, remote, counts>>

\* Mutant: the last reference stays in the entry.
reference_kept ==
    /\ gen' = next /\ next' = next + 1 /\ nacks' = 0 /\ rounds' = 0
    /\ UNCHANGED owners /\ wired' = FALSE /\ life' = life + 1
    /\ queue' = IF peer # "none" /\ Fits(queue) THEN Append(queue, Unsubscribe) ELSE queue

finish_unsubscribe ==
    /\ gen' = next /\ next' = next + 1 /\ nacks' = 0 /\ rounds' = 0
    /\ owners' = {} /\ wired' = FALSE /\ life' = life + 1
    /\ queue' = IF peer # "none" /\ Fits(queue) THEN Append(queue, Unsubscribe) ELSE queue

\* The Unsubscribe of a connection that may have a Subscribe is not queued.
Dropped == Doubted("dropped", peer # "none" /\ ~Fits(queue))

unsubscribe_remote(i, s) ==
    /\ i \in DOMAIN tasks /\ tasks[i] = [op |-> "unsub", who |-> {s}] /\ Take(i)
    /\ IF owners = {s} THEN finish_unsubscribe /\ doubt' = doubt \cup Overtaking(i) \cup Dropped
       ELSE /\ owners' = owners \ {s} /\ doubt' = doubt \cup Overtaking(i)
            /\ UNCHANGED <<gen, next, nacks, rounds, wired, life, queue>>
    /\ UNCHANGED <<live, owner, addr, retries, peer, conn, notes, remote, counts>>

unsubscribe_remote_all(i) ==
    /\ i \in DOMAIN tasks /\ tasks[i].op = "all" /\ Take(i)
    /\ IF owners # {} THEN finish_unsubscribe /\ doubt' = doubt \cup Overtaking(i) \cup Dropped
       ELSE /\ doubt' = doubt \cup Overtaking(i)
            /\ UNCHANGED <<owners, gen, next, nacks, rounds, wired, life, queue>>
    /\ UNCHANGED <<live, owner, addr, retries, peer, conn, notes, remote, counts>>

\* The address is learned, or a heartbeat dials again: connect_peer.
connect_peer ==
    /\ addr' = TRUE /\ FreshPeer(owners)
    /\ UNCHANGED <<live, owner, tasks, owners, nacks, rounds, conn, notes, remote, counts, life, doubt>>

\* The advertised address changed: the peer is closed and replaced.
ReplacePeer ==
    /\ peer # "none" /\ breaks < MaxBreaks /\ breaks' = breaks + 1
    /\ peer' = "dialing" /\ conn' = conn + 1 /\ Apply(Replayed(owners, <<>>))
    /\ wire' = <<>> /\ tally' = 0 /\ old' = old + tally
    /\ UNCHANGED <<local, owners, nacks, rounds, notes, inbox, refusals, moves, life, doubt>>

\* The owner left the membership.
disconnect_peer ==
    /\ peer # "none" /\ breaks < MaxBreaks /\ breaks' = breaks + 1
    /\ peer' = "none" /\ conn' = conn + 1 /\ queue' = <<>>
    /\ gen' = IF gen = 0 /\ owners = {} /\ nacks = 0 THEN 0 ELSE next
    /\ next' = IF gen = 0 /\ owners = {} /\ nacks = 0 THEN next ELSE next + 1
    /\ owners' = {} /\ wired' = FALSE /\ nacks' = 0 /\ rounds' = 0
    /\ life' = life + 1
    /\ wire' = <<>> /\ tally' = 0 /\ old' = old + tally
    /\ UNCHANGED <<local, retries, notes, inbox, refusals, moves, doubt>>

\* resubscribe_peer for a note of the reconnect loop.
resubscribe_peer ==
    /\ notes > 0 /\ notes' = notes - 1
    /\ IF peer = "none" THEN UNCHANGED <<wired, gen, next, queue, retries, doubt>>
       ELSE LET r == Replayed(owners, queue) IN Apply(r) /\ doubt' = doubt \cup r.doubt
    /\ UNCHANGED <<local, owners, nacks, rounds, peer, conn, remote, counts, life>>

\* bump_sub_gen of another stream prunes the map: a generation without a
\* reference and without a NACK goes.
PruneGens ==
    /\ gen # 0 /\ nacks = 0 /\ owners = {} /\ gen' = 0
    /\ UNCHANGED <<local, owners, wired, next, nacks, rounds, retries, peers, remote, counts,
                   life, doubt>>

\* The task goes on to send; seen is history, what its checks saw.
Checked(r) == [r EXCEPT !.st = "send", !.seen = <<wired, gen, life>>]

\* Mutant: the retry sends although somebody else has subscribed.
retry_unchecked(r) ==
    /\ r \in retries /\ r.st = "sleep"
    /\ retries' = IF gen = r.gen /\ owners # {} /\ peer # "none"
                  THEN (retries \ {r}) \cup {Checked(r)} ELSE retries \ {r}
    /\ UNCHANGED <<local, refs, peers, remote, counts, life, doubt>>

\* run_subscribe_retry wakes: its checks.
RetryChecks(r) ==
    /\ r \in retries /\ r.st = "sleep"
    /\ retries' = IF gen = r.gen /\ owners # {} /\ ~wired /\ peer # "none"
                  THEN (retries \ {r}) \cup {Checked(r)}
                  ELSE retries \ {r}
    /\ UNCHANGED <<local, refs, peers, remote, counts, life, doubt>>

\* The send that follows them; nothing is locked in between.
RetrySends(r) ==
    /\ r \in retries /\ r.st = "send"
    /\ IF peer # "none" /\ Fits(queue)
       THEN /\ queue' = Append(queue, Subscribe(gen)) /\ wired' = (owners # {})
            /\ retries' = retries \ {r}
            /\ doubt' = doubt \cup Doubted("raced", r.seen # <<wired, gen, life>>)
       ELSE /\ UNCHANGED <<queue, wired>>
            /\ retries' = (retries \ {r}) \cup
                   IF r.left > 0
                   THEN {[r EXCEPT !.st = "sleep", !.seen = <<>>, !.left = @ - 1]} ELSE {}
            /\ doubt' = doubt \cup Doubted("gave up", r.left = 0)
    /\ UNCHANGED <<local, owners, gen, next, nacks, rounds, peer, conn, notes, remote, counts, life>>

-----------------------------------------------------------------------------
(* handle_inbound. *)

Received == inbox # <<>> /\ inbox' = Tail(inbox)

\* A frame or an init cache of the owner ends the NACK ladder.
FrameArrives ==
    /\ Received /\ Head(inbox).op = "frame"
    /\ IF owner THEN /\ rounds' = 0 /\ nacks' = 0
                     /\ gen' = IF nacks > 0 THEN next ELSE gen
                     /\ next' = IF nacks > 0 THEN next + 1 ELSE next
       ELSE UNCHANGED <<rounds, nacks, gen, next>>
    \* History: the new generation voids the retry that was to subscribe again.
    /\ doubt' = doubt \cup
           Doubted("fenced", /\ owner /\ nacks > 0 /\ ~wired
                             /\ \E r \in retries : r.gen = gen)
    /\ UNCHANGED <<local, owners, wired, retries, peers, wire, tally, old, counts, life>>

Fenced(m) == owners = {} \/ (m.generation # 0 /\ m.generation # gen)

\* History: the error answers a Subscribe that is not the last one, and its
\* generation does not tell.
Stale(m) == Doubted("stale error", /\ m.conn # conn \/ m.life # life
                                   /\ m.generation \in {0, gen})

FencedError ==
    LET m == Head(inbox) IN
    /\ Received /\ m.op \in Codes /\ Fenced(m)
    \* History: a frame of the old connection bumped the generation of the request.
    /\ doubt' = doubt \cup
           Doubted("fenced", owners # {} /\ m.conn = conn /\ m.life = life)
    /\ UNCHANGED <<local, refs, retries, peers, wire, tally, old, counts, life>>

\* Mutant: a refusal is not retried.
retry_not_scheduled(g) == UNCHANGED retries

Retry(g) == retries' = retries \cup
                {[gen |-> g, left |-> SendRetries, st |-> "sleep", seen |-> <<>>, by |-> refusals]}

TransientError ==
    LET m == Head(inbox) IN
    /\ Received /\ m.op = "SUBSCRIBE_UNAVAILABLE" /\ ~Fenced(m)
    /\ wired' = FALSE
    /\ IF rounds >= RoundMax
       THEN /\ UNCHANGED <<rounds, gen, next, retries>>
            /\ doubt' = doubt \cup Stale(m) \cup {"gave up"}
       ELSE /\ rounds' = rounds + 1
            /\ gen' = IF gen = 0 THEN next ELSE gen
            /\ next' = IF gen = 0 THEN next + 1 ELSE next
            /\ Retry(gen') /\ doubt' = doubt \cup Stale(m)
    /\ UNCHANGED <<local, owners, nacks, peers, wire, tally, old, counts, life>>

DeniedError ==
    LET m == Head(inbox) IN
    /\ Received /\ m.op = "SUBSCRIBE_DENIED" /\ ~Fenced(m)
    /\ wired' = FALSE
    /\ IF nacks + 1 > NackMax
       THEN /\ nacks' = 0 /\ rounds' = 0 /\ gen' = next + 1 /\ next' = next + 2
            /\ UNCHANGED retries
            /\ doubt' = doubt \cup Stale(m) \cup {"gave up"}
       ELSE /\ nacks' = nacks + 1
            /\ gen' = IF gen = 0 THEN next ELSE gen
            /\ next' = IF gen = 0 THEN next + 1 ELSE next
            /\ Retry(gen') /\ doubt' = doubt \cup Stale(m) /\ UNCHANGED rounds
    /\ UNCHANGED <<local, owners, peers, wire, tally, old, counts, life>>

-----------------------------------------------------------------------------
(* MediaPeer's connection, and run_inbound_media_session on the owner. *)

\* The connection is accepted: a new session supersedes the old one.
Connected ==
    /\ peer = "dialing" /\ peer' = "up"
    /\ UNCHANGED <<local, refs, retries, conn, queue, notes, remote, counts, life, doubt>>

WriteMessage ==
    /\ peer = "up" /\ queue # <<>>
    /\ queue' = Tail(queue) /\ wire' = Append(wire, Head(queue))
    /\ UNCHANGED <<local, refs, retries, peer, conn, notes, inbox, tally, old, counts, life, doubt>>

\* The connection breaks, with or without the message that is being written;
\* what the reader had not received is lost.  Control messages stay queued.
ConnectionLost ==
    /\ peer = "up" /\ breaks < MaxBreaks /\ breaks' = breaks + 1
    /\ peer' = "dialing" /\ conn' = conn + 1 /\ notes' = notes + 1
    /\ queue' \in {queue} \cup (IF queue = <<>> THEN {} ELSE {Tail(queue)})
    /\ inbox' \in {inbox, <<>>}
    /\ wire' = <<>> /\ tally' = 0 /\ old' = old + tally
    /\ UNCHANGED <<local, refs, retries, refusals, moves, life, doubt>>

Read == peer = "up" /\ wire # <<>> /\ wire' = Tail(wire)

\* The gate allows it: the registration is kept even if its init cache cannot be
\* queued.
SubscribeAllowed ==
    /\ Read /\ Head(wire).op = "Subscribe"
    /\ tally' = tally + 1
    /\ UNCHANGED <<local, refs, retries, peers, inbox, old, counts, life, doubt>>

SubscribeRefused(code) ==
    /\ Read /\ Head(wire).op = "Subscribe"
    /\ refusals < MaxRefusals /\ refusals' = refusals + 1
    /\ inbox' = Append(inbox, [op |-> code, generation |-> Head(wire).generation,
                               conn |-> conn, life |-> Head(wire).life])
    /\ UNCHANGED <<local, refs, retries, peers, tally, old, breaks, moves, life, doubt>>

UnsubscribeRead ==
    /\ Read /\ Head(wire).op = "Unsubscribe"
    /\ tally' = IF tally > 0 THEN tally - 1 ELSE 0
    /\ UNCHANGED <<local, refs, retries, peers, inbox, old, counts, life, doubt>>

\* A session that ended gives back its own Subscribes.
TearDown ==
    /\ old > 0 /\ old' = 0
    /\ UNCHANGED <<local, refs, retries, peers, wire, inbox, tally, counts, life, doubt>>

FanOut ==
    /\ peer = "up" /\ tally > 0 /\ \A i \in DOMAIN inbox : inbox[i].op # "frame"
    /\ nacks > 0 \/ rounds > 0 \* otherwise a frame changes nothing here
    /\ inbox' = Append(inbox, [op |-> "frame", generation |-> 0, conn |-> conn, life |-> 0])
    /\ UNCHANGED <<local, refs, retries, peers, wire, tally, old, counts, life, doubt>>

-----------------------------------------------------------------------------
Init ==
    /\ live = [s \in Sessions |-> "new"] /\ owner = TRUE /\ addr \in BOOLEAN /\ tasks = <<>>
    /\ owners = {} /\ wired = FALSE /\ gen = 0 /\ next = 1 /\ nacks = 0 /\ rounds = 0
    /\ retries = {} /\ peer = "none" /\ conn = 0 /\ queue = <<>> /\ notes = 0
    /\ wire = <<>> /\ inbox = <<>> /\ tally = 0 /\ old = 0
    /\ breaks = 0 /\ refusals = 0 /\ moves = 0 /\ life = 0 /\ doubt = {}

Next ==
    \/ \E s \in Sessions : notify_play_subscription(s)
    \/ \E s \in Sessions : notify_play_unsubscribe(s)
    \/ OwnerMoves
    \/ \E i \in DOMAIN tasks, s \in Sessions : subscribe_remote(i, s)
    \/ \E i \in DOMAIN tasks, s \in Sessions : unsubscribe_remote(i, s)
    \/ \E i \in DOMAIN tasks : unsubscribe_remote_all(i)
    \/ connect_peer \/ ReplacePeer \/ disconnect_peer \/ resubscribe_peer \/ PruneGens
    \/ \E r \in retries : RetryChecks(r)
    \/ \E r \in retries : RetrySends(r)
    \/ FrameArrives \/ FencedError \/ TransientError \/ DeniedError
    \/ Connected \/ WriteMessage \/ ConnectionLost
    \/ SubscribeAllowed \/ (\E c \in Codes : SubscribeRefused(c)) \/ UnsubscribeRead
    \/ TearDown \/ FanOut

Spec == Init /\ [][Next]_vars

-----------------------------------------------------------------------------
(* Properties. *)

TypeOK ==
    /\ live \in [Sessions -> {"new", "live", "gone"}] /\ owners \subseteq Sessions
    /\ {owner, addr, wired} \subseteq BOOLEAN
    /\ peer \in {"none", "dialing", "up"}
    /\ {gen, next, nacks, rounds, conn, notes, tally, old, life} \subseteq Nat
    /\ Len(queue) <= QueueMax /\ nacks <= NackMax /\ rounds <= RoundMax
    /\ gen < next /\ \A r \in retries : r.gen \in 1..(next - 1) /\ r.left <= SendRetries

\* None of the events that are known to break the count has happened: a Subscribe
\* sent twice because the first one was still queued when the connection broke
\* (replayed), a retry that passed its checks before somebody else subscribed
\* (raced), an Unsubscribe that found the queue full (dropped), a task that
\* overtook an earlier one (overtaken), the answer to an earlier request taken
\* for that of the last (stale error), or the last answer or the last retry
\* ignored because a late frame started a new generation (fenced).
Trusted == doubt \subseteq {"gave up"}

\* The owner counts a connection's Subscribe once: however players, replays,
\* refusals and retries interleave, no second Subscribe reaches it while the
\* first one counts.
CountedOnce == Trusted => tally <= 1

Quiet ==
    /\ tasks = <<>> /\ retries = {} /\ notes = 0 /\ peer = "up"
    /\ queue = <<>> /\ wire = <<>> /\ inbox = <<>>

\* When everything has been handled the owner feeds this node exactly if a
\* session wants the stream: there is no subscription without a viewer, and no
\* viewer whose stream stays dark, unless the retries are used up.
FedWhenWanted ==
    Trusted /\ Quiet =>
        /\ owners = {} => tally = 0
        /\ owners # {} /\ owner => tally >= 1 \/ "gave up" \in doubt

\* The references are those of the sessions that still play.
NoLeakedRef == Trusted /\ tasks = <<>> => \A s \in owners : live[s] = "live"
=============================================================================
