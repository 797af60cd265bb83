------------------------------ MODULE ConnRoles ------------------------------
(***************************************************************************)
(* One RTMP connection with its two roles, publish and play, as three      *)
(* parties see them: the protocol library (what the client is told), the   *)
(* bridge (what the worker granted) and the poll loop's tracker, which     *)
(* brings them together once per tick (process_server_connections) and     *)
(* decides under which stream the connection's media is relayed.           *)
(*                                                                         *)
(* A request's number is also the id of the session granted for it and     *)
(* stands for the session's stream.  The worker answers in order; the      *)
(* library takes an answer only for the request it waits for.              *)
(***************************************************************************)
EXTENDS Naturals, Sequences, SequencesExt, FiniteSets

CONSTANTS MaxRequests,   \* bound: publish and play commands
          MaxFaults      \* bound: SQLite writes that fail

VARIABLES asked,     \* requests so far
          pending,   \* library: request each role waits for, 0 for none
          on,        \* library: is_publishing, is_playing
          jobs,      \* the worker's queue
          answers,   \* completions on their way to the poll thread
          held,      \* bridge: session of each role, 0 for none
          stream,    \* bridge: stream_id of the connection
          known,     \* tracker: publishing, playing
          relay,     \* relay_key, 0 when relaying is off
          pc,        \* where the poll thread is
          leaving,   \* session the poll thread has deactivated
          idle,      \* has the pre-auth window run out?
          forced,    \* pending_force_close
          closed,    \* the poll loop has closed the connection
          faults,    \* history: failed writes
          newest,    \* history: latest request of each role
          running,   \* history: request of the grant the library took last
          lost,      \* history: roles that lost a session they were granted
          calm       \* history: since the tick began the other threads did nothing
                     \* and no write failed

roleVars == <<asked, pending, on, jobs, answers, held, stream, known, relay, pc,
              leaving, idle, forced, closed, faults, newest, running, lost, calm>>

Roles == {"publish", "play"}
Other(r) == CHOOSE o \in Roles : o # r
Nothing == [role |-> "publish", id |-> 0, superseded |-> FALSE]
Neither == [r \in Roles |-> 0]

library == <<asked, pending, on>>
bridge == <<held, stream>>
tracker == <<known, relay>>
history == <<newest, running, lost>>

Init ==
  /\ asked = 0 /\ pending = Neither /\ on = [r \in Roles |-> FALSE]
  /\ jobs = <<>> /\ answers = <<>>
  /\ held = Neither /\ stream = 0
  /\ known = [r \in Roles |-> FALSE] /\ relay = 0
  /\ pc = "rest" /\ leaving = Nothing
  /\ idle = FALSE /\ forced = FALSE /\ closed = FALSE /\ faults = 0
  /\ newest = Neither /\ running = Neither /\ lost = {} /\ calm = FALSE

-----------------------------------------------------------------------------
(* The client, inside server.poll                                          *)

Command(r) ==
  /\ pc = "rest" /\ ~closed /\ asked < MaxRequests
  /\ asked' = asked + 1
  /\ newest' = [newest EXCEPT ![r] = asked']
  /\ calm' = FALSE

\* The library stops relaying while a publisher is renamed.
submit_auth(r) ==
  /\ Command(r)
  /\ pending' = [pending EXCEPT ![r] = asked']
  /\ jobs' = Append(jobs, [role |-> r, id |-> asked'])
  /\ relay' = IF r = "publish" /\ on[r] THEN 0 ELSE relay
  /\ UNCHANGED <<on, answers, bridge, known, pc, leaving, idle, forced, closed,
                 faults, running, lost>>

\* The stream a new session of role r gives the connection.
StreamWith(r, id) ==
  IF r = "publish" \/ held["publish"] = 0 \/ stream = 0 THEN id ELSE stream

Queued(r) == \E i \in DOMAIN jobs : jobs[i].role = r

\* fast_authorize_publish, fast_authorize_play
fast_authorize(r) ==
  /\ held[r] = 0
  /\ Command(r)
  /\ pending' = [pending EXCEPT ![r] = 0] /\ on' = [on EXCEPT ![r] = TRUE]
  /\ held' = [held EXCEPT ![r] = asked'] /\ stream' = StreamWith(r, asked')
  /\ running' = [running EXCEPT ![r] = asked']
  /\ lost' = IF Queued(r) THEN lost \cup {r} ELSE lost
  /\ UNCHANGED <<jobs, answers, tracker, pc, leaving, idle, forced, closed, faults>>

\* FCUnpublish, closeStream: the role ends and its request is dropped.
StopRole(r) ==
  /\ pc = "rest" /\ ~closed /\ (on[r] \/ pending[r] # 0)
  /\ on' = [on EXCEPT ![r] = FALSE] /\ pending' = [pending EXCEPT ![r] = 0]
  /\ calm' = FALSE
  /\ UNCHANGED <<asked, jobs, answers, bridge, tracker, pc, leaving, idle, forced,
                 closed, faults, history>>

WindowEnds ==
  /\ pc = "rest" /\ ~idle /\ ~closed
  /\ idle' = TRUE
  /\ UNCHANGED <<library, jobs, answers, bridge, tracker, pc, leaving, forced, closed,
                 faults, history, calm>>

-----------------------------------------------------------------------------
(* The worker                                                              *)

\* A grant replaces the role's session; a denial leaves the prior one.
Work ==
  /\ jobs # <<>> /\ jobs' = Tail(jobs) /\ calm' = FALSE
  /\ LET j == Head(jobs) IN
     IF j.role = "close"
     THEN held' = Neither /\ stream' = 0 /\ UNCHANGED answers
     ELSE \/ /\ held' = [held EXCEPT ![j.role] = j.id]
             /\ stream' = StreamWith(j.role, j.id)
             /\ answers' = Append(answers, [role |-> j.role, id |-> j.id, allow |-> TRUE])
          \/ /\ answers' = Append(answers, [role |-> j.role, id |-> j.id, allow |-> FALSE])
             /\ UNCHANGED bridge
  /\ UNCHANGED <<library, tracker, pc, leaving, idle, forced, closed, faults, history>>

\* abandon_roles_for_stream, or a row that could not be written
ForceClose ==
  /\ ~forced /\ ~closed /\ held # Neither
  /\ forced' = TRUE /\ held' = Neither /\ stream' = 0 /\ calm' = FALSE
  /\ UNCHANGED <<library, jobs, answers, tracker, pc, leaving, idle, closed, faults, history>>

-----------------------------------------------------------------------------
(* A tick                                                                  *)

TickStarts ==
  /\ pc = "rest" /\ ~closed
  /\ pc' = "drain" /\ calm' = TRUE
  /\ UNCHANGED <<library, jobs, answers, bridge, tracker, leaving, idle, forced, closed,
                 faults, history>>

\* Mutant: the session to give up is not compared.
release_whatever(r, id) == held[r] # 0

\* release_publisher_if_id and release_player_if_id act on one session.
StillHolds(r, id) == held[r] = id

\* The deactivation succeeds, or fails and leaves the role in place.
Deactivate(r, superseded) ==
  \/ /\ leaving' = [role |-> r, id |-> held[r], superseded |-> superseded]
     /\ UNCHANGED <<faults, calm>>
  \/ faults < MaxFaults /\ faults' = faults + 1 /\ calm' = FALSE /\ UNCHANGED leaving

\* A granted answer that the library no longer wants gives its session back.
apply_auth_completion ==
  /\ pc = "drain" /\ leaving = Nothing /\ answers # <<>>
  /\ answers' = Tail(answers)
  /\ LET a == Head(answers)
         wanted == pending[a.role] = a.id
         applied == pending'[a.role] = 0 /\ on'[a.role]
     IN
     /\ running' = IF wanted /\ a.allow THEN [running EXCEPT ![a.role] = a.id] ELSE running
     /\ pending' = IF wanted THEN [pending EXCEPT ![a.role] = 0] ELSE pending
     /\ \E stays \in BOOLEAN :    \* does a refused switch end the role?
           on' = IF ~wanted THEN on
                 ELSE [on EXCEPT ![a.role] = IF a.allow THEN TRUE ELSE @ /\ stays]
     /\ IF a.allow /\ ~applied /\ StillHolds(a.role, a.id)
        THEN Deactivate(a.role, TRUE) ELSE UNCHANGED <<leaving, faults, calm>>
  /\ UNCHANGED <<asked, jobs, bridge, tracker, pc, idle, forced, closed, newest, lost>>

Reject ==
  /\ closed' = TRUE /\ pc' = "rest" /\ calm' = FALSE
  /\ known' = [r \in Roles |-> FALSE] /\ relay' = 0
  /\ on' = [r \in Roles |-> FALSE] /\ pending' = Neither
  /\ jobs' = Append(jobs, [role |-> "close", id |-> 0])
  /\ forced' = FALSE

should_evict_idle_conn == idle /\ ~known["publish"] /\ ~known["play"] /\ held = Neither

DrainEnds ==
  /\ pc = "drain" /\ leaving = Nothing /\ answers = <<>>
  /\ IF should_evict_idle_conn \/ forced
     THEN Reject
     ELSE /\ pc' = "publish"
          /\ UNCHANGED <<pending, on, jobs, tracker, forced, closed, calm>>
  /\ UNCHANGED <<asked, answers, bridge, leaving, idle, faults, history>>

\* The library no longer has the role: give the bridge's session back, unless
\* a request is pending whose session the worker may just have installed.  The
\* code spares the pending request only where the tracker does not know the role.
Ended(r) == ~on[r] /\ (known[r] \/ (held[r] # 0 /\ pending[r] = 0))

AfterVisit(r) == IF r = "publish" THEN "play" ELSE "sync"

\* The tracker and the relay key once the bridge holds no session of r.
Forget(r) ==
  /\ known' = [known EXCEPT ![r] = FALSE]
  /\ relay' = IF on[Other(r)] THEN stream' ELSE 0
  /\ idle' = (idle /\ on[Other(r)])

\* History: the release may take the session of the request that is pending.
VisitRole(r) ==
  /\ pc = r /\ leaving = Nothing
  /\ \/ /\ Ended(r) /\ held[r] # 0
        /\ Deactivate(r, FALSE)
        /\ lost' = IF held[r] = pending[r] THEN lost \cup {r} ELSE lost
        /\ pc' = IF leaving' = Nothing THEN AfterVisit(r) ELSE pc
        /\ UNCHANGED <<stream, tracker, idle>>
     \/ /\ Ended(r) /\ held[r] = 0
        /\ pc' = AfterVisit(r) /\ stream' = stream /\ Forget(r)
        /\ UNCHANGED <<leaving, faults, lost, calm>>
     \/ /\ ~Ended(r) /\ pc' = AfterVisit(r)
        /\ UNCHANGED <<stream, tracker, idle, leaving, faults, lost, calm>>
  /\ UNCHANGED <<library, jobs, answers, held, forced, closed, newest, running>>

\* The second half of a release: the role is cleared if it has not moved on.
ReleaseClears ==
  /\ leaving # Nothing
  /\ LET r == leaving.role
         same == held[r] = leaving.id
         gone == held'[r] = 0
     IN
     /\ held' = IF same THEN [held EXCEPT ![r] = 0] ELSE held
     /\ stream' = IF same THEN held[Other(r)] ELSE stream
     /\ IF leaving.superseded
        THEN UNCHANGED <<tracker, idle, pc>>
        ELSE /\ pc' = AfterVisit(r)
             /\ IF gone THEN Forget(r) ELSE UNCHANGED <<tracker, idle>>
  /\ leaving' = Nothing
  /\ UNCHANGED <<library, jobs, answers, forced, closed, faults, history, calm>>

\* A rename is over: the bridge has the publisher and nothing is pending.
Renamed == on["publish"] /\ held["publish"] # 0 /\ pending = Neither

\* New roles are tracked, and a connection that runs one without a session
\* is closed; the relay key follows the bridge.
Sync ==
  LET fresh == {r \in Roles : on[r] /\ ~known[r]}
  IN
  /\ pc = "sync"
  /\ IF \E r \in fresh : held[r] = 0
     THEN Reject
     ELSE /\ pc' = "rest"
          /\ known' = [r \in Roles |-> known[r] \/ r \in fresh]
          /\ relay' = IF fresh # {} \/ (stream # 0 /\ (relay # 0 \/ Renamed))
                      THEN stream ELSE relay
          /\ UNCHANGED <<pending, on, jobs, forced, closed, calm>>
  /\ UNCHANGED <<asked, answers, bridge, leaving, idle, faults, history>>

Next ==
  \/ \E r \in Roles : submit_auth(r) \/ fast_authorize(r) \/ StopRole(r) \/ VisitRole(r)
  \/ Work \/ ForceClose \/ WindowEnds
  \/ TickStarts \/ apply_auth_completion \/ DrainEnds \/ ReleaseClears \/ Sync

-----------------------------------------------------------------------------
TypeOK ==
  /\ pc \in {"rest", "drain", "publish", "play", "sync"}
  /\ held \in [Roles -> 0..MaxRequests] /\ pending \in [Roles -> 0..MaxRequests]
  /\ relay \in 0..MaxRequests /\ stream \in 0..MaxRequests

\* The client's latest request of a role keeps the session it was granted,
\* whatever late answer to an earlier one a tick applies (apply_auth_completion,
\* release_publisher_if_id, release_player_if_id).  Excepted are a session that
\* was force-closed, a fast grant that passed a queued request of the same role
\* (the worker then installs the older one over it), and a session installed for
\* a pending request that the visit of a role the tracker still knows releases
\* before its answer is applied.
NewestKept ==
  \A r \in Roles :
    (on[r] /\ running[r] = newest[r] /\ ~forced /\ ~closed /\ r \notin lost) =>
    held[r] = newest[r]

\* A tick that nobody disturbed and in which no write failed leaves the three
\* views in step, also after ticks whose releases failed: no session outlives its
\* role in the library, media is relayed only under the stream of a session that
\* is held, and once a closed connection's jobs are done nothing is held for it
\* (process_server_connections).
RolesAgree ==
  /\ calm /\ pc = "rest" /\ ~closed /\ ~forced =>
       /\ \A r \in Roles : held[r] # 0 => on[r] \/ pending[r] # 0
       /\ relay # 0 /\ (\A r \in Roles : on[r] => held[r] # 0) =>
             \E r \in Roles : held[r] = relay
  /\ closed /\ jobs = <<>> /\ leaving = Nothing => held = Neither
=============================================================================
