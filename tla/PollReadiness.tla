---------------------------- MODULE PollReadiness ----------------------------
(***************************************************************************)
(* The readiness set of a shard's poll loop (readiness.rs, ReadinessWaiter *)
(* in server.rs).  The loop keeps a table of what it registered with epoll *)
(* and issues epoll_ctl only for what changed; the kernel forgets a        *)
(* registration by itself when its descriptor is closed, and gives the     *)
(* number to the next connection.  A connection that the kernel does not   *)
(* report is never read again, so table and kernel must not drift apart.   *)
(***************************************************************************)
EXTENDS Naturals, FiniteSets, FiniteSetsExt

CONSTANTS Fds,        \* descriptors of connections
          Listener,   \* the listener's descriptor
          MaxConns,   \* max_connections of the shard
          MaxId       \* bound: connection ids given out

VARIABLES polling,    \* where the loop is: "works", "waits" or "blind"
          connOf,     \* Fds -> connection id, 0 when closed
          backlog,    \* Fds -> outbound bytes are queued
          lastId,     \* newest connection id given out
          registered, \* descriptors -> Interest or NoInterest (the table)
          kernel,     \* descriptors -> events or {} (the epoll set)
          readable,   \* connection ids to be read, or Everyone
          onlyAt,     \* listener_only_at, 0 for None
          slept       \* whether the last wait backed off

pollVars == <<polling, connOf, backlog, lastId, registered, kernel, readable,
              onlyAt, slept>>

AllFds == Fds \cup {Listener}
NoInterest == [id |-> 0, events |-> {}]
Everyone == 0 .. MaxId
Open == {fd \in Fds : connOf[fd] # 0}

\* What the loop wants to be told about: the listener below the cap, every
\* connection for input, and for output while bytes are queued.
Desired(fd) ==
  IF fd = Listener
  THEN IF Cardinality(Open) < MaxConns THEN [id |-> 0, events |-> {"in"}]
                                       ELSE NoInterest
  ELSE IF fd \in Open
       THEN [id |-> connOf[fd],
             events |-> IF backlog[fd] THEN {"in", "out"} ELSE {"in"}]
       ELSE NoInterest

Init ==
  /\ polling = "works"
  /\ connOf = [fd \in Fds |-> 0]
  /\ backlog = [fd \in Fds |-> FALSE]
  /\ lastId = 0
  /\ registered = [fd \in AllFds |-> NoInterest]
  /\ kernel = [fd \in AllFds |-> {}]
  /\ readable = Everyone
  /\ onlyAt = 0
  /\ slept = FALSE

\* Server::poll: the lowest free descriptor goes to a new connection.
Accept(fd) ==
  /\ polling = "works"
  /\ fd \in Fds \ Open /\ lastId < MaxId
  /\ Cardinality(Open) < MaxConns
  /\ lastId' = lastId + 1
  /\ connOf' = [connOf EXCEPT ![fd] = lastId + 1]
  /\ backlog' = [backlog EXCEPT ![fd] = FALSE]
  /\ UNCHANGED <<polling, registered, kernel, readable, onlyAt, slept>>

\* close(2) drops the kernel's registration, the table is not told.
Close(fd) ==
  /\ polling = "works" /\ fd \in Open
  /\ connOf' = [connOf EXCEPT ![fd] = 0]
  /\ kernel' = [kernel EXCEPT ![fd] = {}]
  /\ UNCHANGED <<polling, backlog, lastId, registered, readable, onlyAt, slept>>

Output(fd) ==
  /\ polling = "works" /\ fd \in Open
  /\ backlog' = [backlog EXCEPT ![fd] = ~@]
  /\ UNCHANGED <<polling, connOf, lastId, registered, kernel, readable, onlyAt, slept>>

\* An entry of the table that need not be touched.
Current(fd) == registered[fd] = Desired(fd)

Wanted == {fd \in AllFds : Desired(fd) # NoInterest}
Stale == {fd \in AllFds : registered[fd] # NoInterest} \ Wanted

\* EpollReadiness::sync: stale entries are deleted, then the entries of done
\* are brought up to date (MOD, and ADD when the kernel knows none, or the
\* other way around).  A failing epoll_ctl leaves the rest for the next tick.
Synced(done) ==
  LET touched == {fd \in done : ~Current(fd)} IN
  /\ registered' = [fd \in AllFds |-> IF fd \in Stale THEN NoInterest
                                      ELSE IF fd \in touched THEN Desired(fd)
                                      ELSE registered[fd]]
  /\ kernel' = [fd \in AllFds |-> IF fd \in Stale THEN {}
                                  ELSE IF fd \in touched THEN Desired(fd).events
                                  ELSE kernel[fd]]

Wait ==
  /\ polling = "works"
  /\ Synced(Wanted)
  /\ polling' = "waits"
  /\ UNCHANGED <<connOf, backlog, lastId, readable, onlyAt, slept>>

\* epoll_ctl or epoll_wait fails: the next poll reads every connection.
SyncFails ==
  /\ polling = "works"
  /\ \E done \in SUBSET Wanted : done # Wanted /\ Synced(done)
  /\ polling' = "blind"
  /\ readable' = Everyone /\ onlyAt' = 0 /\ slept' = FALSE
  /\ UNCHANGED <<connOf, backlog, lastId>>

WaitFails ==
  /\ polling = "waits"
  /\ polling' = "works"
  /\ readable' = Everyone /\ onlyAt' = 0 /\ slept' = FALSE
  /\ UNCHANGED <<connOf, backlog, lastId, registered, kernel>>

Resume ==
  /\ polling = "blind"
  /\ polling' = "works"
  /\ UNCHANGED <<connOf, backlog, lastId, registered, kernel, readable, onlyAt, slept>>

newest_conn_id == Max({connOf[fd] : fd \in Fds} \cup {0})

\* The descriptors of fired have an event; output alone only ends the wait.
\* A second wake by the listener alone with no accept between backs off.
WaitEnds(fired, outputOnly) ==
  LET ready == {registered[fd].id : fd \in (fired \ outputOnly) \ {Listener}}
      only == ready = {} /\ Listener \in fired IN
  /\ polling = "waits"
  /\ fired \subseteq {fd \in AllFds : kernel[fd] # {}}
  /\ \A fd \in outputOnly : fd \in fired /\ "out" \in kernel[fd]
  /\ readable' = ready
  /\ slept' = (only /\ onlyAt = newest_conn_id + 1)
  /\ onlyAt' = IF only THEN newest_conn_id + 1 ELSE 0
  /\ polling' = "works"
  /\ UNCHANGED <<connOf, backlog, lastId, registered, kernel>>

Next ==
  \/ \E fd \in Fds : Accept(fd) \/ Close(fd) \/ Output(fd)
  \/ Wait \/ SyncFails \/ WaitFails \/ Resume
  \/ \E fired \in SUBSET AllFds, outputOnly \in SUBSET Fds : WaitEnds(fired, outputOnly)

(* No connection goes deaf: while the loop waits, the kernel holds exactly *)
(* what the loop wants, for the connections that have the descriptors now, *)
(* and an event is attributed to the connection it belongs to              *)
(* (readiness.rs sync, "closed and reused by a new connection").           *)
NoDeafConnection ==
  polling = "waits" =>
    \A fd \in AllFds : /\ kernel[fd] = Desired(fd).events
                       /\ registered[fd] = Desired(fd)
==============================================================================
