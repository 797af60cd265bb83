----------------------- MODULE PublishSessionsProofs -----------------------
(***************************************************************************)
(* The publish sessions, for any connections, streams and bounds.          *)
(***************************************************************************)
EXTENDS PublishSessions, SequenceTheorems, TLAPS

\* Whoever is in the middle of an operation knows a connection and a session
\* that was asked for; a request still queued is one that was asked for.
PollKnows == poll.pc # "idle" => poll.conn \in Conns /\ poll.id \in 1..reqs

WorkerKnows ==
    worker.pc # "idle" =>
        /\ worker.conn \in Conns /\ worker.id \in 1..reqs
        /\ worker.pc \in {"prior", "restore"} => worker.old \in Sessions

JobsKnown == \A k \in 1..Len(queue) : queue[k].kind # "close" => queue[k].id \in 1..reqs

HeldKnown == \A c \in Conns : held[c] \in 0..reqs

\* A session nobody has asked for has no row.
FreshRows == \A i \in Sessions : i > reqs => row[i] = "absent"

Known == PollKnows /\ WorkerKnows /\ JobsKnown /\ HeldKnown /\ FreshRows

PublishInv == TypeOK /\ Known /\ OneActivePublisher

-----------------------------------------------------------------------------
(* Types of the parts a step builds.                                       *)
LEMMA SessionTypes ==
  /\ NoSession \in SessionsOrNone /\ Sessions \subseteq SessionsOrNone
  /\ \A i \in SessionsOrNone : i # NoSession => i \in Sessions
  /\ \A n \in 0..MaxSessions : 1..n \subseteq Sessions /\ 0..n \subseteq SessionsOrNone
BY SessionsAssumption DEF SessionsOrNone, Sessions, NoSession

\* The idle values of the worker, the poll thread and a connection have their types.
LEMMA IdleTypes ==
  /\ IdleWorker \in WorkerLocals
  /\ IdlePoll \in PollLocals
  /\ Connected \in WireStates
BY SessionTypes DEF IdleWorker, IdlePoll, Connected, WorkerLocals, PollLocals, WireStates,
                    WorkerStates, PollStates

\* A job for a connection and a known session is a job.
LEMMA JobTypes ==
  \A kind \in JobKinds, c \in Conns, i \in SessionsOrNone : Job(kind, c, i) \in Jobs
BY DEF Job, Jobs

\* Taking the first job or completion leaves sequences of the same type.
LEMMA QueueTypes ==
  ASSUME NEW S, NEW q \in Seq(S)
  PROVE  /\ \A e \in S : Append(q, e) \in Seq(S)
         /\ q # <<>> => Head(q) \in S /\ Tail(q) \in Seq(S)
OBVIOUS

\* Changing some fields of one connection's state in the protocol layer.
LEMMA WireTypes ==
  ASSUME wire \in [Conns -> WireStates], NEW c \in Conns
  PROVE  /\ [wire EXCEPT ![c].open = FALSE, ![c].publishing = FALSE, ![c].pending = NoSession]
              \in [Conns -> WireStates]
         /\ [wire EXCEPT ![c].publishing = FALSE, ![c].pending = NoSession] \in [Conns -> WireStates]
         /\ [wire EXCEPT ![c].asked = TRUE] \in [Conns -> WireStates]
         /\ [wire EXCEPT ![c].publishing = TRUE] \in [Conns -> WireStates]
         /\ [wire EXCEPT ![c].publishing = FALSE, ![c].asked = TRUE] \in [Conns -> WireStates]
         /\ \A i \in SessionsOrNone :
              [wire EXCEPT ![c].pending = i, ![c].asked = TRUE] \in [Conns -> WireStates]
         /\ \A on \in BOOLEAN :
              [wire EXCEPT ![c].pending = NoSession, ![c].publishing = on] \in [Conns -> WireStates]
BY SessionTypes DEF WireStates

\* submit_auth queues a job or denies: queue and wire keep their types.
LEMMA SubmitTypes ==
  ASSUME TypeOK, NEW c \in Conns, NEW i \in SessionsOrNone, submit_auth(c, i)
  PROVE  queue' \in Seq(Jobs) /\ wire' \in [Conns -> WireStates]
<1>1. Append(queue, Job("auth", c, i)) \in Seq(Jobs)
  BY JobTypes, QueueTypes DEF JobKinds, TypeOK
<1>2. /\ [wire EXCEPT ![c].pending = i, ![c].asked = TRUE] \in [Conns -> WireStates]
      /\ [wire EXCEPT ![c].publishing = FALSE, ![c].asked = TRUE] \in [Conns -> WireStates]
  BY WireTypes DEF TypeOK
<1>3. CASE QueueHasRoom
  BY <1>1, <1>2, <1>3 DEF submit_auth
<1>4. CASE ~QueueHasRoom
  BY <1>2, <1>4 DEF submit_auth, TypeOK
<1> QED
  BY <1>3, <1>4

\* Closing a connection keeps the types of what it writes.
LEMMA CloseTypes ==
  ASSUME TypeOK, NEW c \in Conns, CloseConn(c)
  PROVE  /\ queue' \in Seq(Jobs) /\ wire' \in [Conns -> WireStates]
         /\ entry' \in [Conns -> Streams \cup {NoStream}]
<1>1. Append(queue, Job("close", c, NoSession)) \in Seq(Jobs)
  BY JobTypes, QueueTypes, SessionTypes DEF JobKinds, TypeOK
<1> QED
  BY <1>1, WireTypes DEF CloseConn, TypeOK

\* A completion of the worker keeps the type of the queue of completions.
LEMMA CompletesTypes ==
  ASSUME TypeOK, NEW c \in Conns, NEW i \in SessionsOrNone, NEW allow \in BOOLEAN,
         NEW session \in SessionsOrNone, Completes(c, i, allow, session)
  PROVE  done' \in Seq(Completions)
<1>1. [conn |-> c, id |-> i, allow |-> allow, session |-> session] \in Completions
  BY DEF Completions
<1> QED
  BY <1>1, QueueTypes DEF Completes, TypeOK

\* A denial completes the request and frees the worker.
LEMMA DeniesTypes ==
  ASSUME TypeOK, NEW c \in Conns, NEW i \in SessionsOrNone, Denies(c, i)
  PROVE  done' \in Seq(Completions) /\ worker' \in WorkerLocals
BY CompletesTypes, IdleTypes, SessionTypes DEF Denies

\* The worker's next program point keeps the type of its locals.
LEMMA GoesTypes ==
  ASSUME TypeOK, NEW pc \in WorkerStates, WorkerGoes(pc)
  PROVE  worker' \in WorkerLocals
BY DEF WorkerGoes, TypeOK, WorkerLocals

\* The calls on the publishers table.
LEMMA RowTypes ==
  ASSUME TypeOK, NEW i \in Sessions, NEW call,
         \/ publisher_try_acquire(i) \/ publisher_try_acquire_fails(i, call)
         \/ deactivate(i) \/ deactivate_fails(i, call)
         \/ restore_publisher_row(i) \/ restore_fails(i)
  PROVE  row' \in [Sessions -> Rows] /\ faults' \in 0..MaxFaults
<1>1. ASSUME NEW x, Fault(x) \/ NoFault PROVE faults' \in 0..MaxFaults
  BY <1>1, FaultAssumption DEF Fault, NoFault, TypeOK
<1>2. faults' \in 0..MaxFaults
  BY <1>1 DEF publisher_try_acquire, publisher_try_acquire_fails, deactivate, deactivate_fails,
              restore_publisher_row, restore_fails
<1>3. row' \in [Sessions -> Rows]
  BY DEF TypeOK, Rows, publisher_try_acquire, publisher_try_acquire_fails, deactivate,
         deactivate_fails, restore_publisher_row, restore_fails
<1> QED
  BY <1>2, <1>3

\* A fault stays within its budget.
LEMMA FaultTypes ==
  ASSUME TypeOK, NEW call, Fault(call) \/ NoFault
  PROVE  faults' \in 0..MaxFaults
BY FaultAssumption DEF Fault, NoFault, TypeOK

\* Every step keeps the types, given what the threads know.
LEMMA TypeStep == TypeOK /\ Known /\ [Next]_vars => TypeOK'
<1> SUFFICES ASSUME TypeOK, Known, [Next]_vars PROVE TypeOK'
  OBVIOUS
<1>r. reqs < MaxSessions => reqs + 1 \in Sessions /\ reqs + 1 \in 0..MaxSessions
  BY SessionsAssumption DEF TypeOK, Sessions
<1>p. poll.pc # "idle" => poll.conn \in Conns /\ poll.id \in Sessions /\ poll.id \in SessionsOrNone
  BY SessionTypes DEF Known, PollKnows, TypeOK
<1>w. worker.pc # "idle" =>
        /\ worker.conn \in Conns /\ worker.id \in Sessions /\ worker.id \in SessionsOrNone
        /\ worker.pc \in {"prior", "restore"} => worker.old \in Sessions
        /\ held[worker.conn] \in SessionsOrNone
  BY SessionTypes DEF Known, WorkerKnows, TypeOK
<1> USE DEF TypeOK, dbVars, bridgeVars, pipeVars, libVars, httpVars
<1>1. ASSUME NEW c \in Conns, NEW s \in Streams, PublishCommand(c, s) PROVE TypeOK'
  <2>1. reqs' \in 0..MaxSessions /\ reqs + 1 \in Sessions /\ reqs + 1 \in SessionsOrNone
    BY <1>1, <1>r, SessionTypes DEF PublishCommand
  <2>2. streamOf' \in [Sessions -> Streams \cup {NoStream}]
    BY <1>1, <2>1 DEF PublishCommand
  <2>3. [pc |-> "install", conn |-> c, id |-> reqs + 1, why |-> "fast"] \in PollLocals
    BY <2>1 DEF PollLocals, PollStates
  <2>w. [wire EXCEPT ![c].asked = TRUE] \in [Conns -> WireStates]
    BY WireTypes
  <2>s. submit_auth(c, reqs + 1) => queue' \in Seq(Jobs) /\ wire' \in [Conns -> WireStates]
    <3> HIDE DEF TypeOK
    <3> QED
      BY <2>1, SubmitTypes
  <2>4. queue' \in Seq(Jobs) /\ wire' \in [Conns -> WireStates] /\ poll' \in PollLocals
    BY <1>1, <2>3, <2>w, <2>s DEF PublishCommand
  <2> QED
    BY <1>1, <2>1, <2>2, <2>4 DEF PublishCommand
<1>2. ASSUME FastInstall PROVE TypeOK'
  <2>0. poll.conn \in Conns /\ poll.id \in Sessions /\ poll.id \in SessionsOrNone /\ poll' \in PollLocals
    BY <1>2, <1>p, IdleTypes DEF FastInstall
  <2>1. Append(queue, Job("persist", poll.conn, poll.id)) \in Seq(Jobs)
    BY <2>0, JobTypes, QueueTypes DEF JobKinds
  <2>2. [wire EXCEPT ![poll.conn].publishing = TRUE] \in [Conns -> WireStates]
    BY <2>0, WireTypes
  <2>3. [held EXCEPT ![poll.conn] = poll.id] \in [Conns -> SessionsOrNone]
    BY <2>0
  <2>s. submit_auth(poll.conn, poll.id) => queue' \in Seq(Jobs) /\ wire' \in [Conns -> WireStates]
    <3> HIDE DEF TypeOK
    <3> QED
      BY <2>0, SubmitTypes
  <2>c. \/ /\ held' = [held EXCEPT ![poll.conn] = poll.id]
           /\ queue' = Append(queue, Job("persist", poll.conn, poll.id))
           /\ wire' = [wire EXCEPT ![poll.conn].publishing = TRUE]
           /\ fast' = fast \cup {poll.id}
        \/ submit_auth(poll.conn, poll.id) /\ UNCHANGED <<held, fast>>
    BY <1>2 DEF FastInstall
  <2>4. queue' \in Seq(Jobs) /\ wire' \in [Conns -> WireStates]
        /\ held' \in [Conns -> SessionsOrNone] /\ fast' \subseteq Sessions
    BY <2>0, <2>1, <2>2, <2>3, <2>s, <2>c
  <2> QED
    BY <1>2, <2>0, <2>4 DEF FastInstall
<1>3. ASSUME NEW c \in Conns, UnpublishCommand(c) PROVE TypeOK'
  BY <1>3, WireTypes DEF UnpublishCommand
<1>4. ASSUME NEW c \in Conns, PeerCloses(c) PROVE TypeOK'
  BY <1>4, CloseTypes DEF PeerCloses
<1>5. ASSUME PollTick PROVE TypeOK'
  BY <1>5 DEF PollTick
<1>6. ASSUME NEW c \in Conns, VisitForceClose(c) PROVE TypeOK'
  BY <1>6, CloseTypes DEF VisitForceClose
<1>7. ASSUME NEW c \in Conns, VisitRelease(c) PROVE TypeOK'
  <2>1. [pc |-> "deactivate", conn |-> c, id |-> held[c], why |-> "unpublish"] \in PollLocals
    BY DEF PollLocals, PollStates
  <2>2. poll' \in PollLocals /\ entry' \in [Conns -> Streams \cup {NoStream}]
    BY <1>7, <2>1 DEF VisitRelease
  <2> QED
    BY <1>7, <2>2 DEF VisitRelease
<1>8. ASSUME NEW c \in Conns, VisitPublishing(c) PROVE TypeOK'
  BY <1>8, CloseTypes, SessionTypes DEF VisitPublishing
<1>9. ASSUME NEW c \in Conns, VisitDeleted(c) PROVE TypeOK'
  BY <1>9, CloseTypes DEF VisitDeleted, PollLocals, PollStates
<1>10. ASSUME PollDeactivate PROVE TypeOK'
  BY <1>10, RowTypes, IdleTypes, <1>p DEF PollDeactivate, PollLocals, PollStates
<1>11. ASSUME PollClear PROVE TypeOK'
  BY <1>11, CloseTypes, IdleTypes, SessionTypes, <1>p DEF PollClear
<1>12. ASSUME ApplyCompletion PROVE TypeOK'
  <2> DEFINE d == Head(done)
  <2>1. d \in Completions /\ done' \in Seq(Completions)
    BY <1>12, QueueTypes DEF ApplyCompletion
  <2>2. d.conn \in Conns /\ d.session \in SessionsOrNone
    BY <2>1 DEF Completions
  <2>3. wire[d.conn].publishing \in BOOLEAN
    BY <2>2 DEF WireStates
  <2>4. [pc |-> "deactivate", conn |-> d.conn, id |-> d.session, why |-> "superseded"] \in PollLocals
    BY <2>2 DEF PollLocals, PollStates
  <2>5. poll' \in PollLocals
    BY <1>12, <2>4, IdleTypes DEF ApplyCompletion
  <2>6. wire' \in [Conns -> WireStates]
    <3>1. \A on \in BOOLEAN :
            [wire EXCEPT ![d.conn].pending = NoSession, ![d.conn].publishing = on] \in [Conns -> WireStates]
      BY <2>2, WireTypes
    <3>2. \/ wire' = wire
          \/ \E on \in (IF d.allow THEN {TRUE} ELSE {FALSE, wire[d.conn].publishing}) :
               wire' = [wire EXCEPT ![d.conn].pending = NoSession, ![d.conn].publishing = on]
      BY <1>12 DEF ApplyCompletion
    <3>3. (IF d.allow THEN {TRUE} ELSE {FALSE, wire[d.conn].publishing}) \subseteq BOOLEAN
      BY <2>3
    <3> QED
      BY <3>1, <3>2, <3>3
  <2> QED
    BY <1>12, <2>1, <2>5, <2>6 DEF ApplyCompletion
<1>13. ASSUME NEW i \in Sessions, RetryDeactivation(i) PROVE TypeOK'
  BY <1>13, RowTypes DEF RetryDeactivation
<1>14. ASSUME WorkerTakesAuth PROVE TypeOK'
  <2> DEFINE j == Head(queue)
  <2>1. j \in Jobs /\ queue' \in Seq(Jobs)
    BY <1>14, QueueTypes DEF WorkerTakesAuth
  <2>2. j.conn \in Conns /\ j.id \in SessionsOrNone
    BY <2>1 DEF Jobs
  <2>3. ASSUME NEW pc \in WorkerStates
        PROVE  [pc |-> pc, conn |-> j.conn, id |-> j.id, old |-> held[j.conn]] \in WorkerLocals
    BY <2>2 DEF WorkerLocals
  <2>4. worker' \in WorkerLocals /\ done' \in Seq(Completions)
    BY <1>14, <2>2, <2>3, DeniesTypes DEF WorkerTakesAuth, WorkerStates
  <2> QED
    BY <1>14, <2>1, <2>4 DEF WorkerTakesAuth
<1>15. ASSUME WorkerDeactivatesPrior PROVE TypeOK'
  BY <1>15, RowTypes, DeniesTypes, GoesTypes, <1>w DEF WorkerDeactivatesPrior, WorkerStates,
     WorkerAt
<1>16. ASSUME WorkerAcquires PROVE TypeOK'
  BY <1>16, RowTypes, DeniesTypes, GoesTypes, <1>w DEF WorkerAcquires, WorkerStates, WorkerAt
<1>17. ASSUME WorkerRestoresPrior PROVE TypeOK'
  BY <1>17, RowTypes, DeniesTypes, <1>w DEF WorkerRestoresPrior, WorkerAt
<1>18. ASSUME WorkerInstalls PROVE TypeOK'
  BY <1>18, GoesTypes, <1>w DEF WorkerInstalls, WorkerStates, WorkerAt
<1>19. ASSUME WorkerCompletes PROVE TypeOK'
  BY <1>19, CompletesTypes, IdleTypes, <1>w DEF WorkerCompletes, WorkerAt
<1>20. ASSUME WorkerTakesClose PROVE TypeOK'
  <2> DEFINE c == Head(queue).conn
  <2>0. Head(queue) \in Jobs /\ queue' \in Seq(Jobs)
    BY <1>20, QueueTypes DEF WorkerTakesClose
  <2>1. c \in Conns /\ queue' \in Seq(Jobs)
    BY <2>0 DEF Jobs
  <2>2. [IdleWorker EXCEPT !.pc = "close", !.conn = c, !.id = held[c]] \in WorkerLocals
    BY <2>1, SessionTypes DEF IdleWorker, WorkerLocals, WorkerStates
  <2>3. worker' \in WorkerLocals
    BY <1>20, <2>2, IdleTypes DEF WorkerTakesClose
  <2>4. held' \in [Conns -> SessionsOrNone] /\ forceClose' \subseteq Conns
    BY <1>20, <2>1, SessionTypes DEF WorkerTakesClose
  <2> QED
    BY <1>20, <2>1, <2>3, <2>4 DEF WorkerTakesClose
<1>21. ASSUME WorkerWritesClose PROVE TypeOK'
  BY <1>21, RowTypes, IdleTypes, <1>w DEF WorkerWritesClose, WorkerAt
<1>22. ASSUME WorkerTakesPersist PROVE TypeOK'
  <2>1. Head(queue) \in Jobs /\ queue' \in Seq(Jobs)
    BY <1>22, QueueTypes DEF WorkerTakesPersist
  <2>2. worker' \in WorkerLocals
    BY <1>22, <2>1, SessionTypes DEF WorkerTakesPersist, WorkerLocals, WorkerStates, Jobs
  <2> QED
    BY <1>22, <2>1, <2>2 DEF WorkerTakesPersist
<1>23. ASSUME WorkerPersists PROVE TypeOK'
  BY <1>23, RowTypes, IdleTypes, GoesTypes, SessionTypes, <1>w DEF WorkerPersists, WorkerStates,
     WorkerAt
<1>24. ASSUME WorkerChecksHeld PROVE TypeOK'
  BY <1>24, IdleTypes, GoesTypes DEF WorkerChecksHeld, WorkerStates
<1>25. ASSUME WorkerDropsRow PROVE TypeOK'
  BY <1>25, RowTypes, IdleTypes, <1>w DEF WorkerDropsRow, WorkerAt
<1>26. ASSUME NEW s \in Streams, HttpMarks(s) PROVE TypeOK'
  BY <1>26, BoundAssumption DEF HttpMarks, HttpGoes, HttpStates
<1>27. ASSUME NEW s \in Streams, HttpBegins(s) PROVE TypeOK'
  BY <1>27, FaultTypes DEF HttpBegins, HttpGoes, HttpStates, clear_http_delete_marker
<1>28. ASSUME NEW s \in Streams, HttpCounts(s) PROVE TypeOK'
  BY <1>28 DEF HttpCounts, HttpGoes, HttpStates
<1>29. ASSUME NEW s \in Streams, HttpDrained(s) PROVE TypeOK'
  BY <1>29 DEF HttpDrained, HttpGoes, HttpStates
<1>30. ASSUME NEW s \in Streams, HttpDrainTimesOut(s) PROVE TypeOK'
  BY <1>30, SessionTypes DEF HttpDrainTimesOut, HttpGoes, HttpStates, LiveConns
<1>31. ASSUME NEW s \in Streams, HttpFinalizes(s) PROVE TypeOK'
  <2>1. http' \in [Streams -> HttpStates] /\ deleted' \subseteq Streams /\ gaveUp' \subseteq Streams
    BY <1>31 DEF HttpFinalizes, HttpGoes, HttpStates, clear_http_delete_marker
  <2>2. attempt' \in [Streams -> 0..(FinalizeAttempts - 1)]
    <3>1. attempt' = attempt \/ (attempt[s] + 1 < FinalizeAttempts /\ attempt' = [attempt EXCEPT ![s] = @ + 1])
      BY <1>31 DEF HttpFinalizes, AttemptsLeft
    <3>2. attempt[s] + 1 < FinalizeAttempts => attempt[s] + 1 \in 0..(FinalizeAttempts - 1)
      BY BoundAssumption
    <3> QED
      BY <3>1, <3>2
  <2>3. row' \in [Sessions -> Rows] /\ stream' \in [Streams -> {"enabled", "deleting", "gone"}]
    BY <1>31 DEF HttpFinalizes, stream_delete_if_pending, Rows
  <2>4. faults' \in 0..MaxFaults
    BY <1>31, FaultTypes DEF HttpFinalizes, stream_delete_if_pending
  <2> QED
    BY <1>31, <2>1, <2>2, <2>3, <2>4 DEF HttpFinalizes
<1>32. ASSUME NEW s \in Streams, HttpRollsBack(s) PROVE TypeOK'
  BY <1>32, FaultTypes DEF HttpRollsBack, HttpGoes, HttpStates, clear_http_delete_marker
<1>33. ASSUME Restart PROVE TypeOK'
  <2>1. row' \in [Sessions -> Rows]
    BY <1>33 DEF Restart, RowsAfterOpen, Rows
  <2>2. stream' \in [Streams -> {"enabled", "deleting", "gone"}]
    BY <1>33 DEF Restart
  <2>3. faults' \in 0..MaxFaults
    BY <1>33, FaultTypes DEF Restart
  <2>4. restarts' \in 0..MaxRestarts
    BY <1>33, BoundAssumption DEF Restart
  <2>5. held' \in [Conns -> SessionsOrNone] /\ wire' \in [Conns -> WireStates]
        /\ entry' \in [Conns -> Streams \cup {NoStream}]
    BY <1>33, SessionTypes, IdleTypes DEF Restart
  <2>6. http' \in [Streams -> HttpStates] /\ attempt' \in [Streams -> 0..(FinalizeAttempts - 1)]
    BY <1>33, BoundAssumption DEF Restart, HttpStates
  <2>7. queue' \in Seq(Jobs) /\ done' \in Seq(Completions)
    BY <1>33 DEF Restart
  <2>8. deleted' \subseteq Streams /\ deletedNow' \subseteq Streams /\ forceClose' \subseteq Conns
        /\ retry' \subseteq Sessions /\ worker' \in WorkerLocals /\ poll' \in PollLocals
        /\ gaveUp' \subseteq Streams /\ UNCHANGED <<streamOf, fast, reqs>>
    BY <1>33, IdleTypes DEF Restart
  <2> QED
    BY <2>1, <2>2, <2>3, <2>4, <2>5, <2>6, <2>7, <2>8
<1>34. ASSUME UNCHANGED vars PROVE TypeOK'
  BY <1>34 DEF vars
<1> QED
  BY <1>1, <1>2, <1>3, <1>4, <1>5, <1>6, <1>7, <1>8, <1>9, <1>10, <1>11, <1>12, <1>13, <1>14,
     <1>15, <1>16, <1>17, <1>18, <1>19, <1>20, <1>21, <1>22, <1>23, <1>24, <1>25, <1>26, <1>27,
     <1>28, <1>29, <1>30, <1>31, <1>32, <1>33, <1>34
     DEF Next, ClientNext, PollNext, VisitNext, WorkerNext, HttpNext
-----------------------------------------------------------------------------
\* The queue keeps to known requests when a job is added or taken.
LEMMA JobsAppend ==
  ASSUME TypeOK, JobsKnown, NEW kind \in JobKinds, NEW c \in Conns, NEW i \in SessionsOrNone,
         kind # "close" => i \in 1..reqs,
         queue' = Append(queue, Job(kind, c, i)), reqs' = reqs
  PROVE  JobsKnown'
<1>1. queue \in Seq(Jobs) /\ Job(kind, c, i) \in Jobs
  BY JobTypes DEF TypeOK
<1>2. /\ Len(queue') = Len(queue) + 1 /\ queue'[Len(queue) + 1] = Job(kind, c, i)
      /\ \A k \in 1..Len(queue) : queue'[k] = queue[k]
  BY <1>1, AppendProperties
<1>3. Job(kind, c, i).kind = kind /\ Job(kind, c, i).id = i /\ Len(queue) \in Nat
  BY <1>1 DEF Job
<1> QED
  BY <1>2, <1>3 DEF JobsKnown

\* Taking a job leaves known requests in the queue.
LEMMA JobsTail ==
  ASSUME TypeOK, JobsKnown, queue # <<>>, queue' = Tail(queue), reqs' = reqs
  PROVE  JobsKnown' /\ (Head(queue).kind # "close" => Head(queue).id \in 1..reqs)
<1>1. queue \in Seq(Jobs) /\ Len(queue) \in Nat /\ Len(queue) >= 1
  BY EmptySeq, LenProperties DEF TypeOK
<1>2. Len(queue') = Len(queue) - 1 /\ \A k \in 1..Len(queue) - 1 : queue'[k] = queue[k + 1]
  BY <1>1, HeadTailProperties
<1>3. Head(queue) = queue[1]
  BY <1>1, HeadTailProperties
<1> QED
  BY <1>1, <1>2, <1>3 DEF JobsKnown

\* Submitting a known request leaves known requests in the queue.
LEMMA JobsSubmit ==
  ASSUME TypeOK, JobsKnown, NEW c \in Conns, NEW i \in SessionsOrNone, i \in 1..reqs, submit_auth(c, i), reqs' = reqs
  PROVE  JobsKnown'
<1>1. queue' = queue \/ queue' = Append(queue, Job("auth", c, i))
  BY DEF submit_auth
<1>2. queue' = queue => JobsKnown'
  BY DEF JobsKnown
<1> QED
  BY <1>1, <1>2, JobsAppend DEF JobKinds

\* What the threads know survives every step.
LEMMA KnownStep == TypeOK /\ Known /\ [Next]_vars => (PollKnows /\ WorkerKnows /\ HeldKnown /\ FreshRows)'
<1> SUFFICES ASSUME TypeOK, Known, [Next]_vars PROVE (PollKnows /\ WorkerKnows /\ HeldKnown /\ FreshRows)'
  OBVIOUS
<1> DEFINE K == PollKnows /\ WorkerKnows /\ HeldKnown /\ FreshRows
<1>0. /\ PollKnows /\ WorkerKnows /\ HeldKnown /\ FreshRows
      /\ reqs \in Nat /\ held \in [Conns -> SessionsOrNone] /\ row \in [Sessions -> Rows]
      /\ worker \in WorkerLocals /\ poll \in PollLocals /\ MaxSessions \in Nat
  BY SessionsAssumption DEF Known, TypeOK
<1> USE <1>0 DEF PollKnows, WorkerKnows, HeldKnown, FreshRows, dbVars, bridgeVars, pipeVars, libVars, httpVars,
    Sessions, NoSession, SessionsOrNone, Rows, WorkerLocals, PollLocals
<1>1. ASSUME NEW c \in Conns, NEW s \in Streams, PublishCommand(c, s) PROVE K'
  BY <1>1 DEF PublishCommand, submit_auth
<1>2. ASSUME FastInstall PROVE K'
  <2>1. poll.conn \in Conns /\ poll.id \in 1..reqs
    BY <1>2 DEF FastInstall
  <2>2. held' = held \/ held' = [held EXCEPT ![poll.conn] = poll.id]
    BY <1>2 DEF FastInstall
  <2>3. HeldKnown'
    BY <1>2, <2>1, <2>2 DEF FastInstall
  <2>4. poll'.pc = "idle" /\ UNCHANGED <<row, reqs, worker>>
    BY <1>2 DEF FastInstall, IdlePoll
  <2> QED
    BY <2>3, <2>4
<1>3. ASSUME NEW c \in Conns, UnpublishCommand(c) PROVE K'
  BY <1>3 DEF UnpublishCommand
<1>4. ASSUME NEW c \in Conns, PeerCloses(c) PROVE K'
  BY <1>4 DEF PeerCloses, CloseConn
<1>5. ASSUME PollTick PROVE K'
  BY <1>5 DEF PollTick
<1>6. ASSUME NEW c \in Conns, VisitForceClose(c) PROVE K'
  BY <1>6 DEF VisitForceClose, CloseConn
<1>7. ASSUME NEW c \in Conns, VisitRelease(c) PROVE K'
  BY <1>7 DEF VisitRelease
<1>8. ASSUME NEW c \in Conns, VisitPublishing(c) PROVE K'
  BY <1>8 DEF VisitPublishing, CloseConn
<1>9. ASSUME NEW c \in Conns, VisitDeleted(c) PROVE K'
  BY <1>9 DEF VisitDeleted, CloseConn
<1>10. ASSUME PollDeactivate PROVE K'
  BY <1>10 DEF PollDeactivate, IdlePoll, deactivate, deactivate_fails
<1>11. ASSUME PollClear PROVE K'
  BY <1>11 DEF PollClear, CloseConn, IdlePoll
<1>12. ASSUME ApplyCompletion PROVE K'
  <2> DEFINE d == Head(done)
  <2>1. d \in Completions
    BY <1>12, QueueTypes DEF ApplyCompletion, TypeOK
  <2>2. d.conn \in Conns
    BY <2>1 DEF Completions
  <2>3. \/ poll' = IdlePoll
        \/ /\ poll' = [pc |-> "deactivate", conn |-> d.conn, id |-> d.session, why |-> "superseded"]
           /\ d.session # NoSession /\ held[d.conn] = d.session
    BY <1>12 DEF ApplyCompletion
  <2>4. PollKnows' \/ reqs' # reqs
    BY <2>2, <2>3 DEF IdlePoll
  <2>5. UNCHANGED <<row, reqs, worker, held>>
    BY <1>12 DEF ApplyCompletion
  <2> QED
    BY <2>4, <2>5
<1>13. ASSUME NEW i \in Sessions, RetryDeactivation(i) PROVE K'
  BY <1>13 DEF RetryDeactivation, deactivate, deactivate_fails
<1>14. ASSUME WorkerTakesAuth PROVE K'
  <2> DEFINE j == Head(queue)
  <2>1. j \in Jobs /\ (j.kind # "close" => j.id \in 1..reqs)
    BY <1>14, QueueTypes, JobsTail DEF WorkerTakesAuth, TypeOK, Known
  <2>2. j.conn \in Conns /\ j.id \in 1..reqs
    BY <1>14, <2>1 DEF WorkerTakesAuth, Jobs
  <2>3. \/ worker' = IdleWorker
        \/ /\ worker' = [pc |-> IF held[j.conn] = NoSession THEN "acquire" ELSE "prior",
                         conn |-> j.conn, id |-> j.id, old |-> held[j.conn]]
    BY <1>14 DEF WorkerTakesAuth, Denies
  <2>4. UNCHANGED <<row, reqs, poll, held>>
    BY <1>14 DEF WorkerTakesAuth
  <2>5. WorkerKnows'
    BY <2>2, <2>3, <2>4 DEF IdleWorker
  <2> QED
    BY <2>4, <2>5
<1>15. ASSUME WorkerDeactivatesPrior PROVE K'
  <2>1. worker' = IdleWorker \/ worker' = [worker EXCEPT !.pc = "acquire"]
    BY <1>15 DEF WorkerDeactivatesPrior, Denies, WorkerGoes
  <2>2. worker.conn \in Conns /\ worker.id \in 1..reqs
    BY <1>15 DEF WorkerDeactivatesPrior, WorkerAt
  <2>3. UNCHANGED <<reqs, poll, held>>
    BY <1>15 DEF WorkerDeactivatesPrior
  <2>4. WorkerKnows'
    BY <2>1, <2>2, <2>3 DEF IdleWorker
  <2>5. row' = row \/ (row[worker.old] # "absent" /\ row' = [row EXCEPT ![worker.old] = "inactive"])
    BY <1>15 DEF WorkerDeactivatesPrior, deactivate, deactivate_fails
  <2>6. FreshRows'
    BY <2>3, <2>5
  <2> QED
    BY <2>3, <2>4, <2>6
<1>16. ASSUME WorkerAcquires PROVE K'
  <2>1. worker.conn \in Conns /\ worker.id \in 1..reqs
    BY <1>16 DEF WorkerAcquires, WorkerAt
  <2>2. \/ worker' = IdleWorker
        \/ worker' = [worker EXCEPT !.pc = "install"]
        \/ worker.old # NoSession /\ worker' = [worker EXCEPT !.pc = "restore"]
    BY <1>16 DEF WorkerAcquires, Denies, WorkerGoes
  <2>3. UNCHANGED <<reqs, poll, held>>
    BY <1>16 DEF WorkerAcquires
  <2>4. WorkerKnows'
    BY <2>1, <2>2, <2>3 DEF IdleWorker
  <2>5. row' = row \/ row' = [row EXCEPT ![worker.id] = "active"]
    BY <1>16 DEF WorkerAcquires, publisher_try_acquire, publisher_try_acquire_fails
  <2>6. FreshRows'
    BY <2>1, <2>3, <2>5
  <2> QED
    BY <2>3, <2>4, <2>6
<1>17. ASSUME WorkerRestoresPrior PROVE K'
  BY <1>17 DEF WorkerRestoresPrior, Denies, IdleWorker, WorkerAt, restore_publisher_row,
     restore_fails
<1>18. ASSUME WorkerInstalls PROVE K'
  BY <1>18 DEF WorkerInstalls, WorkerAt, WorkerGoes
<1>19. ASSUME WorkerCompletes PROVE K'
  BY <1>19 DEF WorkerCompletes, IdleWorker
<1>20. ASSUME WorkerTakesClose PROVE K'
  <2> DEFINE c == Head(queue).conn
  <2>1. Head(queue) \in Jobs
    BY <1>20, QueueTypes DEF WorkerTakesClose, TypeOK
  <2>2. c \in Conns
    BY <2>1 DEF Jobs
  <2>3. \/ worker' = IdleWorker
        \/ /\ held[c] # NoSession
           /\ worker' = [pc |-> "close", conn |-> c, id |-> held[c], old |-> NoSession]
    BY <1>20 DEF WorkerTakesClose, IdleWorker
  <2>4. UNCHANGED <<row, reqs, poll>> /\ held' = [held EXCEPT ![c] = NoSession]
    BY <1>20 DEF WorkerTakesClose
  <2>5. WorkerKnows'
    BY <2>2, <2>3, <2>4 DEF IdleWorker
  <2>6. HeldKnown'
    BY <2>2, <2>4
  <2> QED
    BY <2>4, <2>5, <2>6
<1>21. ASSUME WorkerWritesClose PROVE K'
  BY <1>21 DEF WorkerWritesClose, IdleWorker, deactivate, deactivate_fails, WorkerAt
<1>22. ASSUME WorkerTakesPersist PROVE K'
  <2>1. Head(queue) \in Jobs /\ (Head(queue).kind # "close" => Head(queue).id \in 1..reqs)
    BY <1>22, QueueTypes, JobsTail DEF WorkerTakesPersist, TypeOK, Known
  <2>2. Head(queue).conn \in Conns /\ Head(queue).id \in 1..reqs
    BY <1>22, <2>1 DEF WorkerTakesPersist, Jobs
  <2>3. UNCHANGED <<row, reqs, poll, held>>
    BY <1>22 DEF WorkerTakesPersist
  <2>4. WorkerKnows'
    BY <1>22, <2>2, <2>3 DEF WorkerTakesPersist
  <2> QED
    BY <2>3, <2>4
<1>23. ASSUME WorkerPersists PROVE K'
  <2>1. worker.conn \in Conns /\ worker.id \in 1..reqs
    BY <1>23 DEF WorkerPersists, WorkerAt
  <2>2. worker' = IdleWorker \/ worker' = [worker EXCEPT !.pc = "check"]
    BY <1>23 DEF WorkerPersists, WorkerGoes
  <2>3. UNCHANGED <<reqs, poll>>
    BY <1>23 DEF WorkerPersists
  <2>4. WorkerKnows'
    BY <2>1, <2>2, <2>3 DEF IdleWorker
  <2>5. row' = row \/ row' = [row EXCEPT ![worker.id] = "active"]
    BY <1>23 DEF WorkerPersists, publisher_try_acquire, publisher_try_acquire_fails
  <2>6. FreshRows'
    BY <2>1, <2>3, <2>5
  <2>7. HeldKnown'
    BY <1>23, <2>3 DEF WorkerPersists
  <2> QED
    BY <2>3, <2>4, <2>6, <2>7
<1>24. ASSUME WorkerChecksHeld PROVE K'
  BY <1>24 DEF WorkerChecksHeld, IdleWorker, WorkerAt, WorkerGoes
<1>25. ASSUME WorkerDropsRow PROVE K'
  BY <1>25 DEF WorkerDropsRow, IdleWorker, WorkerAt, deactivate, deactivate_fails
<1>26. ASSUME NEW s \in Streams, HttpMarks(s) PROVE K'
  BY <1>26 DEF HttpMarks
<1>27. ASSUME NEW s \in Streams, HttpBegins(s) PROVE K'
  BY <1>27 DEF HttpBegins
<1>28. ASSUME NEW s \in Streams, HttpCounts(s) PROVE K'
  BY <1>28 DEF HttpCounts
<1>29. ASSUME NEW s \in Streams, HttpDrained(s) PROVE K'
  BY <1>29 DEF HttpDrained
<1>30. ASSUME NEW s \in Streams, HttpDrainTimesOut(s) PROVE K'
  BY <1>30 DEF HttpDrainTimesOut
<1>31. ASSUME NEW s \in Streams, HttpFinalizes(s) PROVE K'
  BY <1>31 DEF HttpFinalizes, stream_delete_if_pending
<1>32. ASSUME NEW s \in Streams, HttpRollsBack(s) PROVE K'
  BY <1>32 DEF HttpRollsBack
<1>33. ASSUME Restart PROVE K'
  BY <1>33 DEF Restart, RowsAfterOpen, IdleWorker, IdlePoll
<1>34. ASSUME UNCHANGED vars PROVE K'
  BY <1>34 DEF vars
<1> QED
  BY <1>1, <1>2, <1>3, <1>4, <1>5, <1>6, <1>7, <1>8, <1>9, <1>10, <1>11, <1>12, <1>13, <1>14,
     <1>15, <1>16, <1>17, <1>18, <1>19, <1>20, <1>21, <1>22, <1>23, <1>24, <1>25, <1>26, <1>27,
     <1>28, <1>29, <1>30, <1>31, <1>32, <1>33, <1>34
     DEF Next, ClientNext, PollNext, VisitNext, WorkerNext, HttpNext

\* Every step leaves only jobs of known requests in the queue.
LEMMA JobsStep == TypeOK /\ Known /\ [Next]_vars => JobsKnown'
<1> SUFFICES ASSUME TypeOK, Known, [Next]_vars PROVE JobsKnown'
  OBVIOUS
<1>0. JobsKnown /\ reqs \in Nat
  BY SessionsAssumption DEF Known, TypeOK
<1>s. UNCHANGED <<queue, reqs>> => JobsKnown'
  BY <1>0 DEF JobsKnown
<1>c. ASSUME NEW c \in Conns, CloseConn(c), reqs' = reqs PROVE JobsKnown'
  BY <1>0, <1>c, JobsAppend, SessionTypes DEF CloseConn, JobKinds
<1>1. ASSUME NEW c \in Conns, NEW s \in Streams, PublishCommand(c, s) PROVE JobsKnown'
  <2>1. queue' = queue \/ queue' = Append(queue, Job("auth", c, reqs + 1))
    BY <1>1 DEF PublishCommand, submit_auth
  <2>2. reqs' = reqs + 1 /\ queue \in Seq(Jobs) /\ Len(queue) \in Nat
    BY <1>1 DEF PublishCommand, TypeOK
  <2>3. CASE queue' = queue
    BY <2>2, <2>3, <1>0 DEF JobsKnown
  <2>4. CASE queue' = Append(queue, Job("auth", c, reqs + 1))
    <3>1. /\ Len(queue') = Len(queue) + 1 /\ queue'[Len(queue) + 1] = Job("auth", c, reqs + 1)
          /\ \A k \in 1..Len(queue) : queue'[k] = queue[k]
      <4>1. reqs + 1 \in SessionsOrNone
        BY <1>1, SessionsAssumption DEF PublishCommand, TypeOK, Sessions, SessionsOrNone
      <4>2. Job("auth", c, reqs + 1) \in Jobs
        BY <4>1, JobTypes DEF JobKinds
      <4> QED
        BY <2>2, <2>4, <4>2, AppendProperties
    <3>2. Job("auth", c, reqs + 1).id = reqs + 1
      BY DEF Job
    <3> QED
      BY <2>2, <3>1, <3>2, <1>0 DEF JobsKnown
  <2> QED
    BY <2>1, <2>3, <2>4
<1>2. ASSUME FastInstall PROVE JobsKnown'
  <2>1. poll.conn \in Conns /\ poll.id \in 1..reqs /\ poll.id \in SessionsOrNone /\ reqs' = reqs
    BY <1>2, SessionTypes DEF FastInstall, Known, PollKnows, TypeOK
  <2>2. queue' = Append(queue, Job("persist", poll.conn, poll.id)) \/ submit_auth(poll.conn, poll.id)
    BY <1>2 DEF FastInstall
  <2> QED
    BY <1>0, <2>1, <2>2, JobsAppend, JobsSubmit DEF JobKinds
<1>3. ASSUME NEW c \in Conns,
             PeerCloses(c) \/ VisitForceClose(c) \/ VisitPublishing(c) \/ VisitDeleted(c)
      PROVE  JobsKnown'
  BY <1>3, <1>c, <1>s DEF PeerCloses, VisitForceClose, VisitPublishing, VisitDeleted
<1>4. ASSUME PollClear PROVE JobsKnown'
  <2>1. poll.conn \in Conns /\ reqs' = reqs
    BY <1>4 DEF PollClear, Known, PollKnows
  <2>2. CloseConn(poll.conn) \/ queue' = queue
    BY <1>4 DEF PollClear
  <2> QED
    BY <2>1, <2>2, <1>c, <1>s
<1>5. ASSUME WorkerTakesAuth \/ WorkerTakesClose \/ WorkerTakesPersist PROVE JobsKnown'
  BY <1>5, <1>0, JobsTail DEF WorkerTakesAuth, WorkerTakesClose, WorkerTakesPersist, libVars
<1>6. ASSUME Restart PROVE JobsKnown'
  BY <1>6 DEF Restart, JobsKnown
<1>7. ASSUME NEW c \in Conns, UnpublishCommand(c) \/ VisitRelease(c) PROVE JobsKnown'
  BY <1>7, <1>s DEF UnpublishCommand, VisitRelease, pipeVars
<1>8. ASSUME PollTick \/ PollDeactivate \/ ApplyCompletion PROVE JobsKnown'
  BY <1>8, <1>s DEF PollTick, PollDeactivate, ApplyCompletion, pipeVars, libVars
<1>9. ASSUME NEW i \in Sessions, RetryDeactivation(i) PROVE JobsKnown'
  BY <1>9, <1>s DEF RetryDeactivation, pipeVars, libVars
<1>10. ASSUME \/ WorkerDeactivatesPrior \/ WorkerAcquires \/ WorkerRestoresPrior \/ WorkerInstalls
              \/ WorkerCompletes \/ WorkerWritesClose \/ WorkerPersists \/ WorkerChecksHeld
              \/ WorkerDropsRow
       PROVE  JobsKnown'
  BY <1>10, <1>s
     DEF WorkerDeactivatesPrior, WorkerAcquires, WorkerRestoresPrior, WorkerInstalls, WorkerCompletes,
         WorkerWritesClose, WorkerPersists, WorkerChecksHeld, WorkerDropsRow, pipeVars, libVars
<1>11. ASSUME NEW s \in Streams, HttpNext(s) PROVE JobsKnown'
  BY <1>11, <1>s
     DEF HttpNext, HttpMarks, HttpBegins, HttpCounts, HttpDrained, HttpDrainTimesOut, HttpFinalizes,
         HttpRollsBack, pipeVars, libVars
<1>12. ASSUME UNCHANGED vars PROVE JobsKnown'
  BY <1>12, <1>s DEF vars
<1> QED
  BY <1>1, <1>2, <1>3, <1>4, <1>5, <1>6, <1>7, <1>8, <1>9, <1>10, <1>11, <1>12
     DEF Next, ClientNext, PollNext, VisitNext, WorkerNext

-----------------------------------------------------------------------------
\* A table call keeps the one active publisher of each stream: an insert needs
\* the stream free, a reactivation needs it free of others.
LEMMA RowsStep ==
  ASSUME TypeOK, OneActivePublisher, NEW i \in Sessions, NEW call,
         \/ publisher_try_acquire(i) \/ publisher_try_acquire_fails(i, call)
         \/ deactivate(i) \/ deactivate_fails(i, call)
         \/ restore_publisher_row(i) \/ restore_fails(i),
         streamOf' = streamOf
  PROVE  OneActivePublisher'
<1>1. \/ row' = row
      \/ row' = [row EXCEPT ![i] = "inactive"]
      \/ row' = [row EXCEPT ![i] = "active"] /\ ActiveOn(streamOf[i]) \subseteq {i}
  BY DEF publisher_try_acquire, publisher_try_acquire_fails, deactivate, deactivate_fails,
         restore_publisher_row, restore_fails
<1>2. row \in [Sessions -> Rows]
  BY DEF TypeOK
<1> QED
  BY <1>1, <1>2 DEF OneActivePublisher, ActiveOn

\* Steps that leave the table alone, or only clear rows of it.
LEMMA RowsCleared ==
  ASSUME OneActivePublisher, \A i \in Sessions : row'[i] = "active" => row[i] = "active",
         streamOf' = streamOf
  PROVE  OneActivePublisher'
BY DEF OneActivePublisher

\* No step of any thread gives a stream a second active row.
LEMMA OneActiveStep == PublishInv /\ [Next]_vars => OneActivePublisher'
<1> SUFFICES ASSUME PublishInv, [Next]_vars PROVE OneActivePublisher'
  OBVIOUS
<1>0. TypeOK /\ OneActivePublisher /\ PollKnows /\ WorkerKnows /\ FreshRows
  BY DEF PublishInv, Known
<1>p. poll.pc # "idle" => poll.id \in Sessions
  BY <1>0, SessionTypes DEF PollKnows, TypeOK
<1>w. worker.pc # "idle" =>
        worker.id \in Sessions /\ (worker.pc \in {"prior", "restore"} => worker.old \in Sessions)
  BY <1>0, SessionTypes DEF WorkerKnows, TypeOK
<1>s. UNCHANGED <<row, streamOf>> => OneActivePublisher'
  BY <1>0 DEF OneActivePublisher
<1>1. ASSUME NEW c \in Conns, NEW s \in Streams, PublishCommand(c, s) PROVE OneActivePublisher'
  <2>1. row' = row /\ streamOf' = [streamOf EXCEPT ![reqs + 1] = s] /\ reqs < MaxSessions
    BY <1>1 DEF PublishCommand, dbVars
  <2>2. reqs + 1 \in Sessions /\ row[reqs + 1] = "absent" /\ streamOf \in [Sessions -> Streams \cup {NoStream}]
    BY <1>0, <2>1, SessionsAssumption DEF FreshRows, Sessions, TypeOK
  <2> QED
    BY <2>1, <2>2, <1>0 DEF OneActivePublisher
<1>2. ASSUME PollDeactivate PROVE OneActivePublisher'
  <2>1. poll.id \in Sessions /\ streamOf' = streamOf
    BY <1>2, <1>p DEF PollDeactivate, libVars
  <2>2. deactivate(poll.id) \/ deactivate_fails(poll.id, "release")
    BY <1>2 DEF PollDeactivate
  <2> QED
    BY <2>1, <2>2, <1>0, RowsStep
<1>3. ASSUME NEW i \in Sessions, RetryDeactivation(i) PROVE OneActivePublisher'
  BY <1>3, <1>0, RowsStep DEF RetryDeactivation, libVars
<1>4. ASSUME WorkerDeactivatesPrior \/ WorkerRestoresPrior PROVE OneActivePublisher'
  <2>1. worker.old \in Sessions /\ streamOf' = streamOf
    BY <1>4, <1>w DEF WorkerDeactivatesPrior, WorkerRestoresPrior, WorkerAt, libVars
  <2>2. \/ deactivate(worker.old) \/ deactivate_fails(worker.old, "prior")
        \/ restore_publisher_row(worker.old) \/ restore_fails(worker.old)
    BY <1>4 DEF WorkerDeactivatesPrior, WorkerRestoresPrior
  <2> QED
    BY <2>1, <2>2, <1>0, RowsStep
<1>5. ASSUME WorkerAcquires \/ WorkerPersists \/ WorkerWritesClose \/ WorkerDropsRow
      PROVE  OneActivePublisher'
  <2>1. worker.id \in Sessions /\ streamOf' = streamOf
    BY <1>5, <1>w DEF WorkerAcquires, WorkerPersists, WorkerWritesClose, WorkerDropsRow,
       WorkerAt, libVars
  <2>2. \E call : \/ publisher_try_acquire(worker.id) \/ publisher_try_acquire_fails(worker.id, call)
                  \/ deactivate(worker.id) \/ deactivate_fails(worker.id, call)
    BY <1>5 DEF WorkerAcquires, WorkerPersists, WorkerWritesClose, WorkerDropsRow
  <2> QED
    BY <2>1, <2>2, <1>0, RowsStep
<1>6. ASSUME NEW s \in Streams, HttpNext(s) PROVE OneActivePublisher'
  <2>1. streamOf' = streamOf /\ (row' = row \/ stream_delete_if_pending(s))
    BY <1>6 DEF HttpNext, HttpMarks, HttpBegins, HttpCounts, HttpDrained, HttpDrainTimesOut,
                HttpFinalizes, HttpRollsBack, dbVars, libVars
  <2>2. \A i \in Sessions : row'[i] = "active" => row[i] = "active"
    BY <2>1 DEF stream_delete_if_pending
  <2> QED
    BY <2>1, <2>2, <1>0, RowsCleared
<1>7. ASSUME Restart PROVE OneActivePublisher'
  BY <1>7, <1>0, RowsCleared DEF Restart, RowsAfterOpen
<1>8. ASSUME NEW c \in Conns,
             \/ UnpublishCommand(c) \/ PeerCloses(c) \/ VisitForceClose(c) \/ VisitRelease(c)
             \/ VisitPublishing(c) \/ VisitDeleted(c)
      PROVE  OneActivePublisher'
  BY <1>8, <1>s DEF UnpublishCommand, PeerCloses, VisitForceClose, VisitRelease, VisitPublishing,
                    VisitDeleted, dbVars, libVars
<1>9. ASSUME FastInstall \/ PollTick \/ PollClear \/ ApplyCompletion PROVE OneActivePublisher'
  BY <1>9, <1>s DEF FastInstall, PollTick, PollClear, ApplyCompletion, dbVars, libVars
<1>10. ASSUME \/ WorkerTakesAuth \/ WorkerTakesClose \/ WorkerTakesPersist \/ WorkerInstalls
              \/ WorkerCompletes \/ WorkerChecksHeld
       PROVE  OneActivePublisher'
  BY <1>10, <1>s DEF WorkerTakesAuth, WorkerTakesClose, WorkerTakesPersist, WorkerInstalls,
                     WorkerCompletes, WorkerChecksHeld, dbVars, libVars
<1>11. ASSUME UNCHANGED vars PROVE OneActivePublisher'
  BY <1>11, <1>s DEF vars
<1> QED
  BY <1>1, <1>2, <1>3, <1>4, <1>5, <1>6, <1>7, <1>8, <1>9, <1>10, <1>11
     DEF Next, ClientNext, PollNext, VisitNext, WorkerNext

-----------------------------------------------------------------------------
\* The initial state satisfies the inductive invariant.
LEMMA PublishInvInit == Init => PublishInv
<1> SUFFICES ASSUME Init PROVE PublishInv
  OBVIOUS
<1>1. row \in [Sessions -> Rows] /\ stream \in [Streams -> {"enabled", "deleting", "gone"}]
  BY DEF Init, Rows
<1>2. held \in [Conns -> SessionsOrNone] /\ wire \in [Conns -> WireStates]
      /\ entry \in [Conns -> Streams \cup {NoStream}]
  BY SessionTypes, IdleTypes DEF Init
<1>3. http \in [Streams -> HttpStates] /\ attempt \in [Streams -> 0..(FinalizeAttempts - 1)]
      /\ streamOf \in [Sessions -> Streams \cup {NoStream}]
  BY BoundAssumption DEF Init, HttpStates
<1>4. reqs \in 0..MaxSessions /\ faults \in 0..MaxFaults /\ restarts \in 0..MaxRestarts
  BY SessionsAssumption, FaultAssumption, BoundAssumption DEF Init
<1>5. queue \in Seq(Jobs) /\ done \in Seq(Completions)
  BY DEF Init
<1>6. /\ deleted \subseteq Streams /\ deletedNow \subseteq Streams /\ forceClose \subseteq Conns
      /\ retry \subseteq Sessions /\ fast \subseteq Sessions /\ gaveUp \subseteq Streams
      /\ worker \in WorkerLocals /\ poll \in PollLocals
  BY IdleTypes DEF Init
<1>7. TypeOK
  BY <1>1, <1>2, <1>3, <1>4, <1>5, <1>6 DEF TypeOK
<1>8. PollKnows /\ WorkerKnows
  BY DEF Init, PollKnows, WorkerKnows, IdlePoll, IdleWorker
<1>9. JobsKnown /\ HeldKnown /\ FreshRows
  BY DEF Init, JobsKnown, HeldKnown, FreshRows, NoSession
<1>10. OneActivePublisher
  BY DEF Init, OneActivePublisher
<1> QED
  BY <1>7, <1>8, <1>9, <1>10 DEF PublishInv, Known

\* The inductive invariant of the publish sessions.
LEMMA PublishInvariant == Spec => []PublishInv
<1>1. PublishInv /\ [Next]_vars => PublishInv'
  BY TypeStep, KnownStep, JobsStep, OneActiveStep DEF PublishInv, Known
<1> QED
  BY <1>1, PublishInvInit, PTL DEF Spec

\* Type correctness of the publish sessions (TypeOK) for every instance.
THEOREM TypeCorrect == Spec => []TypeOK
<1>1. PublishInv => TypeOK
  BY DEF PublishInv
<1> QED
  BY <1>1, PublishInvariant, PTL

\* A stream never has two active publisher rows (OneActivePublisher), for any
\* number of connections, streams, requests, failing writes and restarts.
THEOREM OneActivePublisherCorrect == Spec => []OneActivePublisher
<1>1. PublishInv => OneActivePublisher
  BY DEF PublishInv
<1> QED
  BY <1>1, PublishInvariant, PTL

-----------------------------------------------------------------------------
(***************************************************************************)
(* Fast sessions and deletes (FastSessionsDrain).  The inductive invariant *)
(* says that a request is in one place at a time, that only the poll       *)
(* thread's requests become fast sessions, and that a delete past its      *)
(* drain has no fast session left on its stream.                           *)
(***************************************************************************)
Asks(k) == queue[k].kind # "close"
WorkerBusy == worker.pc \notin {"idle", "close"}
WorkerAuth == worker.pc \in {"prior", "acquire", "restore", "install"}
AtInstall == poll.pc = "install"

\* A request is queued once, and not while a thread works on it.
JobsApart ==
    \A k, l \in 1..Len(queue) : Asks(k) /\ Asks(l) /\ k # l => queue[k].id # queue[l].id

WorkerApart == WorkerBusy => \A k \in 1..Len(queue) : Asks(k) => queue[k].id # worker.id

PollApart ==
    AtInstall => /\ \A k \in 1..Len(queue) : Asks(k) => queue[k].id # poll.id
                 /\ WorkerBusy => worker.id # poll.id

\* A request still to be authorized is not a fast session.
FastApart ==
    /\ fast \subseteq 1..reqs
    /\ \A k \in 1..Len(queue) : queue[k].kind = "auth" => queue[k].id \notin fast
    /\ WorkerAuth => worker.id \notin fast
    /\ AtInstall => poll.id \notin fast

Apart == JobsApart /\ WorkerApart /\ PollApart /\ FastApart

\* A delete task keeps its marker, and past its drain no fast session is left.
Marked == \A s \in Streams : http[s] # "none" => s \in deleted

FastGone(s) == \A c \in Conns : held[c] \in fast => streamOf[held[c]] # s

Drained ==
    \A s \in Streams : http[s] \in {"finalize_now", "finalize", "rollback"} => FastGone(s)

\* Nobody holds the session that is about to be installed.
PollFree == AtInstall => \A c \in Conns : held[c] # poll.id

\* A request names a stream.
Named == \A i \in 1..reqs : streamOf[i] \in Streams

DrainInv == Named /\ Apart /\ PollFree /\ Marked /\ Drained /\ FastSessionsDrain

\* A job added at the end of the queue.
LEMMA QueueGrows ==
  ASSUME TypeOK, NEW kind \in JobKinds, NEW c \in Conns, NEW i \in SessionsOrNone,
         queue' = Append(queue, Job(kind, c, i))
  PROVE  /\ Len(queue) \in Nat /\ Len(queue') = Len(queue) + 1
         /\ \A k \in 1..Len(queue) : k \in 1..Len(queue') /\ queue'[k] = queue[k]
         /\ Len(queue) + 1 \in 1..Len(queue')
         /\ queue'[Len(queue) + 1].kind = kind /\ queue'[Len(queue) + 1].conn = c
         /\ queue'[Len(queue) + 1].id = i
         /\ queue'[Len(queue) + 1] = Job(kind, c, i)
         /\ \A k \in 1..Len(queue') :
              \/ k \in 1..Len(queue) /\ queue'[k] = queue[k]
              \/ /\ k = Len(queue) + 1 /\ k \notin 1..Len(queue)
                 /\ queue'[k].kind = kind /\ queue'[k].conn = c /\ queue'[k].id = i
<1>1. queue \in Seq(Jobs) /\ Job(kind, c, i) \in Jobs
  BY JobTypes DEF TypeOK
<1>2. /\ Len(queue') = Len(queue) + 1 /\ queue'[Len(queue) + 1] = Job(kind, c, i)
      /\ \A k \in 1..Len(queue) : queue'[k] = queue[k]
  BY <1>1, AppendProperties
<1>3. /\ Job(kind, c, i).kind = kind /\ Job(kind, c, i).conn = c /\ Job(kind, c, i).id = i
      /\ Len(queue) \in Nat
  BY <1>1 DEF Job
<1> QED
  BY <1>2, <1>3

\* The first job taken from the queue.
LEMMA QueueShrinks ==
  ASSUME TypeOK, queue # <<>>, queue' = Tail(queue)
  PROVE  /\ Head(queue) = queue[1] /\ 1 \in 1..Len(queue) /\ Len(queue) \in Nat
         /\ Head(queue).kind \in JobKinds /\ Head(queue).conn \in Conns
         /\ Head(queue).id \in SessionsOrNone
         /\ Len(queue') = Len(queue) - 1
         /\ \A k \in 1..Len(queue') :
              k + 1 \in 1..Len(queue) /\ k + 1 # 1 /\ queue'[k] = queue[k + 1]
         /\ \A k \in 1..Len(queue) : k # 1 => k - 1 \in 1..Len(queue') /\ queue'[k - 1] = queue[k]
<1>1. queue \in Seq(Jobs) /\ Len(queue) \in Nat /\ Len(queue) >= 1
  BY EmptySeq, LenProperties DEF TypeOK
<1>2. Len(queue') = Len(queue) - 1 /\ \A k \in 1..Len(queue) - 1 : queue'[k] = queue[k + 1]
  BY <1>1, HeadTailProperties
<1>3. Head(queue) = queue[1] /\ Head(queue) \in Jobs
  BY <1>1, HeadTailProperties
<1>4. \A k \in 1..Len(queue') :
        k + 1 \in 1..Len(queue) /\ k + 1 # 1 /\ queue'[k] = queue[k + 1]
  BY <1>1, <1>2
<1>5. \A k \in 1..Len(queue) : k # 1 => k - 1 \in 1..Len(queue') /\ queue'[k - 1] = queue[k]
  <2> TAKE k \in 1..Len(queue)
  <2> HAVE k # 1
  <2>1. k - 1 \in 1..Len(queue) - 1 /\ (k - 1) + 1 = k
    BY <1>1
  <2> QED
    BY <1>1, <1>2, <2>1
<1> QED
  BY <1>1, <1>2, <1>3, <1>4, <1>5 DEF Jobs

\* Most steps put no request into the queue and take none from it: threads go on
\* with what they have or are done with it, and connections are closed.
Steady ==
    /\ queue' = queue \/ \E c \in Conns : CloseConn(c)
    /\ \/ worker' = worker
       \/ ~WorkerBusy'
       \/ /\ WorkerBusy /\ worker'.conn = worker.conn /\ worker'.id = worker.id
          /\ worker'.old = worker.old /\ (WorkerAuth' => WorkerAuth)
    /\ poll' = poll \/ ~AtInstall'
    /\ UNCHANGED <<fast, reqs>>

\* Steady is what the other actions do.
LEMMA SteadyStep ==
  ASSUME TypeOK, Known, [Next]_vars
  PROVE  \/ Steady
         \/ \E c \in Conns, s \in Streams : PublishCommand(c, s)
         \/ FastInstall
         \/ WorkerTakesAuth \/ WorkerTakesPersist \/ WorkerTakesClose
         \/ Restart
<1>0. IdlePoll.pc # "install" /\ [poll EXCEPT !.pc = "clear"].pc # "install"
  BY DEF IdlePoll, TypeOK, PollLocals
<1>1. ASSUME NEW c \in Conns,
             \/ PeerCloses(c) \/ VisitForceClose(c) \/ VisitPublishing(c) \/ VisitDeleted(c)
             \/ VisitRelease(c) \/ UnpublishCommand(c)
      PROVE  Steady
  <2>1. UNCHANGED <<worker, fast, reqs>> /\ (poll' = poll \/ poll'.pc # "install")
    BY <1>1 DEF PeerCloses, VisitForceClose, VisitPublishing, VisitDeleted, VisitRelease,
                UnpublishCommand, libVars
  <2>2. CloseConn(c) \/ queue' = queue
    BY <1>1 DEF PeerCloses, VisitForceClose, VisitPublishing, VisitDeleted, VisitRelease,
                UnpublishCommand, pipeVars
  <2> QED
    BY <2>1, <2>2 DEF Steady, AtInstall
<1>2. ASSUME PollTick \/ PollDeactivate \/ PollClear PROVE Steady
  <2>1. UNCHANGED <<worker, fast, reqs>> /\ (poll' = poll \/ poll'.pc # "install")
    BY <1>0, <1>2 DEF PollTick, PollDeactivate, PollClear, libVars
  <2>2. queue' = queue \/ (PollClear /\ CloseConn(poll.conn))
    BY <1>2 DEF PollTick, PollDeactivate, PollClear, pipeVars
  <2>3. PollClear => poll.conn \in Conns
    BY DEF PollClear, Known, PollKnows
  <2> QED
    BY <2>1, <2>2, <2>3 DEF Steady, AtInstall
<1>3. ASSUME ApplyCompletion PROVE Steady
  <2>1. poll'.pc # "install"
    BY <1>0, <1>3 DEF ApplyCompletion
  <2> QED
    BY <1>3, <2>1 DEF ApplyCompletion, Steady, AtInstall
<1>4. ASSUME \/ WorkerDeactivatesPrior \/ WorkerAcquires \/ WorkerRestoresPrior \/ WorkerInstalls
             \/ WorkerCompletes \/ WorkerWritesClose \/ WorkerPersists \/ WorkerChecksHeld
             \/ WorkerDropsRow
      PROVE  Steady
  <2>1. UNCHANGED <<queue, poll, fast, reqs>>
    BY <1>4 DEF WorkerDeactivatesPrior, WorkerAcquires, WorkerRestoresPrior, WorkerInstalls,
                WorkerCompletes, WorkerWritesClose, WorkerPersists, WorkerChecksHeld,
                WorkerDropsRow, pipeVars, libVars
  <2>2. ASSUME NEW pc, WorkerGoes(pc)
        PROVE  /\ worker'.id = worker.id /\ worker'.conn = worker.conn /\ worker'.old = worker.old
               /\ worker'.pc = pc
    BY <2>2 DEF WorkerGoes, TypeOK, WorkerLocals
  <2>3. worker' = IdleWorker => ~WorkerBusy'
    BY DEF IdleWorker, WorkerBusy
  <2>4. \/ ~WorkerBusy'
        \/ /\ WorkerBusy /\ worker'.conn = worker.conn /\ worker'.id = worker.id
           /\ worker'.old = worker.old /\ (WorkerAuth' => WorkerAuth)
    <3>1. CASE WorkerDeactivatesPrior \/ WorkerAcquires
      BY <3>1, <2>2, <2>3 DEF WorkerDeactivatesPrior, WorkerAcquires, Denies, WorkerAt,
         WorkerBusy,
                              WorkerAuth
    <3>2. CASE WorkerRestoresPrior \/ WorkerCompletes \/ WorkerWritesClose \/ WorkerDropsRow
      BY <3>2, <2>3 DEF WorkerRestoresPrior, WorkerCompletes, WorkerWritesClose, WorkerDropsRow,
         Denies
    <3>3. CASE WorkerInstalls \/ WorkerPersists \/ WorkerChecksHeld
      BY <3>3, <2>2, <2>3 DEF WorkerInstalls, WorkerPersists, WorkerChecksHeld, WorkerAt,
                              WorkerBusy, WorkerAuth
    <3> QED
      BY <1>4, <3>1, <3>2, <3>3
  <2> QED
    BY <2>1, <2>4 DEF Steady
<1>5. ASSUME NEW i \in Sessions, RetryDeactivation(i) PROVE Steady
  BY <1>5 DEF RetryDeactivation, pipeVars, libVars, Steady
<1>6. ASSUME NEW s \in Streams, HttpNext(s) PROVE Steady
  BY <1>6 DEF HttpNext, HttpMarks, HttpBegins, HttpCounts, HttpDrained, HttpDrainTimesOut,
              HttpFinalizes, HttpRollsBack, pipeVars, libVars, Steady
<1>7. ASSUME UNCHANGED vars PROVE Steady
  BY <1>7 DEF vars, Steady
<1> QED
  BY <1>1, <1>2, <1>3, <1>4, <1>5, <1>6, <1>7 DEF Next, ClientNext, PollNext, VisitNext,
     WorkerNext

\* A steady step leaves the queued requests as they are.
LEMMA SteadyQueue ==
  ASSUME TypeOK, Steady
  PROVE  \A k \in 1..Len(queue') :
           queue'[k].kind # "close" => k \in 1..Len(queue) /\ queue'[k] = queue[k]
<1>1. CASE queue' = queue
  BY <1>1
<1>2. ASSUME NEW c \in Conns, CloseConn(c)
      PROVE  \A k \in 1..Len(queue') :
               queue'[k].kind # "close" => k \in 1..Len(queue) /\ queue'[k] = queue[k]
  BY <1>2, QueueGrows, SessionTypes DEF JobKinds, CloseConn
<1> QED
  BY <1>1, <1>2 DEF Steady

\* A steady step keeps requests in one place.
LEMMA ApartSteady ==
  ASSUME TypeOK, Apart, Steady
  PROVE  Apart'
<1>1. \A k \in 1..Len(queue') : queue'[k].kind # "close" => k \in 1..Len(queue) /\ queue'[k] = queue[k]
  BY SteadyQueue
<1>2. /\ WorkerBusy' => WorkerBusy /\ worker'.id = worker.id
      /\ WorkerAuth' => WorkerAuth /\ worker'.id = worker.id
      /\ AtInstall' => AtInstall /\ poll' = poll
  BY DEF Steady, WorkerBusy, WorkerAuth, AtInstall
<1>3. JobsApart' /\ WorkerApart'
  BY <1>1, <1>2 DEF Apart, JobsApart, WorkerApart, Asks
<1>4. PollApart'
  BY <1>1, <1>2 DEF Apart, PollApart, Asks
<1>5. FastApart'
  BY <1>1, <1>2 DEF Apart, FastApart, Asks, Steady
<1> QED
  BY <1>3, <1>4, <1>5 DEF Apart

\* Every step keeps requests in one place.
LEMMA ApartStep == PublishInv /\ Apart /\ [Next]_vars => Apart'
<1> SUFFICES ASSUME PublishInv, Apart, [Next]_vars PROVE Apart'
  OBVIOUS
<1>0. TypeOK /\ PollKnows /\ WorkerKnows /\ JobsKnown /\ reqs \in Nat
  BY SessionsAssumption DEF PublishInv, Known, TypeOK
<1>1. ASSUME NEW c \in Conns, NEW s \in Streams, PublishCommand(c, s) PROVE Apart'
  <2> DEFINE i == reqs + 1
  <2>1. /\ reqs' = i /\ UNCHANGED <<worker, fast>> /\ poll.pc = "idle" /\ i \in SessionsOrNone
        /\ i \notin 1..reqs
    BY <1>1, <1>0, SessionsAssumption DEF PublishCommand, TypeOK, Sessions, SessionsOrNone
  <2>2. /\ \A k \in 1..Len(queue) : Asks(k) => queue[k].id # i
        /\ WorkerBusy => worker.id # i
        /\ i \notin fast /\ fast \subseteq 1..reqs'
    BY <1>0, <2>1 DEF JobsKnown, WorkerKnows, Asks, WorkerBusy, Apart, FastApart
  <2>3. \/ queue' = queue /\ (poll' = poll \/ poll'.id = i)
        \/ queue' = Append(queue, Job("auth", c, i)) /\ poll' = poll
    BY <1>1 DEF PublishCommand, submit_auth
  <2>4. CASE queue' = queue /\ (poll' = poll \/ poll'.id = i)
    <3>1. JobsApart' /\ WorkerApart'
      BY <2>1, <2>4 DEF Apart, JobsApart, WorkerApart, Asks, WorkerBusy
    <3>2. PollApart' /\ FastApart'
      BY <2>1, <2>2, <2>4 DEF Apart, PollApart, FastApart, Asks, WorkerBusy, WorkerAuth, AtInstall
    <3> QED
      BY <3>1, <3>2 DEF Apart
  <2>5. CASE queue' = Append(queue, Job("auth", c, i)) /\ poll' = poll
    <3>1. \A k \in 1..Len(queue') :
            \/ k \in 1..Len(queue) /\ queue'[k] = queue[k]
            \/ k = Len(queue) + 1 /\ queue'[k].kind = "auth" /\ queue'[k].id = i
      BY <1>0, <2>1, <2>5, QueueGrows DEF JobKinds
    <3>2. JobsApart'
      BY <2>2, <3>1 DEF Apart, JobsApart, Asks
    <3>3. WorkerApart' /\ PollApart'
      BY <2>1, <2>2, <2>5, <3>1 DEF Apart, WorkerApart, PollApart, Asks, WorkerBusy, AtInstall
    <3>4. FastApart'
      BY <2>1, <2>2, <2>5, <3>1 DEF Apart, FastApart, Asks, WorkerAuth, AtInstall
    <3> QED
      BY <3>2, <3>3, <3>4 DEF Apart
  <2> QED
    BY <2>3, <2>4, <2>5
<1>2. ASSUME FastInstall PROVE Apart'
  <2> DEFINE c == poll.conn
             i == poll.id
  <2>1. /\ c \in Conns /\ i \in SessionsOrNone /\ i \in 1..reqs /\ AtInstall /\ ~AtInstall'
        /\ UNCHANGED <<worker, reqs>>
    BY <1>2, <1>0, SessionTypes DEF FastInstall, PollKnows, AtInstall, IdlePoll, TypeOK
  <2>2. /\ \A k \in 1..Len(queue) : Asks(k) => queue[k].id # i
        /\ WorkerBusy => worker.id # i
        /\ i \notin fast
    BY <2>1 DEF Apart, PollApart, FastApart
  <2>3. \/ queue' = Append(queue, Job("persist", c, i)) /\ fast' = fast \cup {i}
        \/ queue' = Append(queue, Job("auth", c, i)) /\ fast' = fast
        \/ queue' = queue /\ fast' = fast
    BY <1>2 DEF FastInstall, submit_auth
  <2>4. \A k \in 1..Len(queue') :
          \/ k \in 1..Len(queue) /\ queue'[k] = queue[k]
          \/ /\ k = Len(queue) + 1 /\ queue'[k].id = i
             /\ queue'[k].kind = "auth" => fast' = fast
    <3>1. CASE queue' = queue
      BY <3>1
    <3>2. CASE queue' = Append(queue, Job("persist", c, i))
      BY <1>0, <2>1, <3>2, QueueGrows DEF JobKinds
    <3>3. CASE queue' = Append(queue, Job("auth", c, i)) /\ fast' = fast
      BY <1>0, <2>1, <3>3, QueueGrows DEF JobKinds
    <3> QED
      BY <2>3, <3>1, <3>2, <3>3
  <2>5. JobsApart'
    BY <2>2, <2>4 DEF Apart, JobsApart, Asks
  <2>6. WorkerApart' /\ PollApart'
    BY <2>1, <2>2, <2>4 DEF Apart, WorkerApart, PollApart, Asks, WorkerBusy
  <2>7. FastApart'
    <3>1. fast' \subseteq fast \cup {i}
      BY <2>3
    <3>2. \A k \in 1..Len(queue') : queue'[k].kind = "auth" => queue'[k].id \notin fast'
      BY <2>2, <2>4, <3>1 DEF Apart, FastApart, Asks
    <3>3. WorkerAuth' => worker'.id \notin fast'
      BY <2>1, <2>2, <3>1 DEF Apart, FastApart, WorkerAuth, WorkerBusy
    <3> QED
      BY <2>1, <3>1, <3>2, <3>3 DEF Apart, FastApart
  <2> QED
    BY <2>5, <2>6, <2>7 DEF Apart
<1>3. ASSUME WorkerTakesAuth \/ WorkerTakesPersist \/ WorkerTakesClose PROVE Apart'
  <2> DEFINE j == Head(queue)
  <2>1. queue # <<>> /\ queue' = Tail(queue) /\ UNCHANGED <<poll, fast, reqs>> /\ ~WorkerBusy
    BY <1>3 DEF WorkerTakesAuth, WorkerTakesPersist, WorkerTakesClose, libVars, WorkerAt,
       WorkerBusy
  <2>2. /\ j = queue[1] /\ 1 \in 1..Len(queue)
        /\ \A k \in 1..Len(queue') :
             k + 1 \in 1..Len(queue) /\ k + 1 # 1 /\ queue'[k] = queue[k + 1]
    BY <1>0, <2>1, QueueShrinks
  <2>3. \/ ~WorkerBusy'
        \/ /\ worker'.id = j.id /\ j.kind # "close"
           /\ WorkerAuth' => j.kind = "auth"
    <3>1. CASE WorkerTakesAuth
      <4>1. \/ worker' = IdleWorker
            \/ \E pc, old : worker' = [pc |-> pc, conn |-> j.conn, id |-> j.id, old |-> old]
        BY <3>1 DEF WorkerTakesAuth, Denies
      <4> QED
        BY <3>1, <4>1 DEF WorkerTakesAuth, IdleWorker, WorkerBusy
    <3>2. CASE WorkerTakesPersist
      BY <3>2 DEF WorkerTakesPersist, WorkerAuth
    <3>3. CASE WorkerTakesClose
      BY <3>3 DEF WorkerTakesClose, WorkerBusy, IdleWorker
    <3> QED
      BY <1>3, <3>1, <3>2, <3>3
  <2>4. WorkerAuth' => WorkerBusy'
    BY DEF WorkerAuth, WorkerBusy
  <2>5. JobsApart'
    <3> SUFFICES ASSUME NEW k \in 1..Len(queue'), NEW l \in 1..Len(queue'),
                        queue'[k].kind # "close", queue'[l].kind # "close", k # l
                 PROVE  queue'[k].id # queue'[l].id
      BY DEF JobsApart, Asks
    <3>1. /\ k + 1 \in 1..Len(queue) /\ queue'[k] = queue[k + 1]
          /\ l + 1 \in 1..Len(queue) /\ queue'[l] = queue[l + 1] /\ k + 1 # l + 1
      BY <2>2
    <3> QED
      BY <3>1 DEF Apart, JobsApart, Asks
  <2>6. WorkerApart'
    BY <2>2, <2>3 DEF Apart, JobsApart, WorkerApart, Asks
  <2>7. PollApart'
    BY <2>1, <2>2, <2>3 DEF Apart, PollApart, Asks, AtInstall
  <2>8. FastApart'
    BY <2>1, <2>2, <2>3, <2>4 DEF Apart, FastApart, AtInstall
  <2> QED
    BY <2>5, <2>6, <2>7, <2>8 DEF Apart
<1>4. ASSUME Restart PROVE Apart'
  <2>1. /\ queue' = <<>> /\ UNCHANGED <<fast, reqs>>
        /\ ~WorkerBusy' /\ ~WorkerAuth' /\ ~AtInstall'
    BY <1>4 DEF Restart, WorkerBusy, WorkerAuth, AtInstall, IdleWorker, IdlePoll
  <2>2. \A k : k \notin 1..Len(queue')
    BY <2>1
  <2> QED
    BY <2>1, <2>2 DEF Apart, JobsApart, WorkerApart, PollApart, FastApart
<1>5. CASE Steady
  BY <1>0, <1>5, ApartSteady
<1> QED
  BY <1>0, <1>1, <1>2, <1>3, <1>4, <1>5, SteadyStep DEF PublishInv


\* A delete task keeps its marker until it ends.
LEMMA MarkedStep == TypeOK /\ Marked /\ [Next]_vars => Marked'
<1> SUFFICES ASSUME TypeOK, Marked, [Next]_vars PROVE Marked'
  OBVIOUS
<1>s. UNCHANGED <<http, deleted>> => Marked'
  BY DEF Marked
<1>t. ASSUME NEW s \in Streams,
             \A x \in Streams : x # s => http'[x] = http[x] /\ (x \in deleted => x \in deleted'),
             http'[s] # "none" => s \in deleted'
      PROVE  Marked'
  BY <1>t DEF Marked
<1>1. ASSUME NEW s \in Streams, HttpNext(s) PROVE Marked'
  <2>1. ASSUME NEW pc, HttpGoes(s, pc)
        PROVE  http'[s] = pc /\ \A x \in Streams : x # s => http'[x] = http[x]
    BY <2>1 DEF HttpGoes, TypeOK
  <2>2. clear_http_delete_marker(s) => \A x \in Streams : x # s => (x \in deleted => x \in deleted')
    BY DEF clear_http_delete_marker
  <2>3. CASE HttpMarks(s)
    BY <2>1, <2>3, <1>t DEF HttpMarks
  <2>4. CASE HttpBegins(s) \/ HttpRollsBack(s)
    BY <2>1, <2>2, <2>4, <1>t DEF HttpBegins, HttpRollsBack, Marked
  <2>5. CASE HttpCounts(s) \/ HttpDrained(s) \/ HttpDrainTimesOut(s)
    <3>1. http[s] # "none" /\ deleted' = deleted
      BY <2>5 DEF HttpCounts, HttpDrained, HttpDrainTimesOut
    <3>2. \E pc : HttpGoes(s, pc)
      BY <2>5 DEF HttpCounts, HttpDrained, HttpDrainTimesOut
    <3> QED
      BY <2>1, <3>1, <3>2, <1>t DEF Marked
  <2>6. CASE HttpFinalizes(s)
    <3>1. \/ HttpGoes(s, "none") /\ clear_http_delete_marker(s)
          \/ HttpGoes(s, "rollback") /\ deleted' = deleted /\ http[s] # "none"
          \/ UNCHANGED <<http, deleted>>
      BY <2>6 DEF HttpFinalizes
    <3>2. CASE HttpGoes(s, "none") /\ clear_http_delete_marker(s)
      BY <2>1, <2>2, <3>2, <1>t
    <3>3. CASE HttpGoes(s, "rollback") /\ deleted' = deleted /\ http[s] # "none"
      BY <2>1, <3>3, <1>t DEF Marked
    <3> QED
      BY <3>1, <3>2, <3>3, <1>s
  <2> QED
    BY <1>1, <2>3, <2>4, <2>5, <2>6 DEF HttpNext
<1>2. ASSUME Restart PROVE Marked'
  BY <1>2 DEF Restart, Marked
<1>3. ASSUME UNCHANGED httpVars PROVE Marked'
  BY <1>3, <1>s DEF httpVars
<1>4. ASSUME ClientNext \/ PollNext \/ WorkerNext PROVE UNCHANGED httpVars
  <2>1. CASE ClientNext
    BY <2>1 DEF ClientNext, PublishCommand, UnpublishCommand, PeerCloses
  <2>2. CASE PollNext
    BY <2>2 DEF PollNext, VisitNext, FastInstall, PollTick, PollDeactivate, PollClear,
                ApplyCompletion, RetryDeactivation, VisitForceClose, VisitRelease,
                VisitPublishing, VisitDeleted
  <2>3. CASE WorkerNext
    BY <2>3 DEF WorkerNext, WorkerTakesAuth, WorkerTakesClose, WorkerTakesPersist,
       WorkerDeactivatesPrior, WorkerAcquires, WorkerRestoresPrior, WorkerInstalls,
       WorkerCompletes, WorkerWritesClose, WorkerPersists, WorkerChecksHeld, WorkerDropsRow
  <2> QED
    BY <1>4, <2>1, <2>2, <2>3
<1>5. ASSUME UNCHANGED vars PROVE Marked'
  BY <1>5, <1>s DEF vars
<1> QED
  BY <1>1, <1>2, <1>3, <1>4, <1>5 DEF Next

HeldKept == \A c \in Conns : held'[c] = held[c] \/ held'[c] = NoSession

\* Who holds what after a step: a connection keeps or loses its session, or is
\* given the one that the poll thread or the worker installs.
LEMMA HeldStep ==
  ASSUME TypeOK, Known, [Next]_vars
  PROVE  \/ HeldKept /\ fast' = fast
         \/ FastInstall /\ FastAdmits(poll.conn, poll.id)
         \/ WorkerInstalls /\ fast' = fast
<1> USE DEF HeldKept
<1>0. held \in [Conns -> SessionsOrNone]
  BY DEF TypeOK
<1>1. CASE ClientNext
  BY <1>1 DEF ClientNext, PublishCommand, UnpublishCommand, PeerCloses, bridgeVars
<1>2. CASE PollNext
  <2>1. ASSUME FastInstall
        PROVE  (held' = held /\ fast' = fast) \/ FastAdmits(poll.conn, poll.id)
    BY <2>1 DEF FastInstall
  <2>2. ASSUME PollClear PROVE HeldKept
    BY <2>2, <1>0 DEF PollClear
  <2>3. ASSUME NEW c \in Conns, VisitNext(c) PROVE held' = held
    BY <2>3 DEF VisitNext, VisitForceClose, VisitRelease, VisitPublishing, VisitDeleted,
       bridgeVars
  <2>4. ASSUME PollTick \/ PollDeactivate \/ ApplyCompletion PROVE held' = held
    BY <2>4 DEF PollTick, PollDeactivate, ApplyCompletion, bridgeVars
  <2>5. ASSUME NEW i \in Sessions, RetryDeactivation(i) PROVE held' = held
    BY <2>5 DEF RetryDeactivation
  <2>6. ASSUME ~FastInstall PROVE fast' = fast
    BY <1>2, <2>6 DEF PollNext, VisitNext, PollTick, PollDeactivate, PollClear, ApplyCompletion,
       RetryDeactivation, VisitForceClose, VisitRelease, VisitPublishing, VisitDeleted, libVars
  <2> QED
    BY <1>2, <2>1, <2>2, <2>3, <2>4, <2>5, <2>6 DEF PollNext
<1>3. CASE WorkerNext
  <2>1. ASSUME WorkerTakesClose PROVE HeldKept
    BY <2>1, <1>0 DEF WorkerTakesClose
  <2>2. ASSUME WorkerPersists PROVE HeldKept
    BY <2>2, <1>0 DEF WorkerPersists
  <2>3. ASSUME ~WorkerTakesClose, ~WorkerPersists, ~WorkerInstalls PROVE held' = held
    BY <1>3, <2>3 DEF WorkerNext, WorkerTakesAuth, WorkerTakesPersist, WorkerDeactivatesPrior,
       WorkerAcquires, WorkerRestoresPrior, WorkerCompletes, WorkerWritesClose, WorkerChecksHeld,
       WorkerDropsRow, bridgeVars
  <2>4. fast' = fast
    BY <1>3 DEF WorkerNext, WorkerTakesAuth, WorkerTakesClose, WorkerTakesPersist,
       WorkerDeactivatesPrior, WorkerAcquires, WorkerRestoresPrior, WorkerInstalls,
       WorkerCompletes, WorkerWritesClose, WorkerPersists, WorkerChecksHeld, WorkerDropsRow, libVars
  <2> QED
    BY <2>1, <2>2, <2>3, <2>4
<1>4. ASSUME NEW s \in Streams, HttpNext(s) PROVE HeldKept /\ fast' = fast
  <2>1. CASE HttpDrainTimesOut(s)
    BY <2>1 DEF HttpDrainTimesOut, libVars
  <2>2. CASE ~HttpDrainTimesOut(s)
    BY <1>4, <2>2 DEF HttpNext, HttpMarks, HttpBegins, HttpCounts, HttpDrained, HttpFinalizes,
                      HttpRollsBack, bridgeVars, libVars
  <2> QED
    BY <2>1, <2>2
<1>5. CASE Restart
  BY <1>5 DEF Restart
<1>6. CASE UNCHANGED vars
  BY <1>6 DEF vars
<1> QED
  BY <1>1, <1>2, <1>3, <1>4, <1>5, <1>6 DEF Next

\* A held session's stream does not change: only the next request names one.
LEMMA StreamKept ==
  ASSUME TypeOK, Known, [Next]_vars
  PROVE  \A i \in 1..reqs : streamOf'[i] = streamOf[i]
<1>0. reqs \in Nat /\ streamOf \in [Sessions -> Streams \cup {NoStream}]
  BY SessionsAssumption DEF TypeOK
<1>1. ASSUME NEW c \in Conns, NEW s \in Streams, PublishCommand(c, s)
      PROVE  \A i \in 1..reqs : streamOf'[i] = streamOf[i]
  <2>1. streamOf' = [streamOf EXCEPT ![reqs + 1] = s] /\ reqs + 1 \notin 1..reqs
    BY <1>0, <1>1 DEF PublishCommand
  <2>2. 1..reqs \subseteq Sessions
    BY SessionTypes DEF TypeOK
  <2> QED
    BY <1>0, <2>1, <2>2
<1>2. CASE PollNext
  BY <1>2 DEF PollNext, VisitNext, FastInstall, PollTick, PollDeactivate, PollClear,
              ApplyCompletion, RetryDeactivation, VisitForceClose, VisitRelease,
              VisitPublishing, VisitDeleted, libVars
<1>3. CASE WorkerNext
  BY <1>3 DEF WorkerNext, WorkerTakesAuth, WorkerTakesClose, WorkerTakesPersist,
     WorkerDeactivatesPrior, WorkerAcquires, WorkerRestoresPrior, WorkerInstalls,
     WorkerCompletes, WorkerWritesClose, WorkerPersists, WorkerChecksHeld, WorkerDropsRow, libVars
<1>4. ASSUME NEW s \in Streams, HttpNext(s) PROVE streamOf' = streamOf
  BY <1>4 DEF HttpNext, HttpMarks, HttpBegins, HttpCounts, HttpDrained, HttpDrainTimesOut,
              HttpFinalizes, HttpRollsBack, libVars
<1>5. CASE Restart
  BY <1>5 DEF Restart
<1>6. CASE UNCHANGED vars
  BY <1>6 DEF vars
<1>7. ASSUME NEW c \in Conns, UnpublishCommand(c) \/ PeerCloses(c) PROVE streamOf' = streamOf
  BY <1>7 DEF UnpublishCommand, PeerCloses
<1> QED
  BY <1>1, <1>2, <1>3, <1>4, <1>5, <1>6, <1>7 DEF Next, ClientNext


\* Only a finalized delete, or a restart, takes a stream away.
LEMMA GoneStep ==
  ASSUME TypeOK, [Next]_vars, NEW s \in Streams, stream'[s] = "gone", stream[s] # "gone"
  PROVE  Restart \/ (http[s] \in {"finalize_now", "finalize"} /\ HttpFinalizes(s))
<1>0. stream' # stream /\ stream \in [Streams -> {"enabled", "deleting", "gone"}]
  BY DEF TypeOK
<1>1. CASE ClientNext
  BY <1>0, <1>1 DEF ClientNext, PublishCommand, UnpublishCommand, PeerCloses, dbVars
<1>2. CASE PollNext
  BY <1>0, <1>2 DEF PollNext, VisitNext, FastInstall, PollTick, PollDeactivate, PollClear,
                    ApplyCompletion, RetryDeactivation, VisitForceClose, VisitRelease,
                    VisitPublishing, VisitDeleted, dbVars
<1>3. CASE WorkerNext
  BY <1>0, <1>3 DEF WorkerNext, WorkerTakesAuth, WorkerTakesClose, WorkerTakesPersist,
     WorkerDeactivatesPrior, WorkerAcquires, WorkerRestoresPrior, WorkerInstalls,
     WorkerCompletes, WorkerWritesClose, WorkerPersists, WorkerChecksHeld, WorkerDropsRow, dbVars
<1>4. ASSUME NEW x \in Streams, HttpNext(x)
      PROVE  http[s] \in {"finalize_now", "finalize"} /\ HttpFinalizes(s)
  <2>1. CASE HttpFinalizes(x)
    <3>1. stream' = [stream EXCEPT ![x] = "gone"] /\ http[x] \in {"finalize_now", "finalize"}
      BY <1>0, <2>1 DEF HttpFinalizes, stream_delete_if_pending
    <3>2. x = s
      BY <1>0, <3>1
    <3> QED
      BY <2>1, <3>1, <3>2
  <2>2. CASE HttpBegins(x) \/ HttpRollsBack(x)
    BY <1>0, <2>2 DEF HttpBegins, HttpRollsBack
  <2>3. CASE HttpMarks(x) \/ HttpCounts(x) \/ HttpDrained(x) \/ HttpDrainTimesOut(x)
    BY <1>0, <2>3 DEF HttpMarks, HttpCounts, HttpDrained, HttpDrainTimesOut, dbVars
  <2> QED
    BY <1>4, <2>1, <2>2, <2>3 DEF HttpNext
<1>5. CASE UNCHANGED vars
  BY <1>0, <1>5 DEF vars
<1> QED
  BY <1>1, <1>2, <1>3, <1>4, <1>5 DEF Next

\* Past its drain a delete has no fast session on its stream: the marker keeps
\* new ones out, and the worker installs none.
LEMMA DrainedStep == PublishInv /\ DrainInv /\ [Next]_vars => Drained'
<1> SUFFICES ASSUME PublishInv, DrainInv, [Next]_vars,
                    NEW s \in Streams, http'[s] \in {"finalize_now", "finalize", "rollback"},
                    NEW c \in Conns, held'[c] \in fast', streamOf'[held'[c]] = s
             PROVE  FALSE
  BY DEF Drained, FastGone
<1>0. /\ TypeOK /\ Known /\ HeldKnown /\ PollKnows /\ WorkerKnows /\ Marked /\ Drained
      /\ fast \subseteq 1..reqs /\ reqs \in Nat /\ held \in [Conns -> SessionsOrNone]
      /\ http \in [Streams -> HttpStates]
  BY SessionsAssumption DEF PublishInv, Known, DrainInv, Apart, FastApart, TypeOK
<1>k. \A i \in 1..reqs : streamOf'[i] = streamOf[i]
  BY <1>0, StreamKept
<1>n. NoSession \notin fast
  BY <1>0 DEF NoSession
<1>1. CASE held'[c] = held[c] /\ fast' = fast
  <2>1. held[c] \in fast /\ streamOf[held[c]] = s /\ held[c] # NoSession
    <3>1. held[c] \in fast
      BY <1>1
    <3>2. streamOf'[held[c]] = s /\ held[c] \in 1..reqs
      BY <1>0, <1>1, <3>1
    <3> QED
      BY <1>k, <1>n, <3>1, <3>2
  <2>2. http[s] \notin {"finalize_now", "finalize", "rollback"}
    BY <1>0, <2>1 DEF Drained, FastGone
  <2>3. http'[s] # http[s] /\ c \in LiveConns(s)
    BY <2>1, <2>2 DEF LiveConns
  <2>4. ASSUME NEW x \in Streams, HttpNext(x) PROVE FALSE
    <3>1. ASSUME NEW pc, HttpGoes(x, pc) PROVE http'[x] = pc /\ (x # s => http'[s] = http[s])
      BY <3>1, <1>0 DEF HttpGoes
    <3>2. CASE HttpMarks(x)
      BY <2>3, <3>1, <3>2 DEF HttpMarks
    <3>3. CASE HttpBegins(x) \/ HttpRollsBack(x)
      BY <2>3, <3>1, <3>3 DEF HttpBegins, HttpRollsBack
    <3>4. CASE HttpCounts(x)
      BY <2>3, <3>1, <3>4 DEF HttpCounts
    <3>5. CASE HttpDrained(x)
      BY <2>3, <3>1, <3>5 DEF HttpDrained
    <3>6. CASE HttpDrainTimesOut(x)
      BY <2>1, <2>3, <3>1, <3>6, <1>1 DEF HttpDrainTimesOut
    <3>7. CASE HttpFinalizes(x)
      <4>1. HttpGoes(x, "none") \/ http' = http
            \/ (http[x] = "finalize_now" /\ HttpGoes(x, "rollback"))
        BY <3>7 DEF HttpFinalizes
      <4> QED
        BY <2>2, <2>3, <3>1, <4>1
    <3> QED
      BY <2>4, <3>2, <3>3, <3>4, <3>5, <3>6, <3>7 DEF HttpNext
  <2>5. CASE Restart
    BY <2>5 DEF Restart
  <2>6. CASE ClientNext
    BY <2>3, <2>6 DEF ClientNext, PublishCommand, UnpublishCommand, PeerCloses, httpVars
  <2>7. CASE PollNext
    BY <2>3, <2>7 DEF PollNext, VisitNext, FastInstall, PollTick, PollDeactivate, PollClear,
                ApplyCompletion, RetryDeactivation, VisitForceClose, VisitRelease,
                VisitPublishing, VisitDeleted, httpVars
  <2>8. CASE WorkerNext
    BY <2>3, <2>8 DEF WorkerNext, WorkerTakesAuth, WorkerTakesClose, WorkerTakesPersist,
       WorkerDeactivatesPrior, WorkerAcquires, WorkerRestoresPrior, WorkerInstalls,
       WorkerCompletes, WorkerWritesClose, WorkerPersists, WorkerChecksHeld, WorkerDropsRow, httpVars
  <2>9. CASE UNCHANGED vars
    BY <2>3, <2>9 DEF vars
  <2> QED
    BY <2>4, <2>5, <2>6, <2>7, <2>8, <2>9 DEF Next
<1>2. CASE held'[c] = NoSession /\ fast' = fast
  BY <1>2, <1>n
<1>3. CASE FastInstall /\ FastAdmits(poll.conn, poll.id)
  <2>1. /\ held' = [held EXCEPT ![poll.conn] = poll.id] /\ fast' = fast \cup {poll.id}
        /\ http' = http /\ streamOf[poll.id] \notin deleted
        /\ poll.conn \in Conns /\ poll.id \in 1..reqs
    BY <1>3, <1>0 DEF FastInstall, FastAdmits, httpVars, PollKnows
  <2>2. s \in deleted
    BY <1>0, <2>1 DEF Marked
  <2>3. held'[c] # poll.id
    BY <2>1, <2>2, <1>k
  <2>4. held'[c] = held[c] /\ held[c] \in fast
    BY <1>0, <2>1, <2>3
  <2> QED
    BY <1>0, <1>k, <2>1, <2>4 DEF Drained, FastGone
<1>4. CASE WorkerInstalls /\ fast' = fast
  <2>1. held' = [held EXCEPT ![worker.conn] = worker.id] /\ http' = http /\ worker.id \notin fast
    BY <1>4 DEF WorkerInstalls, httpVars, WorkerAt, WorkerAuth, DrainInv, Apart, FastApart
  <2>2. held'[c] = held[c]
    BY <1>0, <1>4, <2>1
  <2> QED
    BY <1>4, <1>1, <2>2
<1> QED
  BY <1>0, <1>1, <1>2, <1>3, <1>4, HeldStep DEF HeldKept


\* The poll thread comes to install a session only by a new request.
LEMMA InstallStep ==
  ASSUME TypeOK, [Next]_vars, AtInstall'
  PROVE  \/ poll' = poll
         \/ poll'.id = reqs + 1 /\ held' = held /\ reqs' = reqs + 1
<1>0. IdlePoll.pc # "install" /\ [poll EXCEPT !.pc = "clear"].pc # "install"
  BY DEF IdlePoll, TypeOK, PollLocals
<1>1. CASE ClientNext
  BY <1>1 DEF ClientNext, PublishCommand, UnpublishCommand, PeerCloses, bridgeVars
<1>2. CASE PollNext
  <2>1. CASE FastInstall \/ PollTick \/ PollDeactivate \/ PollClear
    BY <1>0, <2>1 DEF FastInstall, PollTick, PollDeactivate, PollClear, AtInstall
  <2>2. CASE ApplyCompletion
    BY <1>0, <2>2 DEF ApplyCompletion, AtInstall
  <2>3. ASSUME NEW c \in Conns, VisitNext(c) PROVE poll' = poll
    BY <2>3 DEF VisitNext, VisitForceClose, VisitRelease, VisitPublishing, VisitDeleted, AtInstall
  <2>4. ASSUME NEW i \in Sessions, RetryDeactivation(i) PROVE poll' = poll
    BY <2>4 DEF RetryDeactivation
  <2> QED
    BY <1>2, <2>1, <2>2, <2>3, <2>4 DEF PollNext
<1>3. CASE WorkerNext
  BY <1>3 DEF WorkerNext, WorkerTakesAuth, WorkerTakesClose, WorkerTakesPersist,
     WorkerDeactivatesPrior, WorkerAcquires, WorkerRestoresPrior, WorkerInstalls,
     WorkerCompletes, WorkerWritesClose, WorkerPersists, WorkerChecksHeld, WorkerDropsRow
<1>4. ASSUME NEW s \in Streams, HttpNext(s) PROVE poll' = poll
  BY <1>4 DEF HttpNext, HttpMarks, HttpBegins, HttpCounts, HttpDrained, HttpDrainTimesOut,
              HttpFinalizes, HttpRollsBack
<1>5. CASE Restart
  BY <1>0, <1>5 DEF Restart, AtInstall
<1>6. CASE UNCHANGED vars
  BY <1>6 DEF vars
<1> QED
  BY <1>1, <1>2, <1>3, <1>4, <1>5, <1>6 DEF Next

\* Nobody is given the session that the poll thread is about to install.
LEMMA PollFreeStep == PublishInv /\ DrainInv /\ [Next]_vars => PollFree'
<1> SUFFICES ASSUME PublishInv, DrainInv, [Next]_vars, AtInstall', NEW c \in Conns
             PROVE  held'[c] # poll'.id
  BY DEF PollFree
<1>0. /\ TypeOK /\ Known /\ PollKnows /\ WorkerKnows /\ HeldKnown /\ PollApart /\ PollFree
      /\ reqs \in Nat /\ held \in [Conns -> SessionsOrNone]
  BY SessionsAssumption DEF PublishInv, Known, DrainInv, Apart, TypeOK
<1>1. CASE poll'.id = reqs + 1 /\ held' = held
  BY <1>0, <1>1 DEF HeldKnown
<1>2. CASE poll' = poll
  <2>1. AtInstall /\ poll.id \in 1..reqs /\ poll.id # NoSession /\ held[c] # poll.id
    BY <1>0, <1>2 DEF AtInstall, PollKnows, PollFree, NoSession
  <2>2. ~FastInstall
    BY <1>2, <2>1 DEF FastInstall, AtInstall, IdlePoll
  <2>3. CASE HeldKept
    BY <1>2, <2>1, <2>3 DEF HeldKept
  <2>4. CASE WorkerInstalls
    <3>1. held' = [held EXCEPT ![worker.conn] = worker.id] /\ worker.id # poll.id
      BY <1>0, <2>1, <2>4 DEF WorkerInstalls, PollApart, WorkerBusy, WorkerAt
    <3> QED
      BY <1>0, <1>2, <2>1, <3>1
  <2> QED
    BY <1>0, <2>2, <2>3, <2>4, HeldStep
<1> QED
  BY <1>0, <1>1, <1>2, InstallStep

\* Every request names a stream.
LEMMA NamedStep == TypeOK /\ Known /\ Named /\ [Next]_vars => Named'
<1> SUFFICES ASSUME TypeOK, Known, Named, [Next]_vars, NEW i \in 1..reqs' PROVE streamOf'[i] \in Streams
  BY DEF Named
<1>0. reqs \in Nat /\ streamOf \in [Sessions -> Streams \cup {NoStream}]
  BY SessionsAssumption DEF TypeOK
<1>1. ASSUME NEW c \in Conns, NEW s \in Streams, PublishCommand(c, s) PROVE streamOf'[i] \in Streams
  <2>1. /\ streamOf' = [streamOf EXCEPT ![reqs + 1] = s] /\ reqs' = reqs + 1
        /\ reqs + 1 \in Sessions
    BY <1>0, <1>1, SessionsAssumption DEF PublishCommand, Sessions
  <2>2. CASE i = reqs + 1
    BY <1>0, <2>1, <2>2
  <2>3. CASE i \in 1..reqs
    BY <2>3, StreamKept DEF Named
  <2> QED
    BY <1>0, <2>1, <2>2, <2>3
<1>2. CASE reqs' = reqs
  BY <1>2, StreamKept DEF Named
<1>3. ASSUME NEW c \in Conns, UnpublishCommand(c) \/ PeerCloses(c) PROVE reqs' = reqs
  BY <1>3 DEF UnpublishCommand, PeerCloses
<1>4. CASE PollNext
  BY <1>2, <1>4 DEF PollNext, VisitNext, FastInstall, PollTick, PollDeactivate, PollClear,
     ApplyCompletion, RetryDeactivation, VisitForceClose, VisitRelease, VisitPublishing,
     VisitDeleted, libVars
<1>5. CASE WorkerNext
  BY <1>2, <1>5 DEF WorkerNext, WorkerTakesAuth, WorkerTakesClose, WorkerTakesPersist,
     WorkerDeactivatesPrior, WorkerAcquires, WorkerRestoresPrior, WorkerInstalls,
     WorkerCompletes, WorkerWritesClose, WorkerPersists, WorkerChecksHeld, WorkerDropsRow, libVars
<1>6. ASSUME NEW s \in Streams, HttpNext(s) PROVE reqs' = reqs
  BY <1>6 DEF HttpNext, HttpMarks, HttpBegins, HttpCounts, HttpDrained, HttpDrainTimesOut,
              HttpFinalizes, HttpRollsBack, libVars
<1>7. CASE Restart \/ UNCHANGED vars
  BY <1>2, <1>7 DEF Restart, vars
<1> QED
  BY <1>1, <1>2, <1>3, <1>4, <1>5, <1>6, <1>7 DEF Next, ClientNext

\* A row still to be written stays so until the worker writes it.
LEMMA PendingStep ==
  ASSUME TypeOK, PollKnows, [Next]_vars, NEW c \in Conns, NEW i \in Sessions, PersistPending(c, i),
         ~Restart, ~(WorkerPersists /\ worker.conn = c /\ worker.id = i)
  PROVE  PersistPending(c, i)'
<1>1. CASE worker.pc = "persist" /\ worker.conn = c /\ worker.id = i
  <2>1. worker' = worker
    <3>1. CASE ClientNext
      BY <3>1 DEF ClientNext, PublishCommand, UnpublishCommand, PeerCloses
    <3>2. CASE PollNext
      BY <3>2 DEF PollNext, VisitNext, FastInstall, PollTick, PollDeactivate, PollClear,
         ApplyCompletion, RetryDeactivation, VisitForceClose, VisitRelease, VisitPublishing,
         VisitDeleted
    <3>3. CASE WorkerNext
      BY <1>1, <3>3 DEF WorkerNext, WorkerTakesAuth, WorkerTakesClose, WorkerTakesPersist,
         WorkerDeactivatesPrior, WorkerAcquires, WorkerRestoresPrior, WorkerInstalls,
         WorkerCompletes, WorkerWritesClose, WorkerChecksHeld, WorkerDropsRow, WorkerAt
    <3>4. ASSUME NEW s \in Streams, HttpNext(s) PROVE worker' = worker
      BY <3>4 DEF HttpNext, HttpMarks, HttpBegins, HttpCounts, HttpDrained, HttpDrainTimesOut,
                  HttpFinalizes, HttpRollsBack
    <3>5. CASE UNCHANGED vars
      BY <3>5 DEF vars
    <3> QED
      BY <3>1, <3>2, <3>3, <3>4, <3>5 DEF Next
  <2> QED
    BY <1>1, <2>1 DEF PersistPending
<1>2. ASSUME NEW k \in 1..Len(queue), queue[k] = Job("persist", c, i) PROVE PersistPending(c, i)'
  <2>1. ASSUME NEW kind \in JobKinds, NEW d \in Conns, NEW n \in SessionsOrNone,
               queue' = Append(queue, Job(kind, d, n))
        PROVE  PersistPending(c, i)'
    <3>1. k \in 1..Len(queue') /\ queue'[k] = queue[k]
      BY <2>1, QueueGrows
    <3> QED
      BY <1>2, <3>1 DEF PersistPending, Job
  <2>2. CASE queue' = queue
    BY <1>2, <2>2 DEF PersistPending, Job
  <2>3. ASSUME NEW d \in Conns, CloseConn(d) PROVE PersistPending(c, i)'
    BY <2>1, <2>3, SessionTypes DEF CloseConn, JobKinds
  <2>4. ASSUME NEW d \in Conns, NEW n \in SessionsOrNone, submit_auth(d, n)
        PROVE  PersistPending(c, i)'
    BY <2>1, <2>2, <2>4 DEF submit_auth, JobKinds
  <2>5. ASSUME queue # <<>>, queue' = Tail(queue), k # 1 PROVE PersistPending(c, i)'
    <3>1. k - 1 \in 1..Len(queue') /\ queue'[k - 1] = queue[k]
      BY <2>5, QueueShrinks
    <3> QED
      BY <1>2, <3>1 DEF PersistPending, Job
  <2>6. ASSUME queue # <<>>, queue' = Tail(queue), k = 1 PROVE Head(queue) = Job("persist", c, i)
    BY <1>2, <2>6, QueueShrinks
  <2>7. CASE WorkerTakesAuth \/ WorkerTakesClose
    <3>1. queue # <<>> /\ queue' = Tail(queue) /\ Head(queue).kind # "persist"
      BY <2>7 DEF WorkerTakesAuth, WorkerTakesClose
    <3>2. Job("persist", c, i).kind = "persist"
      BY DEF Job
    <3> QED
      BY <2>5, <2>6, <3>1, <3>2
  <2>8. CASE WorkerTakesPersist
    <3>1. queue # <<>> /\ queue' = Tail(queue)
      BY <2>8 DEF WorkerTakesPersist
    <3>2. CASE k = 1
      <4>1. Head(queue).conn = c /\ Head(queue).id = i
        BY <2>6, <3>1, <3>2 DEF Job
      <4> QED
        BY <2>8, <4>1 DEF WorkerTakesPersist, PersistPending
    <3> QED
      BY <2>5, <3>1, <3>2
  <2>9. CASE WorkerNext /\ ~WorkerTakesAuth /\ ~WorkerTakesClose /\ ~WorkerTakesPersist
    BY <2>2, <2>9 DEF WorkerNext, WorkerDeactivatesPrior, WorkerAcquires, WorkerRestoresPrior,
       WorkerInstalls, WorkerCompletes, WorkerWritesClose, WorkerPersists, WorkerChecksHeld,
       WorkerDropsRow, pipeVars
  <2>10. CASE FastInstall
    <3>1. poll.conn \in Conns /\ poll.id \in SessionsOrNone
      BY <2>10, SessionTypes DEF FastInstall, PollKnows, TypeOK
    <3>2. \/ queue' = Append(queue, Job("persist", poll.conn, poll.id))
          \/ queue' = Append(queue, Job("auth", poll.conn, poll.id)) \/ queue' = queue
      BY <2>10 DEF FastInstall, submit_auth
    <3> QED
      BY <2>1, <2>2, <3>1, <3>2 DEF JobKinds
  <2>11. ASSUME NEW d \in Conns, VisitNext(d) \/ UnpublishCommand(d) \/ PeerCloses(d)
         PROVE  PersistPending(c, i)'
    BY <2>2, <2>3, <2>11 DEF VisitNext, VisitForceClose, VisitRelease, VisitPublishing,
                             VisitDeleted, UnpublishCommand, PeerCloses, pipeVars
  <2>12. CASE PollTick \/ PollDeactivate \/ ApplyCompletion
    BY <2>2, <2>12 DEF PollTick, PollDeactivate, ApplyCompletion, pipeVars
  <2>13. CASE PollClear
    BY <2>2, <2>3, <2>13 DEF PollClear, PollKnows
  <2>14. ASSUME NEW n \in Sessions, RetryDeactivation(n) PROVE PersistPending(c, i)'
    BY <2>2, <2>14 DEF RetryDeactivation, pipeVars
  <2>15. ASSUME NEW d \in Conns, NEW s \in Streams, PublishCommand(d, s) PROVE PersistPending(c, i)'
    BY <2>2, <2>4, <2>15, SessionsAssumption
       DEF PublishCommand, TypeOK, SessionsOrNone, Sessions
  <2>16. ASSUME NEW s \in Streams, HttpNext(s) PROVE PersistPending(c, i)'
    BY <2>2, <2>16 DEF HttpNext, HttpMarks, HttpBegins, HttpCounts, HttpDrained,
       HttpDrainTimesOut,
                       HttpFinalizes, HttpRollsBack, pipeVars
  <2>17. CASE UNCHANGED vars
    BY <2>2, <2>17 DEF vars
  <2> QED
    BY <2>7, <2>8, <2>9, <2>10, <2>11, <2>12, <2>13, <2>14, <2>15, <2>16, <2>17
       DEF Next, ClientNext, PollNext
<1> QED
  BY <1>1, <1>2 DEF PersistPending


\* A fast session never outlives its stream: when the stream goes the drain has
\* left none of them, and one installed later is refused its row.
LEMMA FastDrainStep == PublishInv /\ DrainInv /\ [Next]_vars => FastSessionsDrain'
<1> SUFFICES ASSUME PublishInv, DrainInv, [Next]_vars, NEW c \in Conns, NEW i,
                    i = held'[c], i \in fast', stream'[streamOf'[i]] = "gone"
             PROVE  PersistPending(c, i)'
  BY DEF FastSessionsDrain, PersistPending
<1>0. /\ TypeOK /\ Known /\ PollKnows /\ WorkerKnows /\ FastSessionsDrain /\ PollFree /\ Drained /\ Named
      /\ fast \subseteq 1..reqs /\ 1..reqs \subseteq Sessions /\ reqs \in Nat
      /\ held \in [Conns -> SessionsOrNone]
  <2>1. TypeOK /\ Known /\ PollKnows /\ WorkerKnows
    BY DEF PublishInv, Known
  <2>2. FastSessionsDrain /\ PollFree /\ Drained /\ Named /\ fast \subseteq 1..reqs
    BY DEF DrainInv, Apart, FastApart
  <2>3. reqs \in 0..MaxSessions /\ held \in [Conns -> SessionsOrNone]
    BY <2>1 DEF TypeOK
  <2> QED
    BY <2>1, <2>2, <2>3, SessionTypes, SessionsAssumption
<1>k. \A n \in 1..reqs : streamOf'[n] = streamOf[n]
  BY <1>0, StreamKept
<1>1. ASSUME i = held[c], i \in fast PROVE PersistPending(c, i)'
  <2> DEFINE s == streamOf[i]
  <2>1. i \in Sessions /\ i \in 1..reqs /\ s \in Streams /\ stream'[s] = "gone"
    <3>1. i \in 1..reqs /\ streamOf'[i] = s
      BY <1>0, <1>k, <1>1
    <3> QED
      BY <1>0, <1>1, <3>1 DEF Named
  <2>0. held'[c] # NoSession
    BY <2>1, <1>0 DEF NoSession
  <2>2. ~Restart
    BY <2>0 DEF Restart
  <2>3. stream[s] = "gone"
    <3>1. http[s] \notin {"finalize_now", "finalize"}
      BY <1>0, <1>1, <2>1 DEF Drained, FastGone
    <3> QED
      BY <1>0, <2>1, <2>2, <3>1, GoneStep
  <2>4. PersistPending(c, i)
    BY <1>0, <1>1, <2>3 DEF FastSessionsDrain
  <2>5. ~(WorkerPersists /\ worker.conn = c /\ worker.id = i)
    <3> SUFFICES ASSUME WorkerPersists, worker.conn = c, worker.id = i PROVE FALSE
      OBVIOUS
    <3>1. ~publisher_try_acquire(worker.id)
      BY <2>3 DEF publisher_try_acquire
    <3>2. held'[c] = NoSession
      BY <1>0, <3>1 DEF WorkerPersists
    <3> QED
      BY <2>0, <3>2
  <2> QED
    BY <1>0, <2>1, <2>2, <2>4, <2>5, PendingStep
<1>2. CASE HeldKept /\ fast' = fast
  BY <1>0, <1>1, <1>2 DEF HeldKept, NoSession
<1>3. CASE FastInstall /\ FastAdmits(poll.conn, poll.id)
  <2>1. /\ held' = [held EXCEPT ![poll.conn] = poll.id] /\ fast' = fast \cup {poll.id}
        /\ queue' = Append(queue, Job("persist", poll.conn, poll.id))
        /\ poll.conn \in Conns /\ poll.id \in 1..reqs /\ AtInstall
    BY <1>3, <1>0 DEF FastInstall, PollKnows, AtInstall
  <2>2. CASE c = poll.conn
    <3>1. held'[c] = poll.id
      BY <1>0, <2>1, <2>2
    <3>2. /\ Len(queue) + 1 \in 1..Len(queue')
          /\ queue'[Len(queue) + 1] = Job("persist", poll.conn, poll.id)
      BY <1>0, <2>1, QueueGrows, SessionTypes DEF JobKinds
    <3> QED
      BY <2>2, <3>1, <3>2 DEF PersistPending, Job
  <2>3. CASE c # poll.conn
    <3>1. held'[c] = held[c] /\ held[c] # poll.id
      BY <1>0, <2>1, <2>3 DEF PollFree
    <3> QED
      BY <1>1, <2>1, <3>1
  <2> QED
    BY <2>2, <2>3
<1>4. CASE WorkerInstalls /\ fast' = fast
  <2>1. held' = [held EXCEPT ![worker.conn] = worker.id] /\ worker.id \notin fast
    BY <1>4 DEF WorkerInstalls, WorkerAt, WorkerAuth, DrainInv, Apart, FastApart
  <2>2. held'[c] = held[c]
    BY <1>0, <1>4, <2>1
  <2> QED
    BY <1>1, <1>4, <2>2
<1> QED
  BY <1>0, <1>2, <1>3, <1>4, HeldStep

\* The inductive invariant behind FastSessionsDrain.
LEMMA DrainInvariant == Spec => [](PublishInv /\ DrainInv)
<1>1. Init => DrainInv
  <2> SUFFICES ASSUME Init PROVE DrainInv
    OBVIOUS
  <2>1. /\ queue = <<>> /\ reqs = 0 /\ fast = {} /\ worker.pc = "idle" /\ poll.pc = "idle"
        /\ \A s \in Streams : http[s] = "none"
    BY DEF Init, IdleWorker, IdlePoll
  <2>2. Apart /\ PollFree
    BY <2>1 DEF Apart, JobsApart, WorkerApart, PollApart, FastApart, PollFree, WorkerBusy,
                WorkerAuth, AtInstall
  <2>3. Named /\ Marked /\ Drained /\ FastSessionsDrain
    BY <2>1 DEF Named, Marked, Drained, FastSessionsDrain
  <2> QED
    BY <2>2, <2>3 DEF DrainInv
<1>2. PublishInv /\ DrainInv /\ [Next]_vars => DrainInv'
  BY ApartStep, PollFreeStep, NamedStep, MarkedStep, DrainedStep, FastDrainStep
     DEF DrainInv, PublishInv
<1>3. PublishInv /\ [Next]_vars => PublishInv'
  BY TypeStep, KnownStep, JobsStep, OneActiveStep DEF PublishInv, Known
<1> QED
  BY <1>1, <1>2, <1>3, PublishInvInit, PTL DEF Spec

\* A session admitted on the poll thread never outlives its stream
\* (FastSessionsDrain): the marker is held while the session is installed, so a
\* delete is seen or finds the session to drain.  For any connections, streams,
\* requests (also several on one connection), faults and restarts.
THEOREM FastSessionsDrainCorrect == Spec => []FastSessionsDrain
<1>1. PublishInv /\ DrainInv => FastSessionsDrain
  BY DEF DrainInv
<1> QED
  BY <1>1, DrainInvariant, PTL

-----------------------------------------------------------------------------
(***************************************************************************)
(* Active rows (NoOrphanRow), for clients that publish once on a           *)
(* connection (~Republish): a connection that asks again while it holds a  *)
(* session may leave the row of the first one behind, see the README.      *)
(*                                                                         *)
(* The inductive invariant says where the row of a request can be: absent  *)
(* until the worker writes it, held by its connection from then on, and    *)
(* with the thread that takes it away from there.                          *)
(***************************************************************************)

\* The active rows of s are left to the delete that abandoned their sessions.
Excused(s) == http[s] = "finalize" \/ s \in gaveUp

\* The open requests are of different connections.
ConnsApart ==
    /\ \A k, l \in 1..Len(queue) : Asks(k) /\ Asks(l) /\ k # l => queue[k].conn # queue[l].conn
    /\ WorkerBusy => \A k \in 1..Len(queue) : Asks(k) => queue[k].conn # worker.conn
    /\ AtInstall => /\ \A k \in 1..Len(queue) : Asks(k) => queue[k].conn # poll.conn
                    /\ WorkerBusy => worker.conn # poll.conn
                    /\ wire[poll.conn].open

\* A connection with a request or a session has asked, so it never asks again.
HasAsked ==
    /\ \A k \in 1..Len(queue) : Asks(k) => wire[queue[k].conn].asked
    /\ WorkerBusy => wire[worker.conn].asked
    /\ AtInstall => wire[poll.conn].asked
    /\ \A c \in Conns : held[c] # NoSession => wire[c].asked

\* A connection that waits for its authorization holds nothing.
FreeHeld ==
    /\ \A k \in 1..Len(queue) : queue[k].kind = "auth" => held[queue[k].conn] = NoSession
    /\ WorkerAuth => held[worker.conn] = NoSession
    /\ AtInstall => held[poll.conn] = NoSession

\* The row of a request is written by the worker and by nobody before it.
RowsPending ==
    /\ \A k \in 1..Len(queue) : Asks(k) => row[queue[k].id] = "absent"
    /\ worker.pc \in {"acquire", "persist"} => row[worker.id] = "absent"
    /\ AtInstall => row[poll.id] = "absent"

\* A row still to be written is that of a session its connection holds, unless
\* the session was abandoned or released with its stream.
Kept(c, i) == held[c] = i \/ Excused(streamOf[i])

PersistHeld ==
    /\ \A k \in 1..Len(queue) : queue[k].kind = "persist" =>
         Kept(queue[k].conn, queue[k].id) \/ stream[streamOf[queue[k].id]] = "gone"
    /\ worker.pc = "persist" => Kept(worker.conn, worker.id) \/ stream[streamOf[worker.id]] = "gone"
    /\ worker.pc = "check" => Kept(worker.conn, worker.id) \/ row[worker.id] # "active"
    /\ worker.pc = "drop" => Excused(streamOf[worker.id]) \/ row[worker.id] # "active"

\* Nothing is queued for a connection after its close.
LastClose ==
    \A k \in 1..Len(queue) : queue[k].kind = "close" =>
        /\ ~wire[queue[k].conn].open
        /\ \A l \in 1..Len(queue) : l > k /\ Asks(l) => queue[l].conn # queue[k].conn

\* The poll thread clears a role only after its row.
Cleared ==
    poll.pc = "clear" => /\ row[poll.id] # "active"
                         /\ row[poll.id] = "absent" => stream[streamOf[poll.id]] = "gone"

\* No connection has a publisher when it is authorized.
NoPrior == worker.pc \notin {"prior", "restore"} /\ worker.old = NoSession

\* A delete task is at work on a stream that is still there.
HttpAlive == \A s \in Streams : http[s] # "none" => stream[s] # "gone"

OrphanInv ==
    /\ ConnsApart /\ HasAsked /\ FreeHeld /\ RowsPending /\ PersistHeld
    /\ LastClose /\ Cleared /\ NoPrior /\ HttpAlive /\ NoOrphanRow

\* Only the worker moves the worker.
LEMMA WorkerMoves ==
  ASSUME [Next]_vars, ~WorkerNext, ~Restart
  PROVE  worker' = worker
<1>1. CASE ClientNext
  BY <1>1 DEF ClientNext, PublishCommand, UnpublishCommand, PeerCloses
<1>2. CASE PollNext
  BY <1>2 DEF PollNext, VisitNext, FastInstall, PollTick, PollDeactivate, PollClear,
     ApplyCompletion, RetryDeactivation, VisitForceClose, VisitRelease, VisitPublishing,
     VisitDeleted
<1>3. ASSUME NEW s \in Streams, HttpNext(s) PROVE worker' = worker
  BY <1>3 DEF HttpNext, HttpMarks, HttpBegins, HttpCounts, HttpDrained, HttpDrainTimesOut,
              HttpFinalizes, HttpRollsBack
<1>4. CASE UNCHANGED vars
  BY <1>4 DEF vars
<1> QED
  BY <1>1, <1>2, <1>3, <1>4 DEF Next

\* The protocol layer: a connection that has asked has asked for good, one that
\* is closed stays closed.
LEMMA WireStep ==
  ASSUME TypeOK, Known, [Next]_vars, ~Restart, NEW c \in Conns
  PROVE  /\ wire[c].asked => wire'[c].asked
         /\ wire'[c].open => wire[c].open
         /\ AtInstall /\ AtInstall' => wire' = wire
<1>0. wire \in [Conns -> WireStates] /\ poll.pc \in PollStates
  BY DEF TypeOK, PollLocals
<1>1. ASSUME NEW d \in Conns, CloseConn(d)
      PROVE  (wire[c].asked => wire'[c].asked) /\ (wire'[c].open => wire[c].open)
  BY <1>0, <1>1 DEF CloseConn, WireStates
<1>2. ASSUME NEW d \in Conns, NEW i, submit_auth(d, i)
      PROVE  (wire[c].asked => wire'[c].asked) /\ (wire'[c].open => wire[c].open)
  BY <1>0, <1>2 DEF submit_auth, WireStates
<1>3. CASE wire' = wire
  BY <1>3
<1>4. ASSUME NEW d \in Conns, NEW s \in Streams, PublishCommand(d, s)
      PROVE  /\ wire[c].asked => wire'[c].asked
             /\ wire'[c].open => wire[c].open
             /\ poll.pc # "install"
  BY <1>0, <1>2, <1>4 DEF PublishCommand, WireStates
<1>5. ASSUME NEW d \in Conns,
             \/ UnpublishCommand(d) \/ PeerCloses(d) \/ VisitForceClose(d) \/ VisitRelease(d)
             \/ VisitPublishing(d) \/ VisitDeleted(d)
      PROVE  /\ wire[c].asked => wire'[c].asked
             /\ wire'[c].open => wire[c].open
             /\ poll.pc # "install"
  <2>1. CASE UnpublishCommand(d)
    BY <1>0, <2>1 DEF UnpublishCommand, WireStates
  <2>2. CASE ~UnpublishCommand(d)
    BY <1>1, <1>5, <2>2 DEF PeerCloses, VisitForceClose, VisitRelease, VisitPublishing,
       VisitDeleted
  <2> QED
    BY <2>1, <2>2
<1>6. CASE FastInstall
  <2>1. poll.conn \in Conns /\ poll'.pc # "install"
    BY <1>6 DEF FastInstall, Known, PollKnows, IdlePoll
  <2>2. CASE wire' = [wire EXCEPT ![poll.conn].publishing = TRUE]
    BY <1>0, <2>1, <2>2 DEF WireStates, AtInstall
  <2>3. CASE submit_auth(poll.conn, poll.id)
    BY <1>2, <2>1, <2>3 DEF AtInstall
  <2> QED
    BY <1>6, <2>2, <2>3 DEF FastInstall
<1>7. CASE PollClear
  BY <1>1, <1>7 DEF PollClear, Known, PollKnows, AtInstall
<1>8. CASE ApplyCompletion
  <2> DEFINE d == Head(done).conn
  <2>1. poll.pc # "install" /\ Head(done) \in Completions
    BY <1>8, QueueTypes DEF ApplyCompletion, TypeOK
  <2>2. d \in Conns
    BY <2>1 DEF Completions
  <2>3. \/ wire' = wire
        \/ \E on \in {FALSE, TRUE, wire[d].publishing} :
             wire' = [wire EXCEPT ![d].pending = NoSession, ![d].publishing = on]
    BY <1>8 DEF ApplyCompletion
  <2>4. ASSUME NEW on, wire' = [wire EXCEPT ![d].pending = NoSession, ![d].publishing = on]
        PROVE  (wire[c].asked => wire'[c].asked) /\ (wire'[c].open => wire[c].open)
    BY <1>0, <2>2, <2>4 DEF WireStates
  <2> QED
    BY <1>3, <2>1, <2>3, <2>4 DEF AtInstall
<1>9. CASE PollTick \/ PollDeactivate \/ (\E i \in Sessions : RetryDeactivation(i))
  BY <1>3, <1>9 DEF PollTick, PollDeactivate, RetryDeactivation, libVars
<1>10. CASE WorkerNext
  BY <1>3, <1>10 DEF WorkerNext, WorkerTakesAuth, WorkerTakesClose, WorkerTakesPersist,
     WorkerDeactivatesPrior, WorkerAcquires, WorkerRestoresPrior, WorkerInstalls,
     WorkerCompletes, WorkerWritesClose, WorkerPersists, WorkerChecksHeld, WorkerDropsRow, libVars
<1>11. ASSUME NEW s \in Streams, HttpNext(s) PROVE wire' = wire
  BY <1>11 DEF HttpNext, HttpMarks, HttpBegins, HttpCounts, HttpDrained, HttpDrainTimesOut,
               HttpFinalizes, HttpRollsBack, libVars
<1>12. CASE UNCHANGED vars
  BY <1>3, <1>12 DEF vars
<1> QED
  BY <1>3, <1>4, <1>5, <1>6, <1>7, <1>8, <1>9, <1>10, <1>11, <1>12
     DEF Next, ClientNext, PollNext, VisitNext, AtInstall

\* A row comes to be, or becomes active, only when the worker writes that of the
\* request it is at work on.
LEMMA RowStep ==
  ASSUME TypeOK, Known, NoPrior, [Next]_vars, NEW i \in Sessions,
         \/ row[i] = "absent" /\ row'[i] # "absent"
         \/ row[i] # "active" /\ row'[i] = "active"
  PROVE  /\ i = worker.id /\ row'[i] = "active" /\ publisher_try_acquire(i)
         /\ \/ WorkerAcquires /\ WorkerGoes("install") /\ worker.pc = "acquire"
            \/ WorkerPersists /\ WorkerGoes("check") /\ worker.pc = "persist" /\ held' = held
<1>0. row \in [Sessions -> Rows] /\ row' # row
  BY DEF TypeOK
<1>1. ASSUME NEW j, deactivate(j) PROVE FALSE
  BY <1>0, <1>1 DEF deactivate
<1>2. ASSUME NEW j, NEW call, deactivate_fails(j, call) PROVE FALSE
  BY <1>0, <1>2 DEF deactivate_fails
<1>3. CASE ClientNext
  BY <1>0, <1>3 DEF ClientNext, PublishCommand, UnpublishCommand, PeerCloses, dbVars
<1>4. CASE PollNext
  BY <1>0, <1>1, <1>2, <1>4 DEF PollNext, VisitNext, FastInstall, PollTick, PollDeactivate,
     PollClear, ApplyCompletion, RetryDeactivation, VisitForceClose, VisitRelease,
     VisitPublishing, VisitDeleted, dbVars
<1>5. ASSUME NEW j, publisher_try_acquire(j) PROVE i = j /\ row'[i] = "active"
  BY <1>0, <1>5 DEF publisher_try_acquire
<1>6. ASSUME NEW j, NEW call, publisher_try_acquire_fails(j, call) PROVE FALSE
  BY <1>0, <1>6 DEF publisher_try_acquire_fails
<1>7. CASE WorkerAcquires
  BY <1>5, <1>6, <1>7 DEF WorkerAcquires, WorkerAt
<1>8. CASE WorkerPersists
  BY <1>5, <1>6, <1>8 DEF WorkerPersists, WorkerAt
<1>9. CASE WorkerNext /\ ~WorkerAcquires /\ ~WorkerPersists
  BY <1>0, <1>1, <1>2, <1>9 DEF WorkerNext, WorkerTakesAuth, WorkerTakesClose, WorkerTakesPersist,
     WorkerDeactivatesPrior, WorkerRestoresPrior, WorkerInstalls, WorkerCompletes,
     WorkerWritesClose, WorkerChecksHeld, WorkerDropsRow, WorkerAt, NoPrior, dbVars
<1>10. ASSUME NEW s \in Streams, HttpNext(s) PROVE FALSE
  <2>1. CASE HttpFinalizes(s)
    BY <1>0, <2>1 DEF HttpFinalizes, stream_delete_if_pending
  <2>2. CASE ~HttpFinalizes(s)
    BY <1>0, <1>10, <2>2 DEF HttpNext, HttpMarks, HttpBegins, HttpCounts, HttpDrained,
                             HttpDrainTimesOut, HttpRollsBack, dbVars
  <2> QED
    BY <2>1, <2>2
<1>11. CASE Restart
  BY <1>0, <1>11 DEF Restart, RowsAfterOpen
<1>12. CASE UNCHANGED vars
  BY <1>0, <1>12 DEF vars
<1> QED
  BY <1>3, <1>4, <1>7, <1>8, <1>9, <1>10, <1>11, <1>12 DEF Next

\* A row goes only with its stream.
LEMMA RowGone ==
  ASSUME TypeOK, [Next]_vars, ~Restart, NEW i \in Sessions, row[i] # "absent", row'[i] = "absent",
         streamOf[i] \in Streams
  PROVE  stream'[streamOf[i]] = "gone"
<1>0. row \in [Sessions -> Rows] /\ row' # row /\ stream \in [Streams -> {"enabled", "deleting", "gone"}]
  BY DEF TypeOK
<1>1. ASSUME NEW j, NEW call,
             \/ deactivate(j) \/ deactivate_fails(j, call) \/ publisher_try_acquire(j)
             \/ publisher_try_acquire_fails(j, call) \/ restore_publisher_row(j) \/ restore_fails(j)
      PROVE  FALSE
  BY <1>0, <1>1 DEF deactivate, deactivate_fails, publisher_try_acquire,
     publisher_try_acquire_fails, restore_publisher_row, restore_fails
<1>3. CASE ClientNext
  BY <1>0, <1>3 DEF ClientNext, PublishCommand, UnpublishCommand, PeerCloses, dbVars
<1>4. CASE PollNext
  BY <1>0, <1>1, <1>4 DEF PollNext, VisitNext, FastInstall, PollTick, PollDeactivate,
     PollClear, ApplyCompletion, RetryDeactivation, VisitForceClose, VisitRelease,
     VisitPublishing, VisitDeleted, dbVars
<1>5. CASE WorkerNext
  BY <1>0, <1>1, <1>5 DEF WorkerNext, WorkerTakesAuth, WorkerTakesClose, WorkerTakesPersist,
     WorkerDeactivatesPrior, WorkerAcquires, WorkerRestoresPrior, WorkerInstalls, WorkerCompletes,
     WorkerWritesClose, WorkerPersists, WorkerChecksHeld, WorkerDropsRow, dbVars
<1>6. ASSUME NEW s \in Streams, HttpNext(s) PROVE stream'[streamOf[i]] = "gone"
  <2>1. CASE HttpFinalizes(s)
    BY <1>0, <2>1 DEF HttpFinalizes, stream_delete_if_pending
  <2>2. CASE ~HttpFinalizes(s)
    BY <1>0, <1>6, <2>2 DEF HttpNext, HttpMarks, HttpBegins, HttpCounts, HttpDrained,
                            HttpDrainTimesOut, HttpRollsBack, dbVars
  <2> QED
    BY <2>1, <2>2
<1>7. CASE UNCHANGED vars
  BY <1>0, <1>7 DEF vars
<1> QED
  BY <1>3, <1>4, <1>5, <1>6, <1>7 DEF Next


\* Only a delete task, or a restart, changes streams and delete tasks.
LEMMA HttpMoves ==
  ASSUME [Next]_vars, ~Restart, \A s \in Streams : ~HttpNext(s)
  PROVE  UNCHANGED httpVars /\ stream' = stream
<1>1. CASE ClientNext
  BY <1>1 DEF ClientNext, PublishCommand, UnpublishCommand, PeerCloses, dbVars
<1>2. CASE PollNext
  BY <1>2 DEF PollNext, VisitNext, FastInstall, PollTick, PollDeactivate, PollClear,
     ApplyCompletion, RetryDeactivation, VisitForceClose, VisitRelease, VisitPublishing,
     VisitDeleted, dbVars
<1>3. CASE WorkerNext
  BY <1>3 DEF WorkerNext, WorkerTakesAuth, WorkerTakesClose, WorkerTakesPersist,
     WorkerDeactivatesPrior, WorkerAcquires, WorkerRestoresPrior, WorkerInstalls,
     WorkerCompletes, WorkerWritesClose, WorkerPersists, WorkerChecksHeld, WorkerDropsRow, dbVars
<1>4. CASE UNCHANGED vars
  BY <1>4 DEF vars, httpVars
<1> QED
  BY <1>1, <1>2, <1>3, <1>4 DEF Next

\* What a delete task does to its own stream, and that it leaves the others alone.
LEMMA TaskStep ==
  ASSUME TypeOK, NEW s \in Streams, HttpNext(s)
  PROVE  /\ \A x \in Streams : x # s => http'[x] = http[x] /\ stream'[x] = stream[x]
         /\ gaveUp \subseteq gaveUp'
         /\ http[s] = "none" => stream[s] # "gone" /\ stream' = stream
         /\ stream'[s] = "gone" => stream' = stream \/ http'[s] = "none"
         /\ http[s] = "finalize" =>
              \/ http'[s] = "finalize" \/ s \in gaveUp'
              \/ stream'[s] = "gone" /\ \A i \in Sessions : streamOf[i] = s => row'[i] = "absent"
<1>0. http \in [Streams -> HttpStates] /\ stream \in [Streams -> {"enabled", "deleting", "gone"}]
  BY DEF TypeOK
<1>1. ASSUME NEW pc, HttpGoes(s, pc)
      PROVE  http'[s] = pc /\ \A x \in Streams : x # s => http'[x] = http[x]
  BY <1>0, <1>1 DEF HttpGoes
<1>2. CASE HttpMarks(s)
  BY <1>1, <1>2 DEF HttpMarks, dbVars
<1>3. CASE HttpBegins(s)
  BY <1>0, <1>1, <1>3 DEF HttpBegins
<1>4. CASE HttpCounts(s) \/ HttpDrained(s) \/ HttpDrainTimesOut(s)
  BY <1>1, <1>4 DEF HttpCounts, HttpDrained, HttpDrainTimesOut, dbVars
<1>5. CASE HttpFinalizes(s)
  <2>1. CASE stream_delete_if_pending(s) /\ HttpGoes(s, "none") /\ UNCHANGED gaveUp
    BY <1>0, <1>1, <1>5, <2>1 DEF HttpFinalizes, stream_delete_if_pending
  <2>2. CASE UNCHANGED stream /\ http[s] = "finalize_now" /\ HttpGoes(s, "rollback") /\ UNCHANGED gaveUp
    BY <1>1, <2>2
  <2>3. CASE UNCHANGED <<stream, http, gaveUp>> /\ http[s] = "finalize"
    BY <2>3
  <2>4. CASE UNCHANGED stream /\ http[s] = "finalize" /\ HttpGoes(s, "none") /\ gaveUp' = gaveUp \cup {s}
    BY <1>1, <2>4
  <2> QED
    BY <1>5, <2>1, <2>2, <2>3, <2>4 DEF HttpFinalizes
<1>6. CASE HttpRollsBack(s)
  BY <1>0, <1>1, <1>6 DEF HttpRollsBack
<1> QED
  BY <1>2, <1>3, <1>4, <1>5, <1>6 DEF HttpNext

\* A stream that is gone stays gone, and no task is at work on it.
LEMMA AliveStep ==
  ASSUME TypeOK, HttpAlive, [Next]_vars
  PROVE  HttpAlive' /\ \A s \in Streams : stream[s] = "gone" => stream'[s] = "gone"
<1>1. ASSUME NEW s \in Streams, HttpNext(s)
      PROVE  HttpAlive' /\ \A x \in Streams : stream[x] = "gone" => stream'[x] = "gone"
  <2>1. stream[s] # "gone"
    BY <1>1, TaskStep DEF HttpAlive
  <2>2. \A x \in Streams : http'[x] # "none" => stream'[x] # "gone"
    BY <1>1, <2>1, TaskStep DEF HttpAlive
  <2> QED
    BY <1>1, <2>1, <2>2, TaskStep DEF HttpAlive
<1>2. CASE Restart
  BY <1>2 DEF Restart, HttpAlive
<1>3. CASE ~Restart /\ \A s \in Streams : ~HttpNext(s)
  BY <1>3, HttpMoves DEF HttpAlive, httpVars
<1> QED
  BY <1>1, <1>2, <1>3

\* A delete that abandoned sessions has them until it removes their rows.
LEMMA ExcusedStep ==
  ASSUME TypeOK, [Next]_vars, ~Restart, NEW s \in Streams, Excused(s)
  PROVE  \/ Excused(s)'
         \/ stream'[s] = "gone" /\ \A i \in Sessions : streamOf[i] = s => row'[i] = "absent"
<1>1. ASSUME NEW x \in Streams, HttpNext(x)
      PROVE  \/ Excused(s)'
             \/ stream'[s] = "gone" /\ \A i \in Sessions : streamOf[i] = s => row'[i] = "absent"
  <2>1. CASE x = s
    BY <1>1, <2>1, TaskStep DEF Excused
  <2>2. CASE x # s
    BY <1>1, <2>2, TaskStep DEF Excused
  <2> QED
    BY <2>1, <2>2
<1>2. CASE \A x \in Streams : ~HttpNext(x)
  BY <1>2, HttpMoves DEF Excused, httpVars
<1> QED
  BY <1>1, <1>2

\* The steps by which a connection loses the session it holds.
LEMMA HeldLost ==
  ASSUME TypeOK, Known, FreeHeld, [Next]_vars, ~Restart,
         NEW c \in Conns, held[c] # NoSession, held'[c] # held[c]
  PROVE  \/ PollClear /\ poll.conn = c /\ poll.id = held[c]
         \/ WorkerTakesClose /\ Head(queue).conn = c
         \/ WorkerPersists /\ worker.conn = c /\ row' = row /\ worker' = IdleWorker
         \/ \E s \in Streams : HttpDrainTimesOut(s) /\ streamOf[held[c]] = s
<1>0. held \in [Conns -> SessionsOrNone] /\ held' # held
  BY DEF TypeOK
<1>1. CASE ClientNext
  BY <1>0, <1>1 DEF ClientNext, PublishCommand, UnpublishCommand, PeerCloses, bridgeVars
<1>2. CASE FastInstall
  BY <1>0, <1>2 DEF FastInstall, FreeHeld, AtInstall
<1>3. CASE PollClear
  BY <1>0, <1>3 DEF PollClear
<1>4. CASE PollNext /\ ~FastInstall /\ ~PollClear
  BY <1>0, <1>4 DEF PollNext, VisitNext, PollTick, PollDeactivate, ApplyCompletion,
     RetryDeactivation, VisitForceClose, VisitRelease, VisitPublishing, VisitDeleted, bridgeVars
<1>5. CASE WorkerTakesClose
  BY <1>0, <1>5 DEF WorkerTakesClose
<1>6. CASE WorkerPersists
  BY <1>0, <1>6 DEF WorkerPersists, publisher_try_acquire_fails
<1>7. CASE WorkerInstalls
  BY <1>0, <1>7 DEF WorkerInstalls, WorkerAt, FreeHeld, WorkerAuth
<1>8. CASE WorkerNext /\ ~WorkerTakesClose /\ ~WorkerPersists /\ ~WorkerInstalls
  BY <1>0, <1>8 DEF WorkerNext, WorkerTakesAuth, WorkerTakesPersist, WorkerDeactivatesPrior,
     WorkerAcquires, WorkerRestoresPrior, WorkerCompletes, WorkerWritesClose, WorkerChecksHeld,
     WorkerDropsRow, bridgeVars
<1>9. ASSUME NEW s \in Streams, HttpNext(s) PROVE HttpDrainTimesOut(s) /\ streamOf[held[c]] = s
  <2>1. CASE HttpDrainTimesOut(s)
    BY <1>0, <2>1 DEF HttpDrainTimesOut, LiveConns
  <2>2. CASE ~HttpDrainTimesOut(s)
    BY <1>0, <1>9, <2>2 DEF HttpNext, HttpMarks, HttpBegins, HttpCounts, HttpDrained,
                            HttpFinalizes, HttpRollsBack, bridgeVars
  <2> QED
    BY <2>1, <2>2
<1>10. CASE UNCHANGED vars
  BY <1>0, <1>10 DEF vars
<1> QED
  BY <1>1, <1>2, <1>3, <1>4, <1>5, <1>6, <1>7, <1>8, <1>9, <1>10 DEF Next


\* A job queued by the protocol layer or the poll thread: that of a new request or
\* of the one the poll thread was installing.
NewAsk(j) ==
    \/ \E c \in Conns, s \in Streams : PublishCommand(c, s) /\ j = Job("auth", c, reqs + 1)
    \/ FastInstall /\ j = Job("auth", poll.conn, poll.id) /\ held' = held
    \/ FastInstall /\ j = Job("persist", poll.conn, poll.id) /\ held'[poll.conn] = poll.id

\* A queued request was queued before, or is new.
LEMMA AskStep ==
  ASSUME TypeOK, Known, [Next]_vars, NEW k \in 1..Len(queue'), queue'[k].kind # "close"
  PROVE  (\E l \in 1..Len(queue) : queue'[k] = queue[l]) \/ NewAsk(queue'[k])
<1>0. poll.pc # "idle" => poll.conn \in Conns /\ poll.id \in SessionsOrNone
  BY DEF TypeOK, PollLocals, Known, PollKnows
<1>1. ASSUME NEW kind \in JobKinds, NEW c \in Conns, NEW i \in SessionsOrNone,
             queue' = Append(queue, Job(kind, c, i))
      PROVE  (\E l \in 1..Len(queue) : queue'[k] = queue[l]) \/ queue'[k] = Job(kind, c, i)
  BY <1>1, QueueGrows
<1>2. CASE Steady
  BY <1>2, SteadyQueue
<1>3. ASSUME NEW c \in Conns, NEW s \in Streams, PublishCommand(c, s)
      PROVE  (\E l \in 1..Len(queue) : queue'[k] = queue[l]) \/ NewAsk(queue'[k])
  <2>1. queue' = queue \/ queue' = Append(queue, Job("auth", c, reqs + 1))
    BY <1>3 DEF PublishCommand, submit_auth
  <2>2. reqs + 1 \in SessionsOrNone
    BY <1>3, SessionsAssumption DEF PublishCommand, TypeOK, SessionsOrNone, Sessions
  <2> QED
    BY <1>1, <1>3, <2>1, <2>2 DEF JobKinds, NewAsk
<1>4. CASE FastInstall
  <2>1. \/ queue' = queue
        \/ queue' = Append(queue, Job("auth", poll.conn, poll.id)) /\ held' = held
        \/ /\ queue' = Append(queue, Job("persist", poll.conn, poll.id))
           /\ held' = [held EXCEPT ![poll.conn] = poll.id]
    BY <1>4 DEF FastInstall, submit_auth
  <2>2. poll.conn \in Conns /\ poll.id \in SessionsOrNone
    BY <1>0, <1>4 DEF FastInstall
  <2>3. held' = [held EXCEPT ![poll.conn] = poll.id] => held'[poll.conn] = poll.id
    BY <2>2 DEF TypeOK
  <2> QED
    BY <1>1, <1>4, <2>1, <2>2, <2>3 DEF JobKinds, NewAsk
<1>5. CASE WorkerTakesAuth \/ WorkerTakesPersist \/ WorkerTakesClose
  <2>1. queue # <<>> /\ queue' = Tail(queue)
    BY <1>5 DEF WorkerTakesAuth, WorkerTakesPersist, WorkerTakesClose
  <2> QED
    BY <2>1, QueueShrinks
<1>6. CASE Restart
  BY <1>6 DEF Restart
<1> QED
  BY <1>2, <1>3, <1>4, <1>5, <1>6, SteadyStep

\* The worker takes the first job of the queue.
Taken ==
    /\ queue # <<>> /\ queue' = Tail(queue) /\ ~WorkerBusy
    /\ worker'.conn = Head(queue).conn /\ worker'.id = Head(queue).id
    /\ \/ WorkerTakesAuth /\ Head(queue).kind = "auth" /\ worker'.old = held[Head(queue).conn]
          /\ worker'.pc = IF held[Head(queue).conn] = NoSession THEN "acquire" ELSE "prior"
       \/ WorkerTakesPersist /\ Head(queue).kind = "persist" /\ worker'.pc = "persist"

\* The worker goes on with the request it has, or takes the next.
LEMMA TakenStep ==
  ASSUME TypeOK, Known, [Next]_vars, WorkerBusy'
  PROVE  \/ /\ WorkerBusy /\ worker'.conn = worker.conn /\ worker'.id = worker.id
            /\ worker'.old = worker.old /\ (WorkerAuth' => WorkerAuth)
         \/ Taken
<1>1. CASE worker' = worker
  BY <1>1 DEF WorkerBusy, WorkerAuth
<1>2. CASE Steady
  BY <1>1, <1>2 DEF Steady
<1>3. ASSUME NEW c \in Conns, NEW s \in Streams, PublishCommand(c, s) PROVE worker' = worker
  BY <1>3 DEF PublishCommand
<1>4. CASE FastInstall
  BY <1>1, <1>4 DEF FastInstall
<1>5. CASE WorkerTakesAuth
  <2> DEFINE j == Head(queue)
  <2>1. worker' # IdleWorker
    BY DEF WorkerBusy, IdleWorker
  <2>2. worker' = [pc |-> IF held[j.conn] = NoSession THEN "acquire" ELSE "prior",
                   conn |-> j.conn, id |-> j.id, old |-> held[j.conn]]
    BY <1>5, <2>1 DEF WorkerTakesAuth, Denies
  <2>3. queue # <<>> /\ queue' = Tail(queue) /\ ~WorkerBusy /\ j.kind = "auth"
    BY <1>5 DEF WorkerTakesAuth, WorkerAt, WorkerBusy
  <2> QED
    BY <1>5, <2>2, <2>3 DEF Taken
<1>6. CASE WorkerTakesPersist
  BY <1>6 DEF WorkerTakesPersist, Taken, WorkerAt, WorkerBusy
<1>7. CASE WorkerTakesClose
  <2>1. IdleWorker.pc = "idle" /\ \A d, i : [IdleWorker EXCEPT !.pc = "close", !.conn = d, !.id = i].pc = "close"
    BY DEF IdleWorker
  <2> QED
    BY <1>7, <2>1 DEF WorkerTakesClose, WorkerBusy
<1>8. CASE Restart
  BY <1>8 DEF Restart, WorkerBusy, IdleWorker
<1> QED
  BY <1>1, <1>2, <1>3, <1>4, <1>5, <1>6, <1>7, <1>8, SteadyStep

\* The poll thread installs the session of a new request.
LEMMA InstallNew ==
  ASSUME TypeOK, [Next]_vars, AtInstall', poll' # poll
  PROVE  \E c \in Conns, s \in Streams :
           /\ PublishCommand(c, s) /\ poll'.conn = c /\ poll'.id = reqs + 1
           /\ wire' = [wire EXCEPT ![c].asked = TRUE]
<1>0. IdlePoll.pc # "install" /\ [poll EXCEPT !.pc = "clear"].pc # "install"
  BY DEF IdlePoll, TypeOK, PollLocals
<1>1. ASSUME NEW c \in Conns, NEW s \in Streams, PublishCommand(c, s)
      PROVE  poll'.conn = c /\ poll'.id = reqs + 1 /\ wire' = [wire EXCEPT ![c].asked = TRUE]
  BY <1>1 DEF PublishCommand
<1>2. ASSUME NEW c \in Conns, UnpublishCommand(c) \/ PeerCloses(c) \/ VisitNext(c) PROVE FALSE
  BY <1>2 DEF UnpublishCommand, PeerCloses, VisitNext, VisitForceClose, VisitRelease,
     VisitPublishing, VisitDeleted, AtInstall
<1>3. CASE FastInstall \/ PollTick \/ PollDeactivate \/ PollClear
  BY <1>0, <1>3 DEF FastInstall, PollTick, PollDeactivate, PollClear, AtInstall
<1>8. CASE ApplyCompletion
  BY <1>0, <1>8 DEF ApplyCompletion, AtInstall
<1>4. ASSUME NEW i \in Sessions, RetryDeactivation(i) PROVE FALSE
  BY <1>4 DEF RetryDeactivation
<1>5. CASE WorkerNext
  BY <1>5 DEF WorkerNext, WorkerTakesAuth, WorkerTakesClose, WorkerTakesPersist,
     WorkerDeactivatesPrior, WorkerAcquires, WorkerRestoresPrior, WorkerInstalls,
     WorkerCompletes, WorkerWritesClose, WorkerPersists, WorkerChecksHeld, WorkerDropsRow
<1>6. ASSUME NEW s \in Streams, HttpNext(s) PROVE FALSE
  BY <1>6 DEF HttpNext, HttpMarks, HttpBegins, HttpCounts, HttpDrained, HttpDrainTimesOut,
              HttpFinalizes, HttpRollsBack
<1>7. CASE Restart \/ UNCHANGED vars
  BY <1>0, <1>7 DEF Restart, vars, AtInstall
<1> QED
  BY <1>1, <1>2, <1>3, <1>4, <1>5, <1>6, <1>7, <1>8 DEF Next, ClientNext, PollNext


\* The connection of a job.
LEMMA JobConns ==
  ASSUME TypeOK
  PROVE  /\ \A k \in 1..Len(queue) :
              queue[k].conn \in Conns /\ queue[k].kind \in JobKinds /\ queue[k].id \in SessionsOrNone
         /\ \A kind, c, i : Job(kind, c, i).kind = kind /\ Job(kind, c, i).conn = c /\ Job(kind, c, i).id = i
<1>1. queue \in Seq(Jobs)
  BY DEF TypeOK
<1>2. \A k \in 1..Len(queue) : queue[k] \in Jobs
  BY <1>1, ElementOfSeq
<1> QED
  BY <1>2 DEF Jobs, Job

\* A connection that asks is open and, without Republish, asks for the first time.
LEMMA FirstAsk ==
  ASSUME TypeOK, ~Republish, NEW c \in Conns, NEW s \in Streams, PublishCommand(c, s)
  PROVE  /\ wire[c].open /\ ~wire[c].asked /\ wire'[c].asked /\ wire'[c].open
         /\ poll.pc = "idle" /\ held' = held /\ row' = row /\ worker' = worker
         /\ reqs + 1 \in Sessions /\ reqs + 1 \notin 1..reqs
<1>1. wire'[c].asked /\ (wire[c].open => wire'[c].open)
  <2>1. wire \in [Conns -> WireStates]
    BY DEF TypeOK
  <2>2. CASE wire' = [wire EXCEPT ![c].asked = TRUE]
    BY <2>1, <2>2 DEF WireStates
  <2>3. CASE submit_auth(c, reqs + 1)
    BY <2>1, <2>3 DEF submit_auth, WireStates
  <2> QED
    BY <2>2, <2>3 DEF PublishCommand
<1>2. reqs + 1 \in Sessions /\ reqs + 1 \notin 1..reqs
  BY SessionsAssumption DEF PublishCommand, TypeOK, Sessions
<1> QED
  BY <1>1, <1>2 DEF PublishCommand, bridgeVars, dbVars

\* Requests and sessions are of connections that have asked.
LEMMA HasAskedStep ==
  ASSUME PublishInv, OrphanInv, [Next]_vars, ~Republish
  PROVE  HasAsked'
<1>0. TypeOK /\ Known /\ PollKnows /\ WorkerKnows /\ HasAsked /\ held \in [Conns -> SessionsOrNone]
  BY DEF PublishInv, Known, OrphanInv, TypeOK
<1>1. CASE Restart
  <2>1. /\ queue' = <<>> /\ worker'.pc = "idle" /\ poll'.pc = "idle"
        /\ \A c \in Conns : held'[c] = NoSession
    BY <1>1 DEF Restart, IdleWorker, IdlePoll
  <2> QED
    BY <2>1 DEF HasAsked, Asks, WorkerBusy, AtInstall
<1>2. CASE ~Restart
  <2>1. \A c \in Conns : wire[c].asked => wire'[c].asked
    BY <1>0, <1>2, WireStep
  <2>2. ASSUME NEW k \in 1..Len(queue'), queue'[k].kind # "close" PROVE wire'[queue'[k].conn].asked
    <3>1. ASSUME NEW l \in 1..Len(queue), queue'[k] = queue[l] PROVE wire'[queue'[k].conn].asked
      BY <1>0, <2>1, <2>2, <3>1, JobConns DEF HasAsked, Asks
    <3>2. ASSUME NEW c \in Conns, NEW s \in Streams, PublishCommand(c, s),
                 queue'[k] = Job("auth", c, reqs + 1)
          PROVE  wire'[queue'[k].conn].asked
      BY <1>0, <3>2, FirstAsk, JobConns
    <3>3. ASSUME FastInstall, queue'[k].conn = poll.conn PROVE wire'[queue'[k].conn].asked
      BY <1>0, <2>1, <3>3 DEF FastInstall, PollKnows, HasAsked, AtInstall
    <3> QED
      BY <1>0, <2>2, <3>1, <3>2, <3>3, AskStep, JobConns DEF NewAsk
  <2>3. ASSUME WorkerBusy' PROVE wire'[worker'.conn].asked
    <3>1. CASE WorkerBusy /\ worker'.conn = worker.conn
      BY <1>0, <2>1, <3>1 DEF HasAsked, WorkerKnows, WorkerBusy
    <3>2. CASE Taken
      BY <1>0, <2>1, <3>2, QueueShrinks, JobConns DEF Taken, HasAsked, Asks
    <3> QED
      BY <1>0, <2>3, <3>1, <3>2, TakenStep
  <2>4. ASSUME AtInstall' PROVE wire'[poll'.conn].asked
    <3>1. CASE poll' = poll
      BY <1>0, <2>1, <2>4, <3>1 DEF HasAsked, PollKnows, AtInstall
    <3>2. CASE poll' # poll
      BY <1>0, <2>4, <3>2, InstallNew, FirstAsk
    <3> QED
      BY <3>1, <3>2
  <2>5. ASSUME NEW c \in Conns, held'[c] # NoSession PROVE wire'[c].asked
    <3>1. CASE held'[c] = held[c]
      BY <1>0, <2>1, <2>5, <3>1 DEF HasAsked
    <3>2. CASE FastInstall /\ FastAdmits(poll.conn, poll.id)
      <4>1. held' = [held EXCEPT ![poll.conn] = poll.id] /\ wire[poll.conn].asked
        BY <1>0, <3>2 DEF FastInstall, HasAsked, AtInstall
      <4> QED
        BY <1>0, <2>1, <3>1, <4>1
    <3>3. CASE WorkerInstalls
      <4>1. held' = [held EXCEPT ![worker.conn] = worker.id] /\ wire[worker.conn].asked
        BY <1>0, <3>3 DEF WorkerInstalls, WorkerAt, HasAsked, WorkerBusy
      <4> QED
        BY <1>0, <2>1, <3>1, <4>1
    <3> QED
      BY <1>0, <2>5, <3>1, <3>2, <3>3, HeldStep DEF HeldKept
  <2> QED
    BY <2>2, <2>3, <2>4, <2>5 DEF HasAsked, Asks
<1> QED
  BY <1>1, <1>2

\* A connection that waits for its authorization holds nothing: it asks once, and
\* only its own request is installed for it.
LEMMA FreeHeldStep ==
  ASSUME PublishInv, OrphanInv, [Next]_vars, ~Republish
  PROVE  FreeHeld'
<1>0. /\ TypeOK /\ Known /\ PollKnows /\ WorkerKnows /\ HasAsked /\ ConnsApart /\ FreeHeld
      /\ held \in [Conns -> SessionsOrNone]
  BY DEF PublishInv, Known, OrphanInv, TypeOK
<1>1. CASE Restart
  <2>1. queue' = <<>> /\ worker'.pc = "idle" /\ poll'.pc = "idle"
    BY <1>1 DEF Restart, IdleWorker, IdlePoll
  <2> QED
    BY <2>1 DEF FreeHeld, WorkerAuth, AtInstall
<1>2. CASE ~Restart
  <2>1. ASSUME NEW c \in Conns, held[c] = NoSession,
               ~(FastInstall /\ poll.conn = c /\ held' # held), ~(WorkerInstalls /\ worker.conn = c)
        PROVE  held'[c] = NoSession
    <3>1. CASE HeldKept
      BY <2>1, <3>1 DEF HeldKept
    <3>2. CASE FastInstall /\ FastAdmits(poll.conn, poll.id)
      BY <1>0, <2>1, <3>2 DEF FastInstall
    <3>3. CASE WorkerInstalls
      BY <1>0, <2>1, <3>3 DEF WorkerInstalls
    <3> QED
      BY <1>0, <3>1, <3>2, <3>3, HeldStep
  <2>2. ASSUME NEW k \in 1..Len(queue'), queue'[k].kind = "auth" PROVE held'[queue'[k].conn] = NoSession
    <3>1. ASSUME NEW l \in 1..Len(queue), queue'[k] = queue[l] PROVE held'[queue'[k].conn] = NoSession
      <4>1. queue[l].conn \in Conns /\ held[queue[l].conn] = NoSession /\ Asks(l)
        BY <1>0, <2>2, <3>1, JobConns DEF FreeHeld, Asks
      <4>2. ~(FastInstall /\ poll.conn = queue[l].conn)
        BY <1>0, <4>1 DEF FastInstall, ConnsApart, AtInstall
      <4>3. ~(WorkerInstalls /\ worker.conn = queue[l].conn)
        BY <1>0, <4>1 DEF WorkerInstalls, WorkerAt, ConnsApart, WorkerBusy
      <4> QED
        BY <2>1, <3>1, <4>1, <4>2, <4>3
    <3>2. ASSUME NEW c \in Conns, NEW s \in Streams, PublishCommand(c, s),
                 queue'[k] = Job("auth", c, reqs + 1)
          PROVE  held'[queue'[k].conn] = NoSession
      BY <1>0, <3>2, FirstAsk, JobConns DEF HasAsked
    <3>3. ASSUME FastInstall, queue'[k] = Job("auth", poll.conn, poll.id), held' = held
          PROVE  held'[queue'[k].conn] = NoSession
      BY <1>0, <3>3, JobConns DEF FastInstall, FreeHeld, AtInstall
    <3> QED
      BY <1>0, <2>2, <3>1, <3>2, <3>3, AskStep, JobConns DEF NewAsk
  <2>3. ASSUME WorkerAuth' PROVE held'[worker'.conn] = NoSession
    <3>0. WorkerBusy'
      BY <2>3 DEF WorkerAuth, WorkerBusy
    <3>1. CASE WorkerBusy /\ worker'.conn = worker.conn /\ WorkerAuth
      <4>1. worker.conn \in Conns /\ held[worker.conn] = NoSession
        BY <1>0, <3>1 DEF FreeHeld, WorkerKnows, WorkerAuth
      <4>2. ~(FastInstall /\ poll.conn = worker.conn)
        BY <1>0, <3>1 DEF FastInstall, ConnsApart, AtInstall
      <4>3. ~WorkerInstalls
        <5>1. WorkerInstalls => worker'.pc = "complete"
          BY <1>0 DEF WorkerInstalls, WorkerGoes, TypeOK, WorkerLocals
        <5> QED
          BY <2>3, <5>1 DEF WorkerAuth
      <4> QED
        BY <2>1, <3>1, <4>1, <4>2, <4>3
    <3>2. CASE Taken
      <4>1. /\ Head(queue) = queue[1] /\ 1 \in 1..Len(queue) /\ held' = held
            /\ Head(queue).kind = "auth" /\ worker'.conn = Head(queue).conn
        BY <1>0, <2>3, <3>2, QueueShrinks
           DEF Taken, WorkerTakesAuth, WorkerTakesPersist, bridgeVars, WorkerAuth
      <4> QED
        BY <1>0, <4>1 DEF FreeHeld
    <3> QED
      BY <1>0, <2>3, <3>0, <3>1, <3>2, TakenStep
  <2>4. ASSUME AtInstall' PROVE held'[poll'.conn] = NoSession
    <3>1. CASE poll' = poll
      <4>1. AtInstall /\ poll.conn \in Conns /\ held[poll.conn] = NoSession /\ ~FastInstall
        BY <1>0, <2>4, <3>1 DEF FreeHeld, PollKnows, AtInstall, FastInstall, IdlePoll
      <4>2. ~(WorkerInstalls /\ worker.conn = poll.conn)
        BY <1>0, <4>1 DEF WorkerInstalls, WorkerAt, ConnsApart, WorkerBusy
      <4> QED
        BY <2>1, <3>1, <4>1, <4>2
    <3>2. CASE poll' # poll
      BY <1>0, <2>4, <3>2, InstallNew, FirstAsk DEF HasAsked
    <3> QED
      BY <3>1, <3>2
  <2> QED
    BY <2>2, <2>3, <2>4 DEF FreeHeld
<1> QED
  BY <1>1, <1>2


\* The open requests stay those of different connections.
LEMMA ConnsApartStep ==
  ASSUME PublishInv, OrphanInv, [Next]_vars, ~Republish
  PROVE  ConnsApart'
<1>0. TypeOK /\ Known /\ PollKnows /\ WorkerKnows /\ HasAsked /\ ConnsApart
  BY DEF PublishInv, Known, OrphanInv
<1>1. CASE Restart
  <2>1. queue' = <<>> /\ worker'.pc = "idle" /\ poll'.pc = "idle"
    BY <1>1 DEF Restart, IdleWorker, IdlePoll
  <2> QED
    BY <2>1 DEF ConnsApart, WorkerBusy, AtInstall
<1>o. ASSUME ~Restart, AtInstall, poll' = poll PROVE wire'[poll.conn].open
  BY <1>0, <1>o, WireStep DEF ConnsApart, AtInstall, PollKnows
<1>2. CASE ~Restart /\ Steady
  <2>1. \A k \in 1..Len(queue') :
          queue'[k].kind # "close" => k \in 1..Len(queue) /\ queue'[k] = queue[k]
    BY <1>0, <1>2, SteadyQueue
  <2>2. /\ WorkerBusy' => WorkerBusy /\ worker'.conn = worker.conn
        /\ AtInstall' => AtInstall /\ poll' = poll
    BY <1>2 DEF Steady, WorkerBusy, AtInstall
  <2> QED
    BY <1>0, <1>2, <1>o, <2>1, <2>2 DEF ConnsApart, Asks
<1>3. ASSUME ~Restart, NEW c \in Conns, NEW s \in Streams, PublishCommand(c, s) PROVE ConnsApart'
  <2>1. /\ \A k \in 1..Len(queue) : Asks(k) => queue[k].conn # c
        /\ WorkerBusy => worker.conn # c
        /\ worker' = worker /\ ~AtInstall /\ wire'[c].open
    BY <1>0, <1>3, FirstAsk DEF HasAsked, AtInstall
  <2>2. \/ queue' = queue /\ (poll' = poll \/ poll'.conn = c)
        \/ queue' = Append(queue, Job("auth", c, reqs + 1)) /\ poll' = poll
    BY <1>3 DEF PublishCommand, submit_auth
  <2>3. CASE queue' = queue /\ (poll' = poll \/ poll'.conn = c)
    BY <1>0, <2>1, <2>3 DEF ConnsApart, Asks, WorkerBusy, AtInstall
  <2>4. CASE queue' = Append(queue, Job("auth", c, reqs + 1)) /\ poll' = poll
    <3>1. \A k \in 1..Len(queue') :
            \/ k \in 1..Len(queue) /\ queue'[k] = queue[k]
            \/ k = Len(queue) + 1 /\ queue'[k].conn = c
      BY <1>0, <1>3, <2>4, QueueGrows, FirstAsk, SessionTypes DEF JobKinds
    <3> QED
      BY <1>0, <2>1, <2>4, <3>1 DEF ConnsApart, Asks, WorkerBusy, AtInstall
  <2> QED
    BY <2>2, <2>3, <2>4
<1>4. ASSUME FastInstall PROVE ConnsApart'
  <2>1. /\ \A k \in 1..Len(queue) : Asks(k) => queue[k].conn # poll.conn
        /\ WorkerBusy => worker.conn # poll.conn
        /\ worker' = worker /\ ~AtInstall' /\ poll.conn \in Conns /\ poll.id \in SessionsOrNone
    BY <1>0, <1>4 DEF ConnsApart, AtInstall, FastInstall, IdlePoll, PollKnows, TypeOK, PollLocals
  <2>2. \/ queue' = queue
        \/ \E kind \in {"auth", "persist"} : queue' = Append(queue, Job(kind, poll.conn, poll.id))
    BY <1>4 DEF FastInstall, submit_auth
  <2>3. \A k \in 1..Len(queue') :
          \/ k \in 1..Len(queue) /\ queue'[k] = queue[k]
          \/ k = Len(queue) + 1 /\ queue'[k].conn = poll.conn
    <3>1. ASSUME NEW kind \in {"auth", "persist"}, queue' = Append(queue, Job(kind, poll.conn, poll.id))
          PROVE  \A k \in 1..Len(queue') :
                   \/ k \in 1..Len(queue) /\ queue'[k] = queue[k]
                   \/ k = Len(queue) + 1 /\ queue'[k].conn = poll.conn
      BY <1>0, <2>1, <3>1, QueueGrows DEF JobKinds
    <3> QED
      BY <2>2, <3>1
  <2> QED
    BY <1>0, <2>1, <2>3 DEF ConnsApart, Asks, WorkerBusy
<1>5. ASSUME WorkerTakesAuth \/ WorkerTakesPersist \/ WorkerTakesClose PROVE ConnsApart'
  <2>1. queue # <<>> /\ queue' = Tail(queue) /\ UNCHANGED <<poll, wire>> /\ ~WorkerBusy
    BY <1>5 DEF WorkerTakesAuth, WorkerTakesPersist, WorkerTakesClose, WorkerAt, WorkerBusy,
       libVars
  <2>2. /\ Head(queue) = queue[1] /\ 1 \in 1..Len(queue)
        /\ \A k \in 1..Len(queue') :
             k + 1 \in 1..Len(queue) /\ k + 1 # 1 /\ queue'[k] = queue[k + 1]
    BY <1>0, <2>1, QueueShrinks
  <2>3. WorkerBusy' => worker'.conn = queue[1].conn /\ Asks(1)
    BY <1>0, <2>1, <2>2, TakenStep DEF Taken, Asks
  <2>4. \A k, l \in 1..Len(queue') :
          queue'[k].kind # "close" /\ queue'[l].kind # "close" /\ k # l => queue'[k].conn # queue'[l].conn
    BY <1>0, <2>2 DEF ConnsApart, Asks
  <2>5. WorkerBusy' => \A k \in 1..Len(queue') : queue'[k].kind # "close" => queue'[k].conn # worker'.conn
    BY <1>0, <2>2, <2>3 DEF ConnsApart, Asks
  <2>6. AtInstall' => /\ \A k \in 1..Len(queue') : queue'[k].kind # "close" => queue'[k].conn # poll'.conn
                      /\ WorkerBusy' => worker'.conn # poll'.conn
                      /\ wire'[poll'.conn].open
    BY <1>0, <2>1, <2>2, <2>3 DEF ConnsApart, Asks, AtInstall
  <2> QED
    BY <2>4, <2>5, <2>6 DEF ConnsApart, Asks
<1> QED
  BY <1>0, <1>1, <1>2, <1>3, <1>4, <1>5, SteadyStep

\* Nothing is queued for a connection after its close: it is closed for good.
LEMMA LastCloseStep ==
  ASSUME PublishInv, OrphanInv, [Next]_vars, ~Republish
  PROVE  LastClose'
<1>0. TypeOK /\ Known /\ PollKnows /\ ConnsApart /\ LastClose
  BY DEF PublishInv, Known, OrphanInv
<1>1. CASE Restart
  BY <1>1 DEF Restart, LastClose
<1>2. ASSUME ~Restart PROVE \A c \in Conns : wire'[c].open => wire[c].open
  BY <1>0, <1>2, WireStep
<1>3. CASE queue' = queue /\ ~Restart
  BY <1>0, <1>2, <1>3, JobConns DEF LastClose, Asks
<1>4. ASSUME ~Restart, NEW kind \in JobKinds, NEW c \in Conns, NEW i \in SessionsOrNone,
             queue' = Append(queue, Job(kind, c, i)),
             IF kind = "close" THEN ~wire'[c].open ELSE wire[c].open
      PROVE  LastClose'
  <2>1. /\ Len(queue) \in Nat
        /\ \A k \in 1..Len(queue') :
             \/ k \in 1..Len(queue) /\ queue'[k] = queue[k] /\ queue[k].conn \in Conns
             \/ k = Len(queue) + 1 /\ queue'[k].kind = kind /\ queue'[k].conn = c
    BY <1>0, <1>4, QueueGrows, JobConns
  <2>2. ASSUME NEW k \in 1..Len(queue'), queue'[k].kind = "close" PROVE ~wire'[queue'[k].conn].open
    BY <1>0, <1>2, <1>4, <2>1, <2>2 DEF LastClose
  <2>3. ASSUME NEW k \in 1..Len(queue'), queue'[k].kind = "close",
               NEW l \in 1..Len(queue'), l > k, queue'[l].kind # "close"
        PROVE  queue'[l].conn # queue'[k].conn
    <3>1. k \in 1..Len(queue) /\ queue'[k] = queue[k] /\ ~wire[queue[k].conn].open
      BY <1>0, <2>1, <2>3 DEF LastClose
    <3>2. CASE l \in 1..Len(queue) /\ queue'[l] = queue[l]
      BY <1>0, <2>3, <3>1, <3>2 DEF LastClose, Asks
    <3>3. CASE queue'[l].kind = kind /\ queue'[l].conn = c
      BY <1>4, <2>3, <3>1, <3>3
    <3> QED
      BY <2>1, <3>2, <3>3
  <2> QED
    BY <2>2, <2>3 DEF LastClose, Asks
<1>5. ASSUME ~Restart, NEW c \in Conns, CloseConn(c) PROVE LastClose'
  <2>1. ~wire'[c].open
    BY <1>0, <1>5 DEF CloseConn, TypeOK, WireStates
  <2> QED
    BY <1>4, <1>5, <2>1, SessionTypes DEF CloseConn, JobKinds
<1>6. ASSUME ~Restart, NEW c \in Conns, NEW s \in Streams, PublishCommand(c, s) PROVE LastClose'
  <2>1. queue' = queue \/ queue' = Append(queue, Job("auth", c, reqs + 1))
    BY <1>6 DEF PublishCommand, submit_auth
  <2>2. wire[c].open /\ reqs + 1 \in SessionsOrNone
    BY <1>0, <1>6, FirstAsk, SessionTypes
  <2> QED
    BY <1>3, <1>4, <1>6, <2>1, <2>2 DEF JobKinds
<1>7. CASE ~Restart /\ FastInstall
  <2>1. \/ queue' = queue
        \/ queue' = Append(queue, Job("auth", poll.conn, poll.id))
        \/ queue' = Append(queue, Job("persist", poll.conn, poll.id))
    BY <1>7 DEF FastInstall, submit_auth
  <2>2. wire[poll.conn].open /\ poll.conn \in Conns /\ poll.id \in SessionsOrNone
    BY <1>0, <1>7 DEF FastInstall, ConnsApart, AtInstall, PollKnows, TypeOK, PollLocals
  <2> QED
    BY <1>3, <1>4, <1>7, <2>1, <2>2 DEF JobKinds
<1>8. CASE ~Restart /\ (WorkerTakesAuth \/ WorkerTakesPersist \/ WorkerTakesClose)
  <2>1. queue # <<>> /\ queue' = Tail(queue) /\ wire' = wire
    BY <1>8 DEF WorkerTakesAuth, WorkerTakesPersist, WorkerTakesClose, libVars
  <2>2. \A k \in 1..Len(queue') : k + 1 \in 1..Len(queue) /\ queue'[k] = queue[k + 1]
    BY <1>0, <2>1, QueueShrinks
  <2>3. \A k, l \in 1..Len(queue') : l > k => l + 1 > k + 1
    OBVIOUS
  <2> QED
    BY <1>0, <2>1, <2>2, <2>3 DEF LastClose, Asks
<1> QED
  BY <1>0, <1>1, <1>3, <1>5, <1>6, <1>7, <1>8, SteadyStep DEF Steady

\* The worker never finds a publisher to replace.
LEMMA NoPriorStep ==
  ASSUME PublishInv, OrphanInv, [Next]_vars
  PROVE  NoPrior'
<1>0. TypeOK /\ Known /\ FreeHeld /\ NoPrior /\ worker \in WorkerLocals
  BY DEF PublishInv, OrphanInv, TypeOK
<1>1. CASE worker' = worker
  BY <1>0, <1>1 DEF NoPrior
<1>2. CASE worker' = IdleWorker
  BY <1>2 DEF NoPrior, IdleWorker
<1>3. ASSUME NEW pc \in {"install", "complete", "check", "drop", "acquire"}, WorkerGoes(pc) PROVE NoPrior'
  BY <1>0, <1>3 DEF WorkerGoes, NoPrior, WorkerLocals
<1>4. CASE WorkerTakesAuth
  <2>1. held[Head(queue).conn] = NoSession
    BY <1>0, <1>4, QueueShrinks DEF WorkerTakesAuth, FreeHeld
  <2>2. \/ worker' = IdleWorker
        \/ worker' = [pc |-> "acquire", conn |-> Head(queue).conn, id |-> Head(queue).id,
                      old |-> NoSession]
    BY <1>4, <2>1 DEF WorkerTakesAuth, Denies
  <2> QED
    BY <1>2, <2>2 DEF NoPrior
<1>5. CASE WorkerTakesPersist
  BY <1>5 DEF WorkerTakesPersist, NoPrior
<1>6. CASE WorkerTakesClose
  BY <1>2, <1>6 DEF WorkerTakesClose, NoPrior, IdleWorker
<1>7. CASE WorkerAcquires
  BY <1>0, <1>2, <1>3, <1>7 DEF WorkerAcquires, Denies, NoPrior
<1>8. CASE WorkerDeactivatesPrior \/ WorkerRestoresPrior
  BY <1>0, <1>8 DEF WorkerDeactivatesPrior, WorkerRestoresPrior, WorkerAt, NoPrior
<1>9. CASE \/ WorkerInstalls \/ WorkerCompletes \/ WorkerWritesClose \/ WorkerPersists
           \/ WorkerChecksHeld \/ WorkerDropsRow
  BY <1>2, <1>3, <1>9 DEF WorkerInstalls, WorkerCompletes, WorkerWritesClose, WorkerPersists,
     WorkerChecksHeld, WorkerDropsRow
<1>10. CASE Restart
  BY <1>2, <1>10 DEF Restart
<1> QED
  BY <1>1, <1>4, <1>5, <1>6, <1>7, <1>8, <1>9, <1>10, WorkerMoves DEF WorkerNext


\* How the worker comes to the points where it has a row in hand.
LEMMA WorkerComes ==
  ASSUME TypeOK, Known, NoPrior, [Next]_vars, ~Restart, worker' # worker
  PROVE  /\ worker'.pc \in {"acquire", "persist"} => Taken
         /\ worker'.pc = "check" =>
              WorkerPersists /\ publisher_try_acquire(worker.id) /\ WorkerGoes("check") /\ held' = held
         /\ worker'.pc = "drop" =>
              WorkerChecksHeld /\ held[worker.conn] # worker.id /\ WorkerGoes("drop")
<1>0. WorkerNext
  BY WorkerMoves
<1>1. ASSUME NEW pc, WorkerGoes(pc) PROVE worker'.pc = pc
  BY <1>1 DEF WorkerGoes, TypeOK, WorkerLocals
<1>2. worker' = IdleWorker => worker'.pc = "idle"
  BY DEF IdleWorker
<1>3. CASE WorkerTakesAuth \/ WorkerTakesPersist \/ WorkerTakesClose
  <2>1. ~WorkerBusy
    BY <1>3 DEF WorkerTakesAuth, WorkerTakesPersist, WorkerTakesClose, WorkerAt, WorkerBusy
  <2>2. WorkerBusy' => Taken
    BY <2>1, TakenStep
  <2>3. Taken => worker'.pc \in {"acquire", "prior", "persist"}
    BY DEF Taken
  <2> QED
    BY <2>2, <2>3 DEF WorkerBusy
<1>4. CASE WorkerAcquires \/ WorkerDeactivatesPrior \/ WorkerRestoresPrior
  BY <1>1, <1>2, <1>4 DEF WorkerAcquires, WorkerDeactivatesPrior, WorkerRestoresPrior, WorkerAt,
     NoPrior, Denies
<1>5. CASE WorkerInstalls \/ WorkerCompletes \/ WorkerWritesClose \/ WorkerDropsRow
  BY <1>1, <1>2, <1>5 DEF WorkerInstalls, WorkerCompletes, WorkerWritesClose, WorkerDropsRow
<1>6. CASE WorkerPersists
  BY <1>1, <1>2, <1>6 DEF WorkerPersists
<1>7. CASE WorkerChecksHeld
  BY <1>1, <1>2, <1>7 DEF WorkerChecksHeld
<1> QED
  BY <1>0, <1>3, <1>4, <1>5, <1>6, <1>7 DEF WorkerNext

\* A request keeps its row absent until the worker writes it.
LEMMA RowsPendingStep ==
  ASSUME PublishInv, DrainInv, OrphanInv, [Next]_vars, ~Republish
  PROVE  RowsPending'
<1>0. /\ TypeOK /\ Known /\ PollKnows /\ WorkerKnows /\ JobsKnown /\ FreshRows /\ NoPrior /\ RowsPending
      /\ JobsApart /\ WorkerApart /\ PollApart /\ reqs \in Nat /\ 1..reqs \subseteq Sessions
  <2>1. reqs \in 0..MaxSessions
    BY DEF PublishInv, TypeOK
  <2> QED
    BY <2>1, SessionTypes, SessionsAssumption DEF PublishInv, Known, OrphanInv, DrainInv, Apart
<1>1. CASE Restart
  <2>1. queue' = <<>> /\ worker'.pc = "idle" /\ poll'.pc = "idle"
    BY <1>1 DEF Restart, IdleWorker, IdlePoll
  <2> QED
    BY <2>1 DEF RowsPending, AtInstall
<1>2. ASSUME NEW i \in Sessions, row[i] = "absent",
             ~(worker.id = i /\ worker.pc \in {"acquire", "persist"} /\ worker'.pc \in {"install", "check"})
      PROVE  row'[i] = "absent"
  <2>1. ASSUME NEW pc, WorkerGoes(pc) PROVE worker'.pc = pc
    BY <1>0, <2>1 DEF WorkerGoes, TypeOK, WorkerLocals
  <2> QED
    BY <1>0, <1>2, <2>1, RowStep
<1>3. ASSUME NEW k \in 1..Len(queue'), queue'[k].kind # "close" PROVE row'[queue'[k].id] = "absent"
  <2>1. ASSUME NEW l \in 1..Len(queue), queue'[k] = queue[l] PROVE row'[queue'[k].id] = "absent"
    <3>1. Asks(l) /\ queue[l].id \in Sessions /\ row[queue[l].id] = "absent"
      BY <1>0, <1>3, <2>1 DEF JobsKnown, Asks, RowsPending
    <3>2. WorkerBusy => queue[l].id # worker.id
      BY <1>0, <3>1 DEF WorkerApart
    <3> QED
      BY <1>2, <2>1, <3>1, <3>2 DEF WorkerBusy
  <2>2. ASSUME NEW c \in Conns, NEW s \in Streams, PublishCommand(c, s),
               queue'[k] = Job("auth", c, reqs + 1)
        PROVE  row'[queue'[k].id] = "absent"
    <3>1. reqs + 1 \in Sessions /\ reqs + 1 > reqs /\ row' = row
      BY <1>0, <2>2, FirstAsk
    <3> QED
      BY <1>0, <2>2, <3>1, JobConns DEF FreshRows
  <2>3. ASSUME FastInstall, queue'[k].id = poll.id PROVE row'[queue'[k].id] = "absent"
    BY <1>0, <2>3 DEF FastInstall, RowsPending, AtInstall, dbVars
  <2> QED
    BY <1>0, <1>3, <2>1, <2>2, <2>3, AskStep, JobConns DEF NewAsk
<1>4. ASSUME worker'.pc \in {"acquire", "persist"}, ~Restart PROVE row'[worker'.id] = "absent"
  <2>2. CASE Taken
    <3>1. /\ Head(queue) = queue[1] /\ 1 \in 1..Len(queue) /\ row' = row /\ Asks(1)
          /\ worker'.id = queue[1].id
      BY <1>0, <2>2, QueueShrinks DEF Taken, WorkerTakesAuth, WorkerTakesPersist, dbVars, Asks
    <3> QED
      BY <1>0, <3>1 DEF RowsPending
  <2>3. CASE worker' = worker
    <3>1. worker.id \in Sessions /\ row[worker.id] = "absent"
      BY <1>0, <1>4, <2>3 DEF WorkerKnows, RowsPending
    <3> QED
      BY <1>2, <1>4, <2>3, <3>1
  <2> QED
    BY <1>0, <1>4, <2>2, <2>3, WorkerComes
<1>5. ASSUME AtInstall' PROVE row'[poll'.id] = "absent"
  <2>1. CASE poll' = poll
    <3>1. AtInstall /\ poll.id \in Sessions /\ row[poll.id] = "absent"
      BY <1>0, <1>5, <2>1 DEF AtInstall, PollKnows, RowsPending
    <3>2. WorkerBusy => poll.id # worker.id
      BY <1>0, <3>1 DEF PollApart
    <3> QED
      BY <1>2, <2>1, <3>1, <3>2 DEF WorkerBusy
  <2>2. CASE poll' # poll
    <3>1. poll'.id = reqs + 1 /\ reqs + 1 \in Sessions /\ reqs + 1 > reqs /\ row' = row
      BY <1>0, <1>5, <2>2, InstallNew, FirstAsk
    <3> QED
      BY <1>0, <3>1 DEF FreshRows
  <2> QED
    BY <2>1, <2>2
<1> QED
  BY <1>1, <1>3, <1>4, <1>5 DEF RowsPending, Asks

\* The poll thread goes to clear a role only after it wrote the row.
LEMMA ClearedStep ==
  ASSUME PublishInv, DrainInv, OrphanInv, [Next]_vars
  PROVE  Cleared'
<1>0. /\ TypeOK /\ Known /\ PollKnows /\ NoPrior /\ Cleared /\ HttpAlive /\ Named
      /\ 1..reqs \subseteq Sessions /\ row \in [Sessions -> Rows]
  <2>1. reqs \in 0..MaxSessions /\ row \in [Sessions -> Rows]
    BY DEF PublishInv, TypeOK
  <2> QED
    BY <2>1, SessionTypes DEF PublishInv, Known, OrphanInv, DrainInv
<1> SUFFICES ASSUME poll'.pc = "clear"
             PROVE  /\ row'[poll'.id] # "active"
                    /\ row'[poll'.id] = "absent" => stream'[streamOf'[poll'.id]] = "gone"
  BY DEF Cleared
<1>1. CASE PollDeactivate
  <2>1. poll.id \in Sessions /\ poll' # IdlePoll
    BY <1>0, <1>1 DEF PollDeactivate, PollKnows, IdlePoll
  <2>2. deactivate(poll.id) /\ poll' = [poll EXCEPT !.pc = "clear"]
    BY <1>1, <2>1 DEF PollDeactivate
  <2>3. poll'.id = poll.id /\ row'[poll.id] = "inactive"
    BY <1>0, <2>1, <2>2 DEF deactivate, TypeOK, PollLocals
  <2> QED
    BY <2>3
<1>2. CASE poll' = poll /\ ~Restart
  <2> DEFINE i == poll.id
             s == streamOf[i]
  <2>1. /\ i \in Sessions /\ s \in Streams /\ streamOf'[i] = s
        /\ row[i] # "active" /\ (row[i] = "absent" => stream[s] = "gone")
    BY <1>0, <1>2, StreamKept DEF PollKnows, Cleared, Named
  <2>2. row[i] = "absent" => row'[i] = "absent"
    BY <1>0, <2>1, RowStep DEF publisher_try_acquire
  <2>3. row'[i] # "active"
    BY <1>0, <2>1, <2>2, RowStep DEF publisher_try_acquire
  <2>4. row'[i] = "absent" => stream'[s] = "gone"
    BY <1>0, <1>2, <2>1, RowGone, AliveStep
  <2> QED
    BY <1>2, <2>1, <2>3, <2>4
<1>3. (poll' = poll /\ ~Restart) \/ PollDeactivate
  <2>0. IdlePoll.pc # "clear"
    BY DEF IdlePoll
  <2>7. ~Restart
    BY <2>0 DEF Restart
  <2>1. CASE ClientNext
    BY <2>1, <2>7 DEF ClientNext, PublishCommand, UnpublishCommand, PeerCloses
  <2>2. ASSUME NEW c \in Conns, VisitNext(c) PROVE poll' = poll
    BY <2>2 DEF VisitNext, VisitForceClose, VisitRelease, VisitPublishing, VisitDeleted
  <2>3. CASE FastInstall \/ PollTick \/ PollClear \/ (\E i \in Sessions : RetryDeactivation(i))
    BY <2>0, <2>3, <2>7 DEF FastInstall, PollTick, PollClear, RetryDeactivation
  <2>4. ASSUME ApplyCompletion PROVE FALSE
    <3>1. \/ poll' = IdlePoll
          \/ \E c, i : poll' = [pc |-> "deactivate", conn |-> c, id |-> i, why |-> "superseded"]
      BY <2>4 DEF ApplyCompletion
    <3> QED
      BY <2>0, <3>1
  <2>5. CASE WorkerNext
    BY <2>5, <2>7 DEF WorkerNext, WorkerTakesAuth, WorkerTakesClose, WorkerTakesPersist,
       WorkerDeactivatesPrior, WorkerAcquires, WorkerRestoresPrior, WorkerInstalls,
       WorkerCompletes, WorkerWritesClose, WorkerPersists, WorkerChecksHeld, WorkerDropsRow
  <2>6. ASSUME NEW s \in Streams, HttpNext(s) PROVE poll' = poll
    BY <2>6 DEF HttpNext, HttpMarks, HttpBegins, HttpCounts, HttpDrained, HttpDrainTimesOut,
                HttpFinalizes, HttpRollsBack
  <2>8. CASE UNCHANGED vars
    BY <2>7, <2>8 DEF vars
  <2> QED
    BY <2>1, <2>2, <2>3, <2>4, <2>5, <2>6, <2>7, <2>8 DEF Next, PollNext
<1> QED
  BY <1>1, <1>2, <1>3


\* A session that loses its connection while its row is still to be written has
\* lost its stream, or was abandoned by a delete.
LEMMA KeptStep ==
  ASSUME PublishInv, DrainInv, OrphanInv, [Next]_vars, ~Restart,
         NEW c \in Conns, NEW i \in 1..reqs, Kept(c, i),
         ~(WorkerTakesClose /\ Head(queue).conn = c), ~(WorkerPersists /\ worker.conn = c /\ worker' = IdleWorker)
  PROVE  \/ Kept(c, i)'
         \/ stream'[streamOf[i]] = "gone" /\ row'[i] = "absent"
         \/ row[i] # "active" /\ row'[i] # "active" /\ (row[i] = "absent" => stream'[streamOf[i]] = "gone")
<1>0. /\ TypeOK /\ Known /\ FreeHeld /\ Cleared /\ HttpAlive /\ Named /\ NoPrior
      /\ i \in Sessions /\ i # NoSession /\ streamOf[i] \in Streams /\ streamOf'[i] = streamOf[i]
  <2>1. TypeOK /\ Known /\ FreeHeld /\ Cleared /\ HttpAlive /\ Named /\ NoPrior /\ reqs \in 0..MaxSessions
    BY DEF PublishInv, TypeOK, OrphanInv, DrainInv
  <2>2. i \in Sessions /\ i # NoSession
    BY <2>1, SessionTypes, SessionsAssumption DEF NoSession
  <2> QED
    BY <2>1, <2>2, StreamKept DEF Named
<1>1. CASE Excused(streamOf[i])
  BY <1>0, <1>1, ExcusedStep DEF Kept, Excused
<1>2. CASE held[c] = i /\ held'[c] = i
  BY <1>2 DEF Kept
<1>3. CASE held[c] = i /\ held'[c] # i
  <2>1. CASE PollClear /\ poll.id = i
    <3>1. row[i] # "active" /\ (row[i] = "absent" => stream[streamOf[i]] = "gone") /\ row' = row
      BY <1>0, <2>1 DEF PollClear, Cleared, dbVars
    <3> QED
      BY <1>0, <3>1, AliveStep
  <2>2. ASSUME NEW s \in Streams, HttpDrainTimesOut(s), streamOf[held[c]] = s PROVE Kept(c, i)'
    <3>1. http'[s] = "finalize"
      BY <1>0, <2>2 DEF HttpDrainTimesOut, HttpGoes, TypeOK
    <3> QED
      BY <1>0, <1>3, <2>2, <3>1 DEF Kept, Excused
  <2> QED
    BY <1>0, <1>3, <2>1, <2>2, HeldLost
<1> QED
  BY <1>1, <1>2, <1>3 DEF Kept

\* A row still to be written is that of a held session, or of one whose row does
\* no harm.
LEMMA PersistHeldStep ==
  ASSUME PublishInv, DrainInv, OrphanInv, [Next]_vars, ~Republish
  PROVE  PersistHeld'
<1>0. /\ TypeOK /\ Known /\ PollKnows /\ WorkerKnows /\ JobsKnown /\ NoPrior /\ RowsPending
      /\ ConnsApart /\ PersistHeld /\ LastClose /\ HttpAlive /\ Named
      /\ reqs \in Nat /\ 1..reqs \subseteq Sessions
  <2>1. reqs \in 0..MaxSessions
    BY DEF PublishInv, TypeOK
  <2> QED
    BY <2>1, SessionTypes, SessionsAssumption DEF PublishInv, Known, OrphanInv, DrainInv
<1>1. CASE Restart
  <2>1. queue' = <<>> /\ worker'.pc = "idle"
    BY <1>1 DEF Restart, IdleWorker
  <2> QED
    BY <2>1 DEF PersistHeld
<1>n. ASSUME NEW i \in 1..reqs PROVE streamOf[i] \in Streams /\ streamOf'[i] = streamOf[i] /\ i \in Sessions
  BY <1>0, <1>n, StreamKept DEF Named
<1>g. ASSUME NEW pc, WorkerGoes(pc)
      PROVE  worker'.pc = pc /\ worker'.conn = worker.conn /\ worker'.id = worker.id
  BY <1>0, <1>g DEF WorkerGoes, TypeOK, WorkerLocals
<1>2. ASSUME ~Restart, NEW k \in 1..Len(queue'), queue'[k].kind = "persist",
             NEW c, NEW i, c = queue'[k].conn, i = queue'[k].id
      PROVE  Kept(c, i)' \/ stream'[streamOf'[i]] = "gone"
  <2>1. ASSUME NEW l \in 1..Len(queue), queue'[k] = queue[l]
        PROVE  Kept(c, i)' \/ stream'[streamOf'[i]] = "gone"
    <3>1. Asks(l) /\ c \in Conns /\ i \in 1..reqs /\ row[i] = "absent"
      BY <1>0, <1>2, <2>1, JobConns DEF Asks, JobsKnown, RowsPending
    <3>2. CASE stream[streamOf[i]] = "gone"
      BY <1>0, <1>n, <3>1, <3>2, AliveStep
    <3>3. CASE Kept(c, i)
      <4>1. ~(WorkerPersists /\ worker.conn = c)
        BY <1>0, <1>2, <2>1, <3>1 DEF WorkerPersists, WorkerAt, WorkerBusy, ConnsApart
      <4>2. ~(WorkerTakesClose /\ Head(queue).conn = c)
        <5> SUFFICES ASSUME WorkerTakesClose PROVE Head(queue).conn # c
          OBVIOUS
        <5>1. Head(queue) = queue[1] /\ 1 \in 1..Len(queue) /\ queue[1].kind = "close" /\ Len(queue) \in Nat
          BY <1>0, QueueShrinks DEF WorkerTakesClose
        <5>2. l > 1
          BY <1>2, <2>1, <5>1
        <5> QED
          BY <1>0, <1>2, <2>1, <3>1, <5>1, <5>2 DEF LastClose
      <4> QED
        BY <1>2, <1>n, <3>1, <3>3, <4>1, <4>2, KeptStep
    <3> QED
      BY <1>0, <1>2, <2>1, <3>2, <3>3 DEF PersistHeld
  <2>2. ASSUME NewAsk(queue'[k]) PROVE Kept(c, i)'
    BY <1>0, <1>2, <2>2, JobConns DEF NewAsk, Kept
  <2> QED
    BY <1>0, <1>2, <2>1, <2>2, AskStep
<1>3. ASSUME ~Restart, worker' = worker, worker.pc \in {"persist", "check"},
             NEW c, NEW i, c = worker.conn, i = worker.id, Kept(c, i)
      PROVE  \/ Kept(c, i)'
             \/ row'[i] # "active" /\ (worker.pc = "persist" => stream'[streamOf'[i]] = "gone")
  <2>1. c \in Conns /\ i \in 1..reqs /\ (worker.pc = "persist" => row[i] = "absent")
    BY <1>0, <1>3 DEF WorkerKnows, RowsPending
  <2>2. ~WorkerTakesClose /\ worker' # IdleWorker
    BY <1>3 DEF WorkerTakesClose, WorkerAt, IdleWorker
  <2> QED
    BY <1>3, <1>n, <2>1, <2>2, KeptStep
<1>4. ASSUME ~Restart, worker'.pc = "persist", NEW c, NEW i, c = worker'.conn, i = worker'.id
      PROVE  Kept(c, i)' \/ stream'[streamOf'[i]] = "gone"
  <2>1. CASE worker' = worker
    <3>1. i \in 1..reqs /\ (Kept(c, i) \/ stream[streamOf[i]] = "gone")
      BY <1>0, <1>4, <2>1 DEF WorkerKnows, PersistHeld
    <3> QED
      BY <1>0, <1>3, <1>4, <1>n, <2>1, <3>1, AliveStep
  <2>2. CASE Taken
    <3>1. /\ Head(queue) = queue[1] /\ 1 \in 1..Len(queue) /\ Head(queue).kind = "persist"
          /\ c = queue[1].conn /\ i = queue[1].id
          /\ UNCHANGED <<held, stream, streamOf, http, gaveUp>>
      BY <1>0, <1>4, <2>2, QueueShrinks DEF Taken, WorkerTakesAuth, WorkerTakesPersist,
         bridgeVars,
         dbVars, libVars, httpVars
    <3> QED
      BY <1>0, <3>1 DEF PersistHeld, Kept, Excused
  <2> QED
    BY <1>0, <1>4, <2>1, <2>2, WorkerComes
<1>r. ASSUME ~Restart, worker' = worker, worker.pc \in {"check", "drop"}, row[worker.id] # "active"
      PROVE  row'[worker.id] # "active"
  BY <1>0, <1>n, <1>r, RowStep DEF WorkerKnows
<1>5. ASSUME ~Restart, worker'.pc = "check", NEW c, NEW i, c = worker'.conn, i = worker'.id
      PROVE  Kept(c, i)' \/ row'[i] # "active"
  <2>1. CASE worker' = worker
    BY <1>0, <1>3, <1>5, <1>r, <2>1 DEF PersistHeld
  <2>2. CASE worker' # worker
    <3>1. /\ WorkerPersists /\ publisher_try_acquire(worker.id) /\ held' = held
          /\ c = worker.conn /\ i = worker.id
      BY <1>0, <1>5, <1>g, <2>2, WorkerComes
    <3>2. UNCHANGED <<held, streamOf, http, gaveUp>> /\ Kept(c, i)
      BY <1>0, <3>1 DEF WorkerPersists, WorkerAt, PersistHeld, publisher_try_acquire, libVars,
         httpVars
    <3> QED
      BY <3>2 DEF Kept, Excused
  <2> QED
    BY <2>1, <2>2
<1>6. ASSUME ~Restart, worker'.pc = "drop", NEW i, i = worker'.id
      PROVE  Excused(streamOf[i])' \/ row'[i] # "active"
  <2>1. CASE worker' = worker
    <3>1. i \in 1..reqs /\ (Excused(streamOf[i]) \/ row[i] # "active")
      BY <1>0, <1>6, <2>1 DEF WorkerKnows, PersistHeld
    <3>2. CASE Excused(streamOf[i])
      BY <1>0, <1>6, <1>n, <3>1, <3>2, ExcusedStep DEF Excused
    <3>3. CASE row[i] # "active"
      BY <1>6, <1>r, <2>1, <3>3
    <3> QED
      BY <3>1, <3>2, <3>3
  <2>2. CASE worker' # worker
    <3>1. WorkerChecksHeld /\ held[worker.conn] # worker.id /\ i = worker.id
      BY <1>0, <1>6, <1>g, <2>2, WorkerComes
    <3>2. UNCHANGED <<row, streamOf, http, gaveUp>>
      BY <3>1 DEF WorkerChecksHeld, dbVars, libVars, httpVars
    <3> QED
      BY <1>0, <3>1, <3>2 DEF WorkerChecksHeld, WorkerAt, PersistHeld, Kept, Excused
  <2> QED
    BY <2>1, <2>2
<1>7. CASE ~Restart
  BY <1>2, <1>4, <1>5, <1>6, <1>7 DEF PersistHeld, Kept, Excused
<1> QED
  BY <1>1, <1>7


\* Every active row stays somebody's to clear.
LEMMA NoOrphanStep ==
  ASSUME PublishInv, DrainInv, OrphanInv, [Next]_vars
  PROVE  NoOrphanRow'
<1>0. /\ TypeOK /\ Known /\ WorkerKnows /\ HeldKnown /\ FreshRows /\ NoPrior /\ RowsPending /\ FreeHeld
      /\ PersistHeld /\ Cleared /\ Named /\ NoOrphanRow /\ reqs \in Nat
      /\ row \in [Sessions -> Rows] /\ held \in [Conns -> SessionsOrNone]
  BY SessionsAssumption DEF PublishInv, Known, OrphanInv, DrainInv, TypeOK
<1>g. ASSUME NEW pc, WorkerGoes(pc)
      PROVE  worker'.pc = pc /\ worker'.conn = worker.conn /\ worker'.id = worker.id
  BY <1>0, <1>g DEF WorkerGoes, TypeOK, WorkerLocals
<1> SUFFICES ASSUME NEW i \in Sessions, row'[i] = "active"
             PROVE  \/ \E c \in Conns : held'[c] = i
                    \/ i \in retry'
                    \/ worker'.id = i /\ worker'.pc \in {"install", "close", "check", "drop"}
                    \/ Excused(streamOf[i])'
  BY DEF NoOrphanRow, Excused
<1>r. ~Restart
  BY DEF Restart, RowsAfterOpen
<1>1. CASE row[i] # "active"
  BY <1>0, <1>1, <1>g, RowStep
<1>2. CASE row[i] = "active"
  <2>0. i \in 1..reqs /\ i # NoSession /\ streamOf[i] \in Streams /\ streamOf'[i] = streamOf[i]
    <3>1. i \in 1..reqs /\ i # NoSession
      BY <1>0, <1>2, SessionsAssumption DEF FreshRows, Sessions, NoSession
    <3> QED
      BY <1>0, <3>1, StreamKept DEF Named
  <2>1. ASSUME NEW c \in Conns, held[c] = i
        PROVE  \/ \E d \in Conns : held'[d] = i
               \/ worker'.id = i /\ worker'.pc \in {"install", "close", "check", "drop"}
               \/ Excused(streamOf[i])'
    <3>1. CASE PollClear /\ poll.id = held[c]
      BY <1>0, <1>2, <2>1, <3>1 DEF PollClear, Cleared
    <3>2. CASE WorkerTakesClose /\ Head(queue).conn = c
      <4>1. worker' = [IdleWorker EXCEPT !.pc = "close", !.conn = c, !.id = i]
        BY <2>0, <2>1, <3>2 DEF WorkerTakesClose
      <4> QED
        BY <4>1 DEF IdleWorker
    <3>3. CASE WorkerPersists /\ worker.conn = c /\ row' = row /\ worker' = IdleWorker
      <4>1. row[worker.id] = "absent" /\ held'[c] = IF held[c] = worker.id THEN NoSession ELSE held[c]
        <5>1. row[worker.id] = "absent"
          BY <1>0, <3>3 DEF WorkerPersists, WorkerAt, RowsPending
        <5>2. worker' # worker /\ worker'.pc # "check"
          BY <3>3 DEF WorkerPersists, WorkerAt, IdleWorker
        <5>3. held' = [held EXCEPT ![worker.conn] = IF @ = worker.id THEN NoSession ELSE @]
          BY <1>g, <3>3, <5>2 DEF WorkerPersists
        <5> QED
          BY <1>0, <3>3, <5>1, <5>3
      <4> QED
        BY <1>2, <2>1, <4>1
    <3>4. ASSUME NEW s \in Streams, HttpDrainTimesOut(s), streamOf[held[c]] = s PROVE Excused(streamOf[i])'
      <4>1. http'[s] = "finalize"
        BY <1>0, <3>4 DEF HttpDrainTimesOut, HttpGoes, TypeOK
      <4> QED
        BY <2>0, <2>1, <3>4, <4>1 DEF Excused
    <3> QED
      BY <1>0, <1>r, <2>0, <2>1, <3>1, <3>2, <3>3, <3>4, HeldLost
  <2>2. ASSUME i \in retry PROVE i \in retry'
    <3>1. ASSUME NEW j \in Sessions, RetryDeactivation(j) PROVE i \in retry'
      <4>1. CASE i = j
        BY <1>0, <1>2, <2>2, <3>1, <4>1 DEF RetryDeactivation, deactivate
      <4>2. CASE i # j
        BY <2>2, <3>1, <4>2 DEF RetryDeactivation
      <4> QED
        BY <4>1, <4>2
    <3>2. CASE ClientNext
      BY <2>2, <3>2 DEF ClientNext, PublishCommand, UnpublishCommand, PeerCloses, bridgeVars
    <3>3. CASE PollNext /\ ~(\E j \in Sessions : RetryDeactivation(j))
      BY <2>2, <3>3 DEF PollNext, VisitNext, FastInstall, PollTick, PollDeactivate, PollClear,
         ApplyCompletion, VisitForceClose, VisitRelease, VisitPublishing, VisitDeleted, bridgeVars
    <3>4. CASE WorkerNext
      BY <2>2, <3>4 DEF WorkerNext, WorkerTakesAuth, WorkerTakesClose, WorkerTakesPersist,
         WorkerDeactivatesPrior, WorkerAcquires, WorkerRestoresPrior, WorkerInstalls,
         WorkerCompletes, WorkerWritesClose, WorkerPersists, WorkerChecksHeld, WorkerDropsRow, bridgeVars
    <3>5. ASSUME NEW s \in Streams, HttpNext(s) PROVE retry' = retry
      BY <3>5 DEF HttpNext, HttpMarks, HttpBegins, HttpCounts, HttpDrained, HttpDrainTimesOut,
                  HttpFinalizes, HttpRollsBack, bridgeVars
    <3>6. CASE UNCHANGED vars
      BY <2>2, <3>6 DEF vars
    <3> QED
      BY <1>r, <2>2, <3>1, <3>2, <3>3, <3>4, <3>5, <3>6 DEF Next
  <2>3. ASSUME worker.id = i, worker.pc \in {"install", "close", "check", "drop"}
        PROVE  \/ \E c \in Conns : held'[c] = i
               \/ i \in retry'
               \/ worker'.id = i /\ worker'.pc \in {"install", "close", "check", "drop"}
               \/ Excused(streamOf[i])'
    <3>1. CASE worker' = worker
      BY <2>3, <3>1
    <3>2. worker.conn \in Conns
      BY <1>0, <2>3 DEF WorkerKnows
    <3>3. CASE WorkerInstalls
      BY <1>0, <2>3, <3>2, <3>3 DEF WorkerInstalls
    <3>4. CASE WorkerWritesClose
      BY <1>0, <1>2, <2>3, <3>4 DEF WorkerWritesClose, deactivate
    <3>5. CASE WorkerChecksHeld
      <4>1. CASE held[worker.conn] = i
        BY <2>3, <3>2, <3>5, <4>1 DEF WorkerChecksHeld, bridgeVars
      <4>2. CASE held[worker.conn] # i
        BY <1>g, <2>3, <3>5, <4>2 DEF WorkerChecksHeld
      <4> QED
        BY <4>1, <4>2
    <3>6. CASE WorkerDropsRow
      <4>1. Excused(streamOf[i])
        BY <1>0, <1>2, <2>3, <3>6 DEF WorkerDropsRow, WorkerAt, PersistHeld
      <4> QED
        BY <2>0, <3>6, <4>1 DEF WorkerDropsRow, Excused, httpVars
    <3>7. CASE WorkerNext
      BY <2>3, <3>3, <3>4, <3>5, <3>6, <3>7 DEF WorkerNext, WorkerTakesAuth, WorkerTakesClose,
         WorkerTakesPersist, WorkerDeactivatesPrior, WorkerAcquires, WorkerRestoresPrior,
         WorkerCompletes, WorkerPersists, WorkerAt
    <3> QED
      BY <1>r, <3>1, <3>7, WorkerMoves
  <2>4. ASSUME Excused(streamOf[i]) PROVE Excused(streamOf[i])'
    BY <1>0, <1>r, <2>0, <2>4, ExcusedStep DEF Excused
  <2> QED
    BY <1>0, <1>2, <2>1, <2>2, <2>3, <2>4 DEF NoOrphanRow, Excused
<1> QED
  BY <1>1, <1>2

\* The inductive invariant behind NoOrphanRow.
LEMMA OrphanInvariant ==
  ASSUME ~Republish
  PROVE  Spec => [](PublishInv /\ DrainInv /\ OrphanInv)
<1>1. Init => OrphanInv
  <2> SUFFICES ASSUME Init PROVE OrphanInv
    OBVIOUS
  <2>1. /\ queue = <<>> /\ worker = IdleWorker /\ worker.pc = "idle" /\ worker.old = NoSession
        /\ poll.pc = "idle"
        /\ \A s \in Streams : http[s] = "none"
        /\ \A c \in Conns : held[c] = NoSession
        /\ \A i \in Sessions : row[i] = "absent"
    BY DEF Init, IdleWorker, IdlePoll
  <2>2. ConnsApart /\ HasAsked /\ FreeHeld /\ RowsPending
    BY <2>1 DEF ConnsApart, HasAsked, FreeHeld, RowsPending, WorkerBusy, WorkerAuth, AtInstall
  <2>3. PersistHeld /\ LastClose /\ Cleared /\ NoPrior /\ HttpAlive /\ NoOrphanRow
    BY <2>1 DEF PersistHeld, LastClose, Cleared, NoPrior, HttpAlive, NoOrphanRow
  <2> QED
    BY <2>2, <2>3 DEF OrphanInv
<1>2. PublishInv /\ DrainInv /\ OrphanInv /\ [Next]_vars => OrphanInv'
  <2> SUFFICES ASSUME PublishInv, DrainInv, OrphanInv, [Next]_vars PROVE OrphanInv'
    OBVIOUS
  <2>1. HttpAlive'
    BY AliveStep DEF PublishInv, OrphanInv
  <2> QED
    BY <2>1, ConnsApartStep, HasAskedStep, FreeHeldStep, RowsPendingStep, PersistHeldStep,
       LastCloseStep, ClearedStep, NoPriorStep, NoOrphanStep DEF OrphanInv
<1> QED
  BY <1>1, <1>2, DrainInvariant, PTL DEF Spec

\* An active row is always somebody's to clear (NoOrphanRow), when clients publish
\* once on a connection: for any connections, streams, requests, queue bound,
\* faults, deletes and restarts.
THEOREM NoOrphanRowCorrect ==
  ASSUME ~Republish
  PROVE  Spec => []NoOrphanRow
<1>1. PublishInv /\ DrainInv /\ OrphanInv => NoOrphanRow
  BY DEF OrphanInv
<1> QED
  BY <1>1, OrphanInvariant, PTL
=============================================================================
