------------------------ MODULE ClusterOwnershipProofs ------------------------
(***************************************************************************)
(* The ownership protocol implements the lease of StreamLease, for any set *)
(* of connections, any number of publishes and acquires of other nodes and *)
(* any faults, and leaves no owner row that nobody will release.           *)
(***************************************************************************)
EXTENDS ClusterOwnership, SequenceTheorems, TLAPS

-----------------------------------------------------------------------------
(* The inductive invariant, in named parts.                                *)

\* A row that names an owner names the entry that granted it.
GrantsNamed ==
    \A k \in 1..Len(rows) : rows[k] = NoOwner \/ (rows[k].node \in Nodes /\ rows[k].epoch = k)

\* Epoch e of the rows rs was granted to this node.
Mine(rs, e) == e \in 1..Len(rs) /\ rs[e].node = Me

\* The write of a thread is the one its reason calls for; the index with which
\* an acquire was answered is an epoch of this node.
CallOwn(rs, w) ==
    IF w.why \in {"publish", "recover"}
    THEN /\ w.cmd.op = "acquire" /\ w.cmd.node = Me
         /\ w.index # 0 => Mine(rs, w.index)
    ELSE /\ w.cmd.op = "release"
         /\ w.why = "unclaimed" => Mine(rs, w.cmd.epoch)

CallsOwn == \A t \in Threads : call[t] # Idle => CallOwn(rows, call[t])

EpochsOwn == \A c \in Conns : epochs[c] # 0 => Mine(rows, epochs[c])

TrackerGiven ==
    \/ tracker = Unknown
    \/ \E k \in 1..Len(rows) : rows[k].node # NoNode /\ tracker = View(rows[k])

LeaseInv == TypeOK /\ GrantsNamed /\ CallsOwn /\ EpochsOwn /\ TrackerGiven

\* The parts about the calls and the ones about the row.
CallInv == call \in [Threads -> Calls \cup {Idle}] /\ CallsOwn
RowsInv == rows \in Seq(OwnerRows) /\ GrantsNamed

-----------------------------------------------------------------------------
\* The row and the node's copy of it have their type.
LEMMA RowTyped == ASSUME TypeOK PROVE Row \in OwnerRows /\ DbRow \in OwnerRows
<1>1. NoOwner \in OwnerRows
  BY DEF NoOwner, OwnerRows
<1>2. \A k \in 1..Len(rows) : rows[k] \in OwnerRows
  BY ElementOfSeq DEF TypeOK
<1>3. rows # <<>> => Len(rows) \in 1..Len(rows)
  BY EmptySeq, LenProperties DEF TypeOK
<1>4. applied # 0 => applied \in 1..Len(rows)
  BY DEF TypeOK
<1> QED
  BY <1>1, <1>2, <1>3, <1>4 DEF Row, DbRow

\* The row of the database is free or granted to the node it names.
LEMMA DbRowGiven ==
    ASSUME TypeOK, GrantsNamed
    PROVE  DbRow = NoOwner \/ (DbRow.epoch \in 1..Len(rows) /\ DbRow = rows[DbRow.epoch] /\ DbRow.node \in Nodes)
<1>1. applied # 0 => applied \in 1..Len(rows)
  BY DEF TypeOK
<1> QED
  BY <1>1 DEF DbRow, GrantsNamed

\* The row is free or names the newest entry.
LEMMA RowGiven ==
    ASSUME TypeOK, GrantsNamed
    PROVE  Row = NoOwner \/ (Row.epoch = Len(rows) /\ Row.node \in Nodes)
<1>1. rows # <<>> => Len(rows) \in 1..Len(rows)
  BY EmptySeq, LenProperties DEF TypeOK
<1> QED
  BY <1>1 DEF Row, GrantsNamed

\* A command leaves the row as it is, frees it or grants it.
LEMMA AfterTyped ==
    ASSUME TypeOK, GrantsNamed, NEW c \in Writes
    PROVE  LET r == After(c, Len(rows) + 1)
           IN  \/ c.op = "acquire" /\ ~Refused(c) /\ r = [node |-> c.node, epoch |-> Len(rows) + 1, at |-> c.at]
               \/ ~(c.op = "acquire" /\ ~Refused(c)) /\ (r = NoOwner \/ r = Row)
<1>1. CASE c.op = "acquire" /\ ~Refused(c)
  BY <1>1 DEF After
<1>2. CASE c.op = "acquire" /\ Refused(c)
  BY <1>2 DEF After
<1>3. CASE c.op = "release"
  BY <1>3 DEF After
<1>4. CASE c.op = "release_node"
  BY <1>4 DEF After
<1> QED
  BY <1>1, <1>2, <1>3, <1>4 DEF Writes

\* What a committed command does to the rows: nothing, or one more row, which
\* is free or names the entry itself.
LEMMA AppendKeeps ==
    ASSUME TypeOK, GrantsNamed, NEW c \in Writes, Append1(c)
    PROVE  /\ RowsInv'
           /\ Len(rows') \in Nat /\ Len(rows) <= Len(rows')
           /\ \A k \in 1..Len(rows) : rows'[k] = rows[k]
           /\ c.op = "acquire" /\ ~Refused(c) => Len(rows') = Len(rows) + 1 /\ rows'[Len(rows) + 1].node = c.node
<1> DEFINE r == After(c, Len(rows) + 1)
<1>1. rows' = IF r = Row THEN rows ELSE Append(rows, r)
  BY DEF Append1
<1>2. rows \in Seq(OwnerRows) /\ Len(rows) \in Nat
  BY DEF TypeOK
<1>3. c.op = "acquire" => c.node \in Nodes /\ c.at \in Nat
  BY DEF Writes
<1>4. CASE c.op = "acquire" /\ ~Refused(c)
  <2>1. r = [node |-> c.node, epoch |-> Len(rows) + 1, at |-> c.at]
    BY <1>4, AfterTyped
  <2>2. r \in OwnerRows /\ r.epoch = Len(rows) + 1 /\ r.node = c.node /\ r.node \in Nodes
    BY <1>2, <1>3, <1>4, <2>1 DEF OwnerRows
  <2>3. r # Row
    BY <1>2, <2>2, RowGiven DEF NoOwner
  <2> HIDE DEF r
  <2>4. rows' = Append(rows, r)
    BY <1>1, <2>3
  <2>5. /\ rows' \in Seq(OwnerRows) /\ Len(rows') = Len(rows) + 1
        /\ \A k \in 1..Len(rows) : rows'[k] = rows[k]
        /\ rows'[Len(rows) + 1] = r
    BY <1>2, <2>2, <2>4
  <2>6. GrantsNamed'
    BY <1>2, <2>2, <2>5 DEF GrantsNamed
  <2> QED
    BY <1>2, <2>2, <2>5, <2>6 DEF RowsInv
<1>5. CASE ~(c.op = "acquire" /\ ~Refused(c)) /\ r = Row
  <2>1. rows' = rows
    BY <1>1, <1>5
  <2> QED
    BY <1>2, <1>5, <2>1 DEF RowsInv, GrantsNamed
<1>6. CASE ~(c.op = "acquire" /\ ~Refused(c)) /\ r = NoOwner /\ r # Row
  <2>1. rows' = Append(rows, NoOwner) /\ NoOwner \in OwnerRows
    BY <1>1, <1>6 DEF NoOwner, OwnerRows
  <2>2. /\ rows' \in Seq(OwnerRows) /\ Len(rows') = Len(rows) + 1
        /\ \A k \in 1..Len(rows) : rows'[k] = rows[k]
        /\ rows'[Len(rows) + 1] = NoOwner
    BY <1>2, <2>1
  <2>3. GrantsNamed'
    BY <1>2, <2>2 DEF GrantsNamed
  <2> QED
    BY <1>2, <1>6, <2>2, <2>3 DEF RowsInv
<1> QED
  BY <1>4, <1>5, <1>6, AfterTyped

\* An epoch stays granted.
LEMMA MineStays ==
    ASSUME Len(rows) \in Nat, Len(rows') \in Nat, Len(rows) <= Len(rows'),
           \A k \in 1..Len(rows) : rows'[k] = rows[k], NEW e, Mine(rows, e)
    PROVE  Mine(rows', e)
  BY DEF Mine

\* A thread that blocks on a write of its own, ...
LEMMA DispatchKeeps ==
    ASSUME TypeOK, CallsOwn, UNCHANGED rows,
           NEW t \in Threads, NEW c \in Conns \cup {NoConn}, NEW cmd \in Writes,
           NEW why \in {"publish", "release", "again", "unclaimed", "recover", "giveback", "stale"},
           IF why \in {"publish", "recover"} THEN cmd.op = "acquire" /\ cmd.node = Me
           ELSE cmd.op = "release" /\ (why = "unclaimed" => Mine(rows, cmd.epoch)),
           Dispatch(t, why, c, cmd)
    PROVE  CallInv'
<1> DEFINE s == IF c = NoConn THEN 0 ELSE session[c]
           h == c # NoConn /\ role[c] = "live"
           w == [st |-> "sent", why |-> why, conn |-> c, cmd |-> cmd, index |-> 0, session |-> s, held |-> h]
<1>1. s \in Nat /\ h \in BOOLEAN
  BY DEF TypeOK
<1>2. call' = [call EXCEPT ![t] = w]
  BY DEF Dispatch
<1> HIDE DEF s, h
<1>3. w \in Calls
  BY <1>1 DEF Calls
<1>4. CallOwn(rows', w)
  BY DEF CallOwn, Mine
<1> HIDE DEF w
<1>5. call' \in [Threads -> Calls \cup {Idle}]
  BY <1>2, <1>3 DEF TypeOK
<1>6. ASSUME NEW i \in Threads, call'[i] # Idle PROVE CallOwn(rows', call'[i])
  <2>1. CASE i = t
    BY <1>2, <1>4, <2>1 DEF TypeOK
  <2>2. CASE i # t
    <3>1. call'[i] = call[i]
      BY <1>2, <2>2 DEF TypeOK
    <3> QED
      BY <1>6, <3>1 DEF CallsOwn, CallOwn, Mine
  <2> QED
    BY <2>1, <2>2
<1> QED
  BY <1>5, <1>6 DEF CallInv, CallsOwn

\* ... returns from it, or learns how it failed.
LEMMA ResumeKeeps ==
    ASSUME TypeOK, CallsOwn, UNCHANGED rows, NEW t \in Threads, Resume(t)
    PROVE  CallInv'
<1>1. call' = [call EXCEPT ![t] = Idle]
  BY DEF Resume
<1>2. call' \in [Threads -> Calls \cup {Idle}] /\ \A i \in Threads : call'[i] = Idle \/ call'[i] = call[i]
  BY <1>1 DEF TypeOK
<1> QED
  BY <1>2 DEF CallInv, CallsOwn, CallOwn, Mine

\* A thread that learns the outcome of its write keeps the write.
LEMMA OutcomeKeeps ==
    ASSUME TypeOK, CallsOwn, UNCHANGED rows, NEW t \in Threads, call[t].st # "idle",
           NEW st \in {"granted", "unsent", "failed"}, call' = [call EXCEPT ![t].st = st]
    PROVE  CallInv'
<1>1. call[t] \in Calls
  BY DEF TypeOK, Idle
<1> DEFINE w == [call[t] EXCEPT !.st = st]
<1>2. w \in Calls /\ w.why = call[t].why /\ w.cmd = call[t].cmd /\ w.index = call[t].index
  BY <1>1 DEF Calls
<1>3. call' = [call EXCEPT ![t] = w]
  OBVIOUS
<1> HIDE DEF w
<1>4. call' \in [Threads -> Calls \cup {Idle}] /\ call'[t] = w /\ \A i \in Threads \ {t} : call'[i] = call[i]
  BY <1>2, <1>3 DEF TypeOK
<1>5. call[t] # Idle
  BY DEF Idle
<1> QED
  BY <1>2, <1>4, <1>5 DEF CallInv, CallsOwn, CallOwn, Mine

\* Nothing of the calls changes while rows are added.
LEMMA CallsStay ==
    ASSUME TypeOK, CallsOwn, UNCHANGED call, Len(rows') \in Nat, Len(rows) <= Len(rows'),
           \A k \in 1..Len(rows) : rows'[k] = rows[k]
    PROVE  CallInv'
<1>1. Len(rows) \in Nat
  BY DEF TypeOK
<1>2. \A e : Mine(rows, e) => Mine(rows', e)
  BY <1>1, MineStays
<1> QED
  BY <1>2 DEF CallInv, CallsOwn, CallOwn, TypeOK

\* The answer of an acquire that was granted names an epoch of this node.
LEMMA CommitKeeps ==
    ASSUME TypeOK, GrantsNamed, CallsOwn, NEW t \in Threads, Commit(t)
    PROVE  CallInv' /\ call[t].cmd \in Writes
<1>1. call[t] \in Calls /\ call[t] # Idle
  BY DEF TypeOK, Idle, Commit
<1>2. call[t].cmd \in Writes /\ Append1(call[t].cmd)
  BY <1>1 DEF Calls, Commit
<1>3. /\ Len(rows) \in Nat /\ Len(rows') \in Nat /\ Len(rows) <= Len(rows')
      /\ \A k \in 1..Len(rows) : rows'[k] = rows[k]
      /\ call[t].cmd.op = "acquire" /\ ~Refused(call[t].cmd) =>
            Len(rows') = Len(rows) + 1 /\ rows'[Len(rows) + 1].node = call[t].cmd.node
  <2>1. Len(rows) \in Nat
    BY DEF TypeOK
  <2> QED
    BY <1>2, <2>1, AppendKeeps
<1> DEFINE x == IF Refused(call[t].cmd) THEN 0 ELSE Len(rows) + 1
           w == [call[t] EXCEPT !.st = "answered", !.index = x]
<1>4. call' = [call EXCEPT ![t] = w]
  BY DEF Commit
<1>5. x \in Nat /\ (x # 0 => ~Refused(call[t].cmd) /\ x = Len(rows) + 1)
  BY <1>3
<1> HIDE DEF x
<1>6. w \in Calls /\ w.why = call[t].why /\ w.cmd = call[t].cmd /\ w.index = x
  BY <1>1, <1>5 DEF Calls
<1> HIDE DEF w
<1>7. call' \in [Threads -> Calls \cup {Idle}] /\ call'[t] = w /\ \A i \in Threads \ {t} : call'[i] = call[i]
  BY <1>4, <1>6 DEF TypeOK
<1>8. \A e : Mine(rows, e) => Mine(rows', e)
  BY <1>3, MineStays
<1>9. CallOwn(rows', call'[t])
  <2>1. CallOwn(rows, call[t])
    BY <1>1 DEF CallsOwn
  <2>2. CASE w.why \in {"publish", "recover"}
    <3>1. w.cmd.op = "acquire" /\ w.cmd.node = Me
      BY <1>6, <2>1, <2>2 DEF CallOwn
    <3>2. x # 0 => Mine(rows', x)
      BY <1>3, <1>5, <1>6, <3>1 DEF Mine
    <3> QED
      BY <1>6, <1>7, <2>2, <3>1, <3>2 DEF CallOwn
  <2>3. CASE w.why \notin {"publish", "recover"}
    BY <1>6, <1>7, <1>8, <2>1, <2>3 DEF CallOwn
  <2> QED
    BY <2>2, <2>3
<1>10. ASSUME NEW i \in Threads \ {t}, call'[i] # Idle PROVE CallOwn(rows', call'[i])
  BY <1>7, <1>8, <1>10 DEF CallsOwn, CallOwn
<1> QED
  BY <1>2, <1>7, <1>9, <1>10 DEF CallInv, CallsOwn

\* Releases and acquires are commands.
LEMMA ReleaseTyped == ASSUME NEW e \in Nat PROVE Release(e) \in Writes /\ Release(e).op = "release" /\ Release(e).epoch = e
  BY DEF Release, Writes

\* An acquire names its node and its time.
LEMMA AcquireTyped ==
    ASSUME NEW n \in Nodes, NEW at \in Nat
    PROVE  Acquire(n, at) \in Writes /\ Acquire(n, at).op = "acquire" /\ Acquire(n, at).node = n /\ Acquire(n, at).at = at
  BY DEF Acquire, Writes

\* Taking a publisher off releases an epoch the bridge holds.
LEMMA ReleasePublisherKeeps ==
    ASSUME TypeOK, CallsOwn, UNCHANGED rows, NEW t \in Threads, NEW c \in Conns, ReleasePublisher(t, c)
    PROVE  CallInv' /\ row' \in [Conns -> BOOLEAN]
<1>1. epochs[c] \in Nat
  BY DEF TypeOK
<1>2. CallInv'
  BY <1>1, ReleaseTyped, DispatchKeeps DEF ReleasePublisher
<1>3. row' \in [Conns -> BOOLEAN]
  BY DEF ReleasePublisher, TypeOK
<1> QED
  BY <1>2, <1>3

\* Taking all publishers off keeps the types.
LEMMA KickKeeps ==
    ASSUME TypeOK, CallsOwn, UNCHANGED rows, NEW t \in Threads, Kick(t)
    PROVE  /\ CallInv' /\ row' \in [Conns -> BOOLEAN]
           /\ role' \in [Conns -> {"idle", "live", "closed"}] /\ marked' \in BOOLEAN
<1> DEFINE kicked == {c \in Conns : role[c] = "live"}
<1>1. CASE \E c \in kicked : epochs[c] # 0
  <2>1. (\E c \in kicked : ReleasePublisher(t, c)) /\ UNCHANGED <<role, marked>>
    BY <1>1 DEF Kick
  <2> QED
    BY <2>1, ReleasePublisherKeeps DEF TypeOK
<1>2. CASE ~\E c \in kicked : epochs[c] # 0
  <2>1. /\ row' = [c \in Conns |-> row[c] /\ c \notin kicked]
        /\ role' = [c \in Conns |-> IF c \in kicked THEN "idle" ELSE role[c]]
        /\ marked' = TRUE
        /\ Resume(t)
    BY <1>2 DEF Kick
  <2>2. row' \in [Conns -> BOOLEAN] /\ role' \in [Conns -> {"idle", "live", "closed"}]
    BY <2>1 DEF TypeOK
  <2> QED
    BY <2>1, <2>2, ResumeKeeps
<1> QED
  BY <1>1, <1>2

\* A thread that waits for its write has one.
LEMMA BlockedCall ==
    ASSUME TypeOK, NEW t \in Threads, NEW why, Blocked(t, why)
    PROVE  call[t] \in Calls /\ call[t] # Idle /\ call[t].why = why /\ call[t].index \in Nat /\ call[t].cmd \in Writes
<1>1. call[t] \in Calls /\ call[t] # Idle
  BY DEF TypeOK, Blocked, Idle
<1> QED
  BY <1>1 DEF Blocked, Calls

\* The four threads.
LEMMA ThreadNames == "worker" \in Threads /\ "poll" \in Threads /\ "health" \in Threads /\ "cleanup" \in Threads
  BY DEF Threads

-----------------------------------------------------------------------------
(* Which actions change what. *)

\* The rows change by commands only, and then nothing else of the lease does.
LEMMA RowsFrame ==
    ASSUME LeaseInv, [Next]_vars
    PROVE  rows' = rows \/ \E c \in Writes : Append1(c) /\ UNCHANGED <<epochs, tracker>>
<1>1. CASE Work
  <2>1. ASSUME NEW t \in Threads, Commit(t) PROVE \E c \in Writes : Append1(c) /\ UNCHANGED <<epochs, tracker>>
    BY <2>1, CommitKeeps DEF LeaseInv, Commit, bridge
  <2> QED
    BY <1>1, <2>1 DEF Work, ReleaseReturns, ApplyEntry, AcquireGranted, InstallPublisher,
       RejectPublish, RetryRelease, RetryReturns, PruneMarker, SyncOwnership,
       RetryPublisherCheck, DropSuperseded, ReleaseUnclaimed, UnclaimedReturns, LoseQuorum,
       RecoverPublishers, RecoverGranted, GivebackReturns, RecoverConflicts, RecoverFails,
       CleanStale, CleanReturns, cluster
<1>2. CASE Disturb
  <2>1. ASSUME NEW c \in flight, CommitLate(c) PROVE c \in Writes /\ Append1(c) /\ UNCHANGED <<epochs, tracker>>
    BY <2>1 DEF CommitLate, LeaseInv, TypeOK, bridge
  <2>2. CASE OtherAcquires
    BY <2>2, AcquireTyped DEF OtherAcquires, Nodes, bridge
  <2>3. CASE OtherReleases
    <3>1. Row.epoch \in Nat
      BY RowTyped DEF LeaseInv, OwnerRows
    <3> QED
      BY <2>3, <3>1, ReleaseTyped DEF OtherReleases, bridge
  <2>4. CASE SweepCommits \/ SweepRepairs
    <3>1. ReleaseNode(sweep.max) \in Writes
      BY DEF ReleaseNode, Writes, LeaseInv, TypeOK
    <3> QED
      BY <2>4, <3>1 DEF SweepCommits, SweepRepairs, bridge
  <2> QED
    BY <1>2, <2>1, <2>2, <2>3, <2>4 DEF Disturb, FailUnsent, FailDispatched, AuthorizePublish,
       CloseConn, PollReleases, DropAged, SweepStarts, SweepFails, Cut, Heal, Crash, Restart,
       cluster
<1> QED
  BY <1>1, <1>2 DEF Next, vars, cluster

\* The actions that change the epochs of the connections.
LEMMA EpochsFrame ==
    ASSUME [Next]_vars
    PROVE  epochs' = epochs \/ InstallPublisher \/ (\E t \in Threads : ReleaseReturns(t)) \/ RecoverGranted \/ Crash
<1>1. CASE Work
  BY <1>1 DEF Work, Commit, ApplyEntry, AcquireGranted, RejectPublish, RetryRelease,
     RetryReturns, PruneMarker, SyncOwnership, RetryPublisherCheck, DropSuperseded,
     ReleaseUnclaimed, UnclaimedReturns, LoseQuorum, RecoverPublishers, GivebackReturns,
     RecoverConflicts, RecoverFails, CleanStale, CleanReturns, bridge
<1>2. CASE Disturb
  BY <1>2 DEF Disturb, FailUnsent, FailDispatched, AuthorizePublish, CloseConn, PollReleases,
     CommitLate, OtherAcquires, OtherReleases, DropAged, SweepStarts, SweepCommits,
     SweepRepairs, SweepFails, Cut, Heal, Restart, bridge
<1> QED
  BY <1>1, <1>2 DEF Next, vars, bridge

\* The tracker is cleared, given a grant, or read from the database.
LEMMA TrackerFrame ==
    ASSUME [Next]_vars
    PROVE  \/ tracker' = tracker \/ tracker' = Unknown
           \/ AcquireGranted \/ RecoverGranted
           \/ tracker' = View(DbRow) /\ rows' = rows
<1> USE DEF ClearIfReleased, cluster
<1>1. CASE Work
  BY <1>1 DEF Work, Commit, ReleaseReturns, ApplyEntry, InstallPublisher, RejectPublish,
     RetryRelease, RetryReturns, PruneMarker, SyncOwnership, RetryPublisherCheck,
     DropSuperseded, ReleaseUnclaimed, UnclaimedReturns, LoseQuorum, RecoverPublishers,
     GivebackReturns, RecoverConflicts, RecoverFails, CleanStale, CleanReturns
<1>2. CASE Disturb
  BY <1>2 DEF Disturb, FailUnsent, FailDispatched, AuthorizePublish, CloseConn, PollReleases,
     CommitLate, OtherAcquires, OtherReleases, DropAged, SweepStarts, SweepCommits,
     SweepRepairs, SweepFails, Cut, Heal, Crash, Restart
<1> QED
  BY <1>1, <1>2 DEF Next, vars

-----------------------------------------------------------------------------
(* Every step keeps each part. *)

\* The rows only grow.
LEMMA RowsStep ==
    ASSUME LeaseInv, [Next]_vars
    PROVE  /\ RowsInv' /\ Len(rows') \in Nat /\ Len(rows) <= Len(rows')
           /\ \A k \in 1..Len(rows) : rows'[k] = rows[k]
<1>1. CASE rows' = rows
  BY <1>1 DEF LeaseInv, TypeOK, RowsInv, GrantsNamed
<1>2. CASE \E c \in Writes : Append1(c)
  BY <1>2, AppendKeeps DEF LeaseInv
<1> QED
  BY <1>1, <1>2, RowsFrame

\* An epoch of this node stays one.
LEMMA MineStep == ASSUME LeaseInv, [Next]_vars, NEW e, Mine(rows, e) PROVE Mine(rows', e)
<1>1. Len(rows) \in Nat
  BY DEF LeaseInv, TypeOK
<1> QED
  BY <1>1, RowsStep, MineStays

\* A connection is only given epochs that were granted to this node.
LEMMA EpochsStep == ASSUME LeaseInv, [Next]_vars PROVE EpochsOwn' /\ epochs' \in [Conns -> Nat]
<1> USE DEF LeaseInv, EpochsOwn, TypeOK
<1>1. CASE epochs' = epochs
  BY <1>1, MineStep
<1>2. CASE InstallPublisher
  <2> DEFINE w == call["worker"]
  <2>1. w # Idle /\ w.why = "publish" /\ w.index \in Nat
    BY <1>2, BlockedCall, ThreadNames DEF InstallPublisher
  <2>2. w.index \in Nat /\ (w.index # 0 => Mine(rows, w.index))
    BY <2>1, ThreadNames DEF CallsOwn, CallOwn
  <2>3. epochs' = [epochs EXCEPT ![w.conn] = w.index]
    BY <1>2 DEF InstallPublisher
  <2> HIDE DEF w
  <2> QED
    BY <2>2, <2>3, MineStep
<1>3. CASE \E t \in Threads : ReleaseReturns(t)
  <2>1. PICK t \in Threads : epochs' = [epochs EXCEPT ![call[t].conn] = 0]
    BY <1>3 DEF ReleaseReturns
  <2>2. epochs' \in [Conns -> Nat] /\ \A c \in Conns : epochs'[c] # 0 => epochs'[c] = epochs[c]
    BY <2>1
  <2> QED
    BY <2>2, MineStep
<1>4. CASE RecoverGranted
  <2> DEFINE w == call["health"]
  <2>1. w # Idle /\ w.why = "recover" /\ w.index \in Nat /\ w.index # 0
    BY <1>4, BlockedCall, ThreadNames DEF RecoverGranted, GrantTo
  <2>2. w.index \in Nat /\ Mine(rows, w.index)
    BY <2>1, ThreadNames DEF CallsOwn, CallOwn
  <2>3. epochs' = [c \in Conns |-> IF c \in Retagged THEN w.index ELSE epochs[c]]
    BY <1>4 DEF RecoverGranted
  <2> HIDE DEF w
  <2> QED
    BY <2>2, <2>3, MineStep
<1>5. CASE Crash
  <2>1. epochs' = [c \in Conns |-> 0]
    BY <1>5 DEF Crash
  <2> QED
    BY <2>1
<1> QED
  BY <1>1, <1>2, <1>3, <1>4, <1>5, EpochsFrame

\* The tracker is only given leases that were given.
LEMMA TrackerStep ==
    ASSUME LeaseInv, [Next]_vars
    PROVE  TrackerGiven' /\ tracker' \in [node : Nodes \cup {NoNode}, epoch : Nat]
<1> DEFINE Given == \E k \in 1..Len(rows') : rows'[k].node # NoNode /\ tracker' = View(rows'[k])
<1>0. Len(rows) \in Nat /\ Len(rows') \in Nat /\ Len(rows) <= Len(rows') /\ \A k \in 1..Len(rows) : rows'[k] = rows[k]
  BY RowsStep DEF LeaseInv, TypeOK
<1>1. tracker' = Unknown \/ Given
  <2>1. CASE tracker' = tracker
    BY <1>0, <2>1 DEF LeaseInv, TrackerGiven
  <2>2. CASE AcquireGranted
    <3>1. call["worker"] # Idle /\ call["worker"].why = "publish" /\ call["worker"].index # 0
      BY <2>2, BlockedCall, ThreadNames DEF LeaseInv, AcquireGranted, GrantTo
    <3>2. Mine(rows, call["worker"].index) /\ tracker' = View(rows[call["worker"].index])
      BY <2>2, <3>1, ThreadNames DEF LeaseInv, CallsOwn, CallOwn, AcquireGranted
    <3> QED
      BY <1>0, <3>2, OwnershipAssumption DEF Mine
  <2>3. CASE RecoverGranted
    <3>1. call["health"] # Idle /\ call["health"].why = "recover" /\ call["health"].index # 0
      BY <2>3, BlockedCall, ThreadNames DEF LeaseInv, RecoverGranted, GrantTo
    <3>2. Mine(rows, call["health"].index) /\ tracker' = View(rows[call["health"].index])
      BY <2>3, <3>1, ThreadNames DEF LeaseInv, CallsOwn, CallOwn, RecoverGranted
    <3> QED
      BY <1>0, <3>2, OwnershipAssumption DEF Mine
  <2>4. CASE tracker' = View(DbRow)
    <3>1. CASE DbRow = NoOwner
      BY <2>4, <3>1 DEF View, NoOwner, Unknown
    <3>2. CASE DbRow # NoOwner
      <4>1. DbRow.epoch \in 1..Len(rows) /\ DbRow = rows[DbRow.epoch] /\ DbRow.node \in Nodes
        BY <3>2, DbRowGiven DEF LeaseInv
      <4> QED
        BY <1>0, <2>4, <4>1, OwnershipAssumption DEF Nodes
    <3> QED
      BY <3>1, <3>2
  <2> QED
    BY <2>1, <2>2, <2>3, <2>4, TrackerFrame
<1>2. tracker' \in [node : Nodes \cup {NoNode}, epoch : Nat]
  <2>1. \A k \in 1..Len(rows') : rows'[k] \in OwnerRows
    BY RowsStep, ElementOfSeq DEF RowsInv
  <2> QED
    BY <1>1, <2>1 DEF Unknown, View, OwnerRows
<1> QED
  BY <1>1, <1>2 DEF TrackerGiven

-----------------------------------------------------------------------------
(* The calls: one step per action that starts, ends or answers one.        *)

\* The actions that change a call.
LEMMA CallFrame ==
    ASSUME [Next]_vars
    PROVE  \/ UNCHANGED call
           \/ \E t \in Threads : Commit(t) \/ ReleaseReturns(t) \/ FailUnsent(t) \/ FailDispatched(t)
           \/ \E c \in Conns : AuthorizePublish(c) \/ CloseConn(c) \/ PollReleases(c)
           \/ AcquireGranted \/ InstallPublisher \/ RejectPublish \/ RetryRelease \/ RetryReturns
           \/ SyncOwnership("poll") \/ SyncOwnership("health") \/ RetryPublisherCheck
           \/ ReleaseUnclaimed \/ UnclaimedReturns \/ RecoverPublishers \/ RecoverGranted
           \/ GivebackReturns \/ RecoverConflicts \/ RecoverFails \/ CleanStale \/ CleanReturns \/ Crash
<1>1. CASE Work
  BY <1>1 DEF Work, ApplyEntry, PruneMarker, DropSuperseded, LoseQuorum, cluster
<1>2. CASE Disturb
  BY <1>2 DEF Disturb, CommitLate, OtherAcquires, OtherReleases, DropAged, SweepStarts,
     SweepCommits, SweepRepairs, SweepFails, Cut, Heal, Restart, cluster
<1> QED
  BY <1>1, <1>2 DEF Next, vars, cluster

\* Every call stays the one its thread's step calls for.
LEMMA CallStep == ASSUME LeaseInv, [Next]_vars PROVE CallInv'
<1> USE DEF LeaseInv
<1>0. TypeOK /\ CallsOwn /\ GrantsNamed
  OBVIOUS
<1>1. CASE UNCHANGED call
  BY <1>0, <1>1, RowsStep, CallsStay
<1>2. ASSUME NEW t \in Threads, Commit(t) PROVE CallInv'
  BY <1>2, CommitKeeps
<1>3. ASSUME NEW t \in Threads, ReleaseReturns(t) PROVE CallInv'
  BY <1>3, ResumeKeeps DEF ReleaseReturns, cluster
<1>4. ASSUME NEW t \in Threads, FailUnsent(t) \/ FailDispatched(t) PROVE CallInv'
  <2>1. \E st \in {"granted", "unsent", "failed"} : call' = [call EXCEPT ![t].st = st]
    BY <1>4 DEF FailUnsent, FailDispatched
  <2>2. call[t].st # "idle" /\ UNCHANGED rows
    BY <1>4 DEF FailUnsent, FailDispatched, cluster
  <2> QED
    BY <1>0, <2>1, <2>2, OutcomeKeeps
<1>5. ASSUME NEW c \in Conns, AuthorizePublish(c) PROVE CallInv'
  <2>1. Dispatch("worker", "publish", c, Acquire(Me, tries + 1)) /\ UNCHANGED rows
    BY <1>5 DEF AuthorizePublish, cluster
  <2>2. tries + 1 \in Nat /\ Me \in Nodes
    BY DEF TypeOK, Nodes
  <2> QED
    BY <1>0, <2>1, <2>2, AcquireTyped, DispatchKeeps, ThreadNames
<1>6. ASSUME NEW c \in Conns, CloseConn(c) PROVE CallInv'
  <2>1. UNCHANGED rows
    BY <1>6 DEF CloseConn, cluster
  <2>2. CASE epochs[c] = 0
    BY <1>1, <1>6, <2>2 DEF CloseConn
  <2>3. CASE epochs[c] # 0
    <3>1. Dispatch("worker", "release", c, Release(epochs[c])) /\ epochs[c] \in Nat
      BY <1>6, <2>3 DEF CloseConn, TypeOK
    <3> QED
      BY <1>0, <2>1, <3>1, ReleaseTyped, DispatchKeeps, ThreadNames
  <2> QED
    BY <2>2, <2>3
<1>7. ASSUME NEW c \in Conns, PollReleases(c) PROVE CallInv'
  <2>1. UNCHANGED rows
    BY <1>7 DEF PollReleases, cluster
  <2>2. CASE epochs[c] = 0
    BY <1>1, <1>7, <2>2 DEF PollReleases
  <2>3. CASE epochs[c] # 0
    BY <1>0, <1>7, <2>1, <2>3, ReleasePublisherKeeps, ThreadNames DEF PollReleases
  <2> QED
    BY <2>2, <2>3
<1>8. CASE AcquireGranted
  BY <1>0, <1>8, OutcomeKeeps, ThreadNames DEF AcquireGranted, Blocked, cluster
<1>9. CASE InstallPublisher \/ RejectPublish
  BY <1>0, <1>9, ResumeKeeps, ThreadNames DEF InstallPublisher, RejectPublish, cluster
<1>10. CASE RetryRelease
  <2>1. PICK e \in pending : Dispatch("poll", "again", NoConn, Release(e))
    BY <1>10 DEF RetryRelease
  <2>2. e \in Nat /\ UNCHANGED rows
    BY <1>10 DEF TypeOK, RetryRelease, cluster
  <2> QED
    BY <1>0, <2>1, <2>2, ReleaseTyped, DispatchKeeps, ThreadNames
<1>11. CASE RetryReturns \/ UnclaimedReturns \/ GivebackReturns \/ RecoverFails \/ CleanReturns
  <2>1. UNCHANGED rows /\ \E t \in Threads : Resume(t)
    BY <1>11, ThreadNames DEF RetryReturns, UnclaimedReturns, GivebackReturns, RecoverFails,
       CleanReturns, cluster
  <2> QED
    BY <1>0, <2>1, ResumeKeeps
<1>12. CASE SyncOwnership("poll") \/ SyncOwnership("health") \/ RetryPublisherCheck \/ RecoverConflicts
  <2>1. UNCHANGED rows /\ (UNCHANGED call \/ \E t \in Threads : Kick(t))
    BY <1>12, ThreadNames DEF SyncOwnership, RetryPublisherCheck, RecoverConflicts, cluster
  <2> QED
    BY <1>0, <1>1, <2>1, KickKeeps
<1>13. CASE ReleaseUnclaimed
  <2>1. Dispatch("health", "unclaimed", NoConn, Release(DbRow.epoch)) /\ UNCHANGED rows /\ DbRow.node = Me
    BY <1>13 DEF ReleaseUnclaimed, cluster
  <2>2. DbRow.epoch \in Nat /\ Mine(rows, DbRow.epoch)
    <3>1. DbRow # NoOwner
      BY <2>1, OwnershipAssumption DEF NoOwner
    <3> QED
      BY <1>0, <2>1, <3>1, DbRowGiven, RowTyped DEF Mine, OwnerRows
  <2> QED
    BY <1>0, <2>1, <2>2, ReleaseTyped, DispatchKeeps, ThreadNames
<1>14. CASE RecoverPublishers
  <2>1. UNCHANGED rows /\ (UNCHANGED call \/ Dispatch("health", "recover", NoConn, Acquire(Me, tries + 1)))
    BY <1>14 DEF RecoverPublishers, cluster
  <2>2. tries + 1 \in Nat /\ Me \in Nodes
    BY DEF TypeOK, Nodes
  <2> QED
    BY <1>0, <1>1, <2>1, <2>2, AcquireTyped, DispatchKeeps, ThreadNames
<1>15. CASE RecoverGranted
  <2> DEFINE e == call["health"].index
  <2>1. UNCHANGED rows /\ (Resume("health") \/ Dispatch("health", "giveback", NoConn, Release(e)))
    BY <1>15 DEF RecoverGranted, cluster
  <2>2. e \in Nat
    BY <1>0, <1>15, BlockedCall, ThreadNames DEF RecoverGranted
  <2> HIDE DEF e
  <2> QED
    BY <1>0, <2>1, <2>2, ReleaseTyped, DispatchKeeps, ResumeKeeps, ThreadNames
<1>16. CASE CleanStale
  <2>1. PICK e \in stale : Dispatch("cleanup", "stale", NoConn, Release(e))
    BY <1>16 DEF CleanStale
  <2>2. e \in Nat /\ UNCHANGED rows
    BY <1>16 DEF TypeOK, CleanStale, cluster
  <2> QED
    BY <1>0, <2>1, <2>2, ReleaseTyped, DispatchKeeps, ThreadNames
<1>17. CASE Crash
  <2>1. call' = [t \in Threads |-> Idle]
    BY <1>17 DEF Crash
  <2> QED
    BY <2>1 DEF CallInv, CallsOwn
<1> QED
  BY <1>1, <1>2, <1>3, <1>4, <1>5, <1>6, <1>7, <1>8, <1>9, <1>10, <1>11, <1>12, <1>13, <1>14,
     <1>15, <1>16, <1>17, CallFrame

-----------------------------------------------------------------------------
(* The other variables keep their types.                                   *)

\* The actions that change the writes in flight or the database.
LEMMA FlightFrame ==
    ASSUME [Next]_vars
    PROVE  \/ UNCHANGED <<flight, applied>>
           \/ ApplyEntry \/ SweepFails \/ Crash
           \/ (\E t \in Threads : FailDispatched(t)) \/ \E c \in flight : CommitLate(c)
<1>1. CASE Work
  BY <1>1 DEF Work, Commit, ReleaseReturns, AcquireGranted, InstallPublisher, RejectPublish,
     RetryRelease, RetryReturns, PruneMarker, SyncOwnership, RetryPublisherCheck,
     DropSuperseded, ReleaseUnclaimed, UnclaimedReturns, LoseQuorum, RecoverPublishers,
     RecoverGranted, GivebackReturns, RecoverConflicts, RecoverFails, CleanStale, CleanReturns,
     cluster
<1>2. CASE Disturb
  BY <1>2 DEF Disturb, FailUnsent, AuthorizePublish, CloseConn, PollReleases, OtherAcquires,
     OtherReleases, DropAged, SweepStarts, SweepCommits, SweepRepairs, Cut, Heal, Restart, cluster
<1> QED
  BY <1>1, <1>2 DEF Next, vars, cluster

\* The writes in flight are commands, and the database is no further than the log.
LEMMA FlightStep ==
    ASSUME LeaseInv, [Next]_vars
    PROVE  flight' \subseteq Writes /\ applied' \in Nat /\ applied' <= Len(rows')
<1> USE DEF LeaseInv
<1>0. /\ flight \subseteq Writes /\ applied \in Nat /\ applied <= Len(rows)
      /\ Len(rows) \in Nat /\ Len(rows') \in Nat /\ Len(rows) <= Len(rows')
  BY RowsStep DEF TypeOK
<1>1. CASE UNCHANGED <<flight, applied>>
  BY <1>0, <1>1
<1>2. CASE ApplyEntry
  BY <1>0, <1>2 DEF ApplyEntry
<1>3. CASE SweepFails
  <2>1. ReleaseNode(sweep.max) \in Writes
    BY DEF ReleaseNode, Writes, TypeOK
  <2>2. flight' \subseteq flight \cup {ReleaseNode(sweep.max)} /\ UNCHANGED applied
    BY <1>3 DEF SweepFails
  <2> QED
    BY <1>0, <2>1, <2>2
<1>4. CASE Crash
  <2>1. \A t \in Threads : call[t].st = "sent" => call[t].cmd \in Writes
    <3>1. \A t \in Threads : call[t].st = "sent" => call[t] \in Calls
      BY DEF TypeOK, Idle
    <3> QED
      BY <3>1 DEF Calls
  <2>2. flight' \subseteq flight \cup {call[t].cmd : t \in {x \in Threads : call[x].st = "sent"}} /\ UNCHANGED applied
    BY <1>4 DEF Crash
  <2> QED
    BY <1>0, <2>1, <2>2
<1>5. ASSUME NEW t \in Threads, FailDispatched(t) PROVE flight' \subseteq Writes /\ UNCHANGED applied
  <2>1. call[t] \in Calls
    BY <1>5 DEF FailDispatched, TypeOK, Idle
  <2>2. call[t].cmd \in Writes
    BY <2>1 DEF Calls
  <2> QED
    BY <1>0, <1>5, <2>2 DEF FailDispatched
<1>6. ASSUME NEW c \in flight, CommitLate(c) PROVE flight' \subseteq Writes /\ UNCHANGED applied
  BY <1>0, <1>6 DEF CommitLate
<1> QED
  BY <1>0, <1>1, <1>2, <1>3, <1>4, <1>5, <1>6, FlightFrame

\* The actions that change the sessions of the bridge or the markers.
LEMMA BridgeFrame ==
    ASSUME [Next]_vars
    PROVE  \/ UNCHANGED <<role, session, row, marked, recheck>>
           \/ InstallPublisher \/ RejectPublish \/ PruneMarker \/ RetryPublisherCheck \/ RecoverConflicts \/ Crash
           \/ SyncOwnership("poll") \/ SyncOwnership("health")
           \/ (\E t \in Threads : ReleaseReturns(t))
           \/ \E c \in Conns : AuthorizePublish(c) \/ CloseConn(c) \/ PollReleases(c)
<1>1. CASE Work
  BY <1>1 DEF Work, Commit, ApplyEntry, AcquireGranted, RetryRelease, RetryReturns,
     DropSuperseded, ReleaseUnclaimed, UnclaimedReturns, LoseQuorum, RecoverPublishers,
     RecoverGranted, GivebackReturns, RecoverFails, CleanStale, CleanReturns, bridge, marks
<1>2. CASE Disturb
  BY <1>2 DEF Disturb, FailUnsent, FailDispatched, CommitLate, OtherAcquires, OtherReleases,
     DropAged, SweepStarts, SweepCommits, SweepRepairs, SweepFails, Cut, Heal, Restart, bridge,
     marks
<1> QED
  BY <1>1, <1>2 DEF Next, vars, bridge, marks

\* The types of the bridge and of the markers.
BridgeTypes ==
    /\ role \in [Conns -> {"idle", "live", "closed"}]
    /\ session \in [Conns -> Nat]
    /\ row \in [Conns -> BOOLEAN]
    /\ marked \in BOOLEAN /\ recheck \in BOOLEAN

\* Sessions, rows and markers keep their types.
LEMMA BridgeStep == ASSUME LeaseInv, [Next]_vars PROVE BridgeTypes'
<1> USE DEF LeaseInv, BridgeTypes
<1>0. BridgeTypes /\ TypeOK /\ CallsOwn
  BY DEF TypeOK
<1>1. CASE UNCHANGED <<role, session, row, marked, recheck>>
  BY <1>0, <1>1
<1>2. CASE InstallPublisher
  <2> DEFINE c == call["worker"].conn
  <2>1. /\ role' = [role EXCEPT ![c] = "live"] /\ session' = [session EXCEPT ![c] = @ + 1]
        /\ UNCHANGED <<row, marked, recheck>>
    BY <1>2 DEF InstallPublisher, marks
  <2> HIDE DEF c
  <2>2. role' \in [Conns -> {"idle", "live", "closed"}]
    BY <1>0, <2>1
  <2>3. session' \in [Conns -> Nat]
    <3>1. session \in [Conns -> Nat] /\ session' = [session EXCEPT ![c] = session[c] + 1]
      BY <1>0, <2>1
    <3>2. \A d \in Conns : session'[d] \in Nat
      BY <3>1
    <3> QED
      BY <3>1, <3>2
  <2> QED
    BY <1>0, <2>1, <2>2, <2>3
<1>3. CASE RejectPublish
  <2>1. call["worker"] \in Calls
    BY <1>0, <1>3, BlockedCall, ThreadNames DEF RejectPublish
  <2>2. call["worker"].held \in BOOLEAN
    BY <2>1 DEF Calls
  <2> QED
    BY <1>0, <1>3, <2>2 DEF RejectPublish, marks
<1>4. CASE PruneMarker
  BY <1>0, <1>4 DEF PruneMarker, bridge
<1>5. CASE RetryPublisherCheck
  <2>1. UNCHANGED rows /\ session' = session /\ recheck' = FALSE
    BY <1>5 DEF RetryPublisherCheck, cluster
  <2>2. Kick("health") \/ UNCHANGED <<role, row, marked>>
    BY <1>5 DEF RetryPublisherCheck
  <2> QED
    BY <1>0, <2>1, <2>2, KickKeeps, ThreadNames
<1>6. CASE RecoverConflicts
  BY <1>0, <1>6, KickKeeps, ThreadNames DEF RecoverConflicts, cluster
<1>7. CASE Crash
  BY <1>0, <1>7 DEF Crash
<1>8. ASSUME NEW t \in {"poll", "health"}, SyncOwnership(t) PROVE BridgeTypes'
  <2>1. UNCHANGED rows /\ session' = session
    BY <1>8 DEF SyncOwnership, cluster
  <2>2. (Kick(t) /\ UNCHANGED recheck) \/ (UNCHANGED <<role, row, marked>> /\ recheck' \in {recheck, TRUE})
    BY <1>8 DEF SyncOwnership
  <2> QED
    BY <1>0, <2>1, <2>2, KickKeeps, ThreadNames
<1>9. ASSUME NEW t \in Threads, ReleaseReturns(t) PROVE BridgeTypes'
  <2>1. role' = ClearedRole(call[t]) /\ UNCHANGED <<session, row, recheck>> /\ marked' \in BOOLEAN
    BY <1>9 DEF ReleaseReturns
  <2> QED
    BY <1>0, <2>1 DEF ClearedRole
<1>10. ASSUME NEW c \in Conns, AuthorizePublish(c) PROVE BridgeTypes'
  BY <1>0, <1>10 DEF AuthorizePublish, marks
<1>11. ASSUME NEW c \in Conns, CloseConn(c) PROVE BridgeTypes'
  BY <1>0, <1>11 DEF CloseConn, marks
<1>12. ASSUME NEW c \in Conns, PollReleases(c) PROVE BridgeTypes'
  BY <1>0, <1>12 DEF PollReleases, ReleasePublisher, marks
<1> QED
  BY <1>1, <1>2, <1>3, <1>4, <1>5, <1>6, <1>7, <1>8, <1>9, <1>10, <1>11, <1>12, BridgeFrame

\* The types of the health of the node and of the sweep.
HealthTypes ==
    /\ up \in BOOLEAN /\ cut \in BOOLEAN /\ retry \in BOOLEAN
    /\ local \in {"ready", "isolated"}
    /\ sweep \in [st : {"idle", "sent", "repair", "released"}, max : Nat]

\* The actions that change the health of the node.
LEMMA HealthFrame ==
    ASSUME [Next]_vars
    PROVE  \/ UNCHANGED health
           \/ LoseQuorum \/ RecoverPublishers \/ RecoverGranted \/ GivebackReturns \/ RecoverConflicts \/ RecoverFails
           \/ SweepStarts \/ SweepCommits \/ SweepRepairs \/ SweepFails \/ Cut \/ Heal \/ Crash \/ Restart
<1>1. CASE Work
  BY <1>1 DEF Work, Commit, ReleaseReturns, ApplyEntry, AcquireGranted, InstallPublisher,
     RejectPublish, RetryRelease, RetryReturns, PruneMarker, SyncOwnership, RetryPublisherCheck,
     DropSuperseded, ReleaseUnclaimed, UnclaimedReturns, CleanStale, CleanReturns, health
<1>2. CASE Disturb
  BY <1>2 DEF Disturb, FailUnsent, FailDispatched, AuthorizePublish, CloseConn, PollReleases,
     CommitLate, OtherAcquires, OtherReleases, DropAged, health
<1> QED
  BY <1>1, <1>2 DEF Next, vars, health

\* The health of the node and the sweep keep their types.
LEMMA HealthStep == ASSUME LeaseInv, [Next]_vars PROVE HealthTypes'
<1> USE DEF LeaseInv, HealthTypes
<1>0. HealthTypes /\ TypeOK /\ Len(rows) \in Nat
  BY DEF TypeOK
<1>1. CASE UNCHANGED health
  BY <1>0, <1>1 DEF health
<1>2. CASE LoseQuorum \/ GivebackReturns \/ RecoverConflicts \/ RecoverFails \/ RecoverGranted
  <2>1. UNCHANGED <<up, cut, sweep>> /\ local' \in {local, "isolated"}
    BY <1>2 DEF LoseQuorum, GivebackReturns, RecoverConflicts, RecoverFails, RecoverGranted
  <2>2. Failed("health") \in BOOLEAN
    BY DEF Failed
  <2>3. retry' \in {retry, TRUE, FALSE, Failed("health")}
    BY <1>2 DEF LoseQuorum, GivebackReturns, RecoverConflicts, RecoverFails, RecoverGranted
  <2>4. retry' \in BOOLEAN
    BY <1>0, <2>2, <2>3
  <2> QED
    BY <1>0, <2>1, <2>4
<1>3. CASE RecoverPublishers
  <2>1. retry' = retry \/ retry' = (Publishing /\ ambiguous # {})
    BY <1>3 DEF RecoverPublishers
  <2>2. (Publishing /\ ambiguous # {}) \in BOOLEAN
    OBVIOUS
  <2>3. retry' \in BOOLEAN
    BY <1>0, <2>1, <2>2
  <2>4. UNCHANGED <<up, cut, sweep>> /\ local' = "ready"
    BY <1>3 DEF RecoverPublishers
  <2> QED
    BY <1>0, <2>3, <2>4
<1>4. CASE SweepStarts
  <2>1. \A k \in DOMAIN rows : rows[k].epoch \in Nat
    <3>1. DOMAIN rows = 1..Len(rows)
      BY LenProperties DEF TypeOK
    <3>2. \A k \in DOMAIN rows : rows[k] \in OwnerRows
      BY <1>0, <3>1, ElementOfSeq DEF TypeOK
    <3> QED
      BY <3>2 DEF OwnerRows
  <2>2. \E max \in Nat : sweep' = [st |-> "sent", max |-> max]
    BY <1>0, <1>4, <2>1 DEF SweepStarts
  <2> QED
    BY <1>0, <1>4, <2>2 DEF SweepStarts
<1>5. CASE SweepCommits \/ SweepRepairs \/ SweepFails
  BY <1>0, <1>5 DEF SweepCommits, SweepRepairs, SweepFails, Swept, NoSweep
<1>6. CASE Cut \/ Crash
  BY <1>0, <1>6 DEF Cut, Crash
<1>7. CASE Heal \/ Restart
  <2>1. sweep' \in {sweep, NoSweep} /\ UNCHANGED retry
    BY <1>7 DEF Heal, Restart
  <2>2. up' \in {up, TRUE} /\ cut' \in {cut, FALSE} /\ local' \in {local, "ready"}
    BY <1>7 DEF Heal, Restart
  <2>3. sweep' \in [st : {"idle", "sent", "repair", "released"}, max : Nat]
    BY <1>0, <2>1 DEF NoSweep
  <2>4. up' \in BOOLEAN /\ cut' \in BOOLEAN /\ retry' \in BOOLEAN
    BY <1>0, <2>1, <2>2
  <2> QED
    BY <1>0, <2>2, <2>3, <2>4
<1> QED
  BY <1>1, <1>2, <1>3, <1>4, <1>5, <1>6, <1>7, HealthFrame

\* The types of the queues.
QueueTypes == ambiguous \subseteq Nat /\ pending \subseteq Nat /\ stale \subseteq Nat

\* The actions that change a queue.
LEMMA QueueFrame ==
    ASSUME [Next]_vars
    PROVE  \/ UNCHANGED queues
           \/ (\E t \in Threads : ReleaseReturns(t)) \/ RejectPublish \/ RecoverFails
           \/ RetryRelease \/ RetryReturns \/ DropSuperseded \/ DropAged \/ ReleaseUnclaimed
           \/ UnclaimedReturns \/ CleanReturns \/ Crash \/ Restart
<1>1. CASE Work
  BY <1>1 DEF Work, Commit, ApplyEntry, AcquireGranted, InstallPublisher, PruneMarker,
     SyncOwnership, RetryPublisherCheck, LoseQuorum, RecoverPublishers, RecoverGranted,
     GivebackReturns, RecoverConflicts, CleanStale, queues
<1>2. CASE Disturb
  BY <1>2 DEF Disturb, FailUnsent, FailDispatched, AuthorizePublish, CloseConn, PollReleases,
     CommitLate, OtherAcquires, OtherReleases, SweepStarts, SweepCommits, SweepRepairs,
     SweepFails, Cut, Heal, queues
<1> QED
  BY <1>1, <1>2 DEF Next, vars, queues

\* The queues hold epochs and times.
LEMMA QueueStep == ASSUME LeaseInv, [Next]_vars PROVE QueueTypes'
<1> USE DEF LeaseInv, QueueTypes
<1>0. QueueTypes /\ TypeOK /\ CallsOwn
  BY DEF TypeOK
<1>1. CASE UNCHANGED queues
  BY <1>0, <1>1 DEF queues
<1>2. ASSUME NEW t \in Threads, NEW why, Blocked(t, why), why \notin {"publish", "recover"}
      PROVE  call[t].cmd.epoch \in Nat
  <2>1. call[t].cmd \in Writes /\ call[t] # Idle /\ call[t].why = why
    BY <1>0, <1>2, BlockedCall
  <2>2. call[t].cmd.op = "release"
    BY <1>0, <1>2, <2>1 DEF CallsOwn, CallOwn
  <2> QED
    BY <2>1, <2>2 DEF Writes
<1>3. ASSUME NEW t \in Threads, ReleaseReturns(t) PROVE QueueTypes'
  <2>1. call[t].cmd.epoch \in Nat
    BY <1>2, <1>3 DEF ReleaseReturns
  <2> QED
    BY <1>0, <1>3, <2>1 DEF ReleaseReturns, KeepRelease
<1>4. ASSUME NEW t \in Threads, NEW why \in {"publish", "recover"}, Blocked(t, why) PROVE call[t].cmd.at \in Nat
  <2>1. call[t].cmd \in Writes /\ call[t] # Idle /\ call[t].why = why
    BY <1>0, <1>4, BlockedCall
  <2>2. call[t].cmd.op = "acquire"
    BY <1>0, <1>4, <2>1 DEF CallsOwn, CallOwn
  <2> QED
    BY <2>1, <2>2 DEF Writes
<1>5. CASE RejectPublish
  <2>1. call["worker"].cmd.at \in Nat
    BY <1>4, <1>5, ThreadNames DEF RejectPublish
  <2> QED
    BY <1>0, <1>5, <2>1 DEF RejectPublish, QueueAmbiguous
<1>6. CASE RecoverFails
  <2>1. call["health"].cmd.at \in Nat
    BY <1>4, <1>6, ThreadNames DEF RecoverFails
  <2> QED
    BY <1>0, <1>6, <2>1 DEF RecoverFails, QueueAmbiguous
<1>7. CASE RetryRelease
  BY <1>0, <1>7 DEF RetryRelease
<1>8. CASE RetryReturns
  <2>1. call["poll"].cmd.epoch \in Nat
    BY <1>2, <1>8, ThreadNames DEF RetryReturns
  <2> QED
    BY <1>0, <1>8, <2>1 DEF RetryReturns, KeepRelease
<1>9. CASE DropSuperseded \/ DropAged \/ ReleaseUnclaimed
  BY <1>0, <1>9 DEF DropSuperseded, DropAged, ReleaseUnclaimed
<1>10. CASE UnclaimedReturns
  <2>1. call["health"] # Idle /\ call["health"].why = "unclaimed"
    BY <1>0, <1>10, BlockedCall, ThreadNames DEF UnclaimedReturns
  <2>2. Mine(rows, call["health"].cmd.epoch)
    BY <1>0, <2>1, ThreadNames DEF CallsOwn, CallOwn
  <2>3. rows[call["health"].cmd.epoch] \in OwnerRows
    BY <1>0, <2>2, ElementOfSeq DEF Mine, TypeOK
  <2>4. rows[call["health"].cmd.epoch].at \in Nat
    BY <2>3 DEF OwnerRows
  <2> QED
    BY <1>0, <1>10, <2>4 DEF UnclaimedReturns
<1>11. CASE CleanReturns
  BY <1>0, <1>11 DEF CleanReturns
<1>12. CASE Crash
  BY <1>12 DEF Crash
<1>13. CASE Restart
  BY <1>0, <1>13, RowTyped DEF Restart, LeftOver, OwnerRows
<1> QED
  BY <1>1, <1>3, <1>5, <1>6, <1>7, <1>8, <1>9, <1>10, <1>11, <1>12, <1>13, QueueFrame

\* The bounds count up.
LEMMA CountStep ==
    ASSUME LeaseInv, [Next]_vars
    PROVE  tries' \in Nat /\ others' \in Nat /\ fails' \in Nat /\ shocks' \in Nat
<1>0. tries \in Nat /\ others \in Nat /\ fails \in Nat /\ shocks \in Nat
  BY DEF LeaseInv, TypeOK
<1>1. /\ tries' \in {tries, tries + 1} /\ others' \in {others, others + 1}
      /\ fails' \in {fails, fails + 1} /\ shocks' \in {shocks, shocks + 1}
  <2>1. CASE Work
    BY <2>1 DEF Work, Commit, ReleaseReturns, ApplyEntry, AcquireGranted, InstallPublisher,
       RejectPublish, RetryRelease, RetryReturns, PruneMarker, SyncOwnership,
       RetryPublisherCheck, DropSuperseded, ReleaseUnclaimed, UnclaimedReturns, LoseQuorum,
       RecoverPublishers, RecoverGranted, GivebackReturns, RecoverConflicts, RecoverFails,
       CleanStale, CleanReturns, Fault, counts
  <2>2. CASE Disturb
    BY <2>2 DEF Disturb, FailUnsent, FailDispatched, AuthorizePublish, CloseConn, PollReleases,
       CommitLate, OtherAcquires, OtherReleases, DropAged, SweepStarts, SweepCommits,
       SweepRepairs, SweepFails, Cut, Heal, Crash, Restart, Fault, Shock, counts
  <2> QED
    BY <2>1, <2>2 DEF Next, vars, counts
<1> QED
  BY <1>0, <1>1

-----------------------------------------------------------------------------
\* Every step keeps the inductive invariant.
LEMMA LeaseStep == ASSUME LeaseInv, [Next]_vars PROVE LeaseInv'
<1>1. RowsInv' /\ CallInv' /\ BridgeTypes' /\ HealthTypes' /\ QueueTypes'
  BY RowsStep, CallStep, BridgeStep, HealthStep, QueueStep
<1>2. EpochsOwn' /\ epochs' \in [Conns -> Nat]
  BY EpochsStep
<1>3. TrackerGiven' /\ tracker' \in [node : Nodes \cup {NoNode}, epoch : Nat]
  BY TrackerStep
<1>4. flight' \subseteq Writes /\ applied' \in Nat /\ applied' <= Len(rows')
  BY FlightStep
<1>5. tries' \in Nat /\ others' \in Nat /\ fails' \in Nat /\ shocks' \in Nat
  BY CountStep
<1>6. TypeOK'
  BY <1>1, <1>2, <1>3, <1>4, <1>5 DEF TypeOK, RowsInv, CallInv, BridgeTypes, HealthTypes,
     QueueTypes
<1> QED
  BY <1>1, <1>2, <1>3, <1>6 DEF LeaseInv, RowsInv, CallInv

\* The invariant holds initially.
LEMMA LeaseStart == ASSUME Init PROVE LeaseInv
<1>1. rows \in Seq(OwnerRows) /\ Len(rows) = 0
  BY DEF Init
<1>2. tracker \in [node : Nodes \cup {NoNode}, epoch : Nat] /\ TrackerGiven
  BY DEF Init, Unknown, TrackerGiven
<1>3. call \in [Threads -> Calls \cup {Idle}] /\ CallsOwn
  BY DEF Init, CallsOwn
<1>4. epochs \in [Conns -> Nat] /\ EpochsOwn
  BY DEF Init, EpochsOwn
<1>5. sweep \in [st : {"idle", "sent", "repair", "released"}, max : Nat]
  BY DEF Init, NoSweep
<1>6. GrantsNamed
  BY <1>1 DEF GrantsNamed
<1>7. TypeOK
  <2>1. flight \subseteq Writes /\ applied \in Nat /\ applied <= Len(rows)
    BY <1>1 DEF Init
  <2>2. up \in BOOLEAN /\ cut \in BOOLEAN /\ retry \in BOOLEAN /\ local \in {"ready", "isolated"}
    BY DEF Init
  <2>3. role \in [Conns -> {"idle", "live", "closed"}] /\ session \in [Conns -> Nat]
    BY DEF Init
  <2>4. row \in [Conns -> BOOLEAN] /\ marked \in BOOLEAN /\ recheck \in BOOLEAN
    BY DEF Init
  <2>5. ambiguous \subseteq Nat /\ pending \subseteq Nat /\ stale \subseteq Nat
    BY DEF Init
  <2>6. tries \in Nat /\ others \in Nat /\ fails \in Nat /\ shocks \in Nat
    BY DEF Init
  <2> QED
    BY <1>1, <1>2, <1>3, <1>4, <1>5, <2>1, <2>2, <2>3, <2>4, <2>5, <2>6 DEF TypeOK
<1> QED
  BY <1>2, <1>3, <1>4, <1>6, <1>7 DEF LeaseInv

\* The inductive invariant holds in every reachable state: owner rows name the
\* entry that granted them, every epoch a connection, a call or the tracker
\* holds was granted, and the writes of a thread are the ones its step calls for.
THEOREM OwnershipInvariant == Spec => []LeaseInv
<1>1. Init => LeaseInv
  BY LeaseStart
<1>2. LeaseInv /\ [Next]_vars => LeaseInv'
  BY LeaseStep
<1> QED
  BY <1>1, <1>2, PTL DEF Spec

\* Type correctness, for any set of connections and any bounds.
THEOREM OwnershipTypes == Spec => []TypeOK
<1>1. LeaseInv => TypeOK
  BY DEF LeaseInv
<1> QED
  BY <1>1, OwnershipInvariant, PTL

-----------------------------------------------------------------------------
(* The refinement. *)

\* What StreamLease sees of the rows: the leases that were given.
GivenIn(rs) == {View(rs[k]) : k \in {j \in DOMAIN rs : rs[j].epoch = j}}

\* An epoch of this node is a lease that was given to it.
LEMMA MineGiven ==
    ASSUME LeaseInv, NEW e, Mine(rows, e)
    PROVE  e \in {g.epoch : g \in {x \in GivenIn(rows) : x.node = Me}}
<1>1. e \in 1..Len(rows) /\ rows[e].node = Me /\ DOMAIN rows = 1..Len(rows)
  BY LenProperties DEF Mine, LeaseInv, TypeOK
<1>2. rows[e].epoch = e
  BY <1>1, OwnershipAssumption DEF LeaseInv, GrantsNamed, NoOwner
<1>3. View(rows[e]) \in GivenIn(rows) /\ View(rows[e]).node = Me /\ View(rows[e]).epoch = e
  BY <1>1, <1>2 DEF GivenIn, View
<1> QED
  BY <1>3

\* The tracker holds a lease that was given, or none.
LEMMA TrackerInGiven == ASSUME LeaseInv PROVE tracker \in GivenIn(rows) \cup {Lease!Free}
<1>1. CASE tracker = Unknown
  BY <1>1 DEF Unknown, Lease!Free
<1>2. CASE \E k \in 1..Len(rows) : rows[k].node # NoNode /\ tracker = View(rows[k])
  <2>1. PICK k \in 1..Len(rows) : rows[k].node # NoNode /\ tracker = View(rows[k])
    BY <1>2
  <2>2. rows[k].epoch = k /\ DOMAIN rows = 1..Len(rows)
    BY <2>1, LenProperties DEF LeaseInv, TypeOK, GrantsNamed, NoOwner
  <2> QED
    BY <2>1, <2>2 DEF GivenIn
<1> QED
  BY <1>1, <1>2 DEF LeaseInv, TrackerGiven

\* Publishers stamp epochs that were given to this node.
LEMMA StampsInGiven ==
    ASSUME LeaseInv
    PROVE  {epochs[c] : c \in Conns} \ {0} \subseteq {g.epoch : g \in {x \in GivenIn(rows) : x.node = Me}}
<1> SUFFICES ASSUME NEW c \in Conns, epochs[c] # 0
             PROVE  epochs[c] \in {g.epoch : g \in {x \in GivenIn(rows) : x.node = Me}}
  OBVIOUS
<1>1. Mine(rows, epochs[c])
  BY DEF LeaseInv, EpochsOwn
<1> QED
  BY <1>1, MineGiven

\* A step that commits nothing is a step of the media path.
LEMMA FollowStep == ASSUME LeaseInv, LeaseInv', rows' = rows PROVE Lease!Follow
<1>1. tracker' \in GivenIn(rows') \cup {Lease!Free}
  <2>1. LeaseInv' => (tracker \in GivenIn(rows) \cup {Lease!Free})'
    BY TrackerInGiven, PTL
  <2> QED
    BY <2>1 DEF Lease!Free, GivenIn, View
<1>2. {epochs'[c] : c \in Conns} \ {0} \subseteq {g.epoch : g \in {x \in GivenIn(rows') : x.node = Me}}
  <2>1. LeaseInv' => ({epochs[c] : c \in Conns} \ {0} \subseteq {g.epoch : g \in {x \in GivenIn(rows) : x.node = Me}})'
    BY StampsInGiven, PTL
  <2> QED
    BY <2>1 DEF GivenIn, View
<1>3. View(Row)' = View(Row)
  BY DEF View, Row
<1> QED
  BY <1>1, <1>2, <1>3 DEF Lease!Follow, Lease!Free, GivenIn, View

\* A commit is a grant, a release, or changes nothing.
LEMMA CommitStep ==
    ASSUME LeaseInv, NEW c \in Writes, Append1(c), UNCHANGED <<epochs, tracker>>, rows' # rows
    PROVE  Lease!Revoke \/ \E n \in Nodes : Lease!Grant(n)
<1> DEFINE r == After(c, Len(rows) + 1)
           n == Len(rows)
<1>1. rows \in Seq(OwnerRows) /\ n \in Nat /\ DOMAIN rows = 1..n
  BY LenProperties DEF LeaseInv, TypeOK
<1>2. rows' = Append(rows, r) /\ r # Row
  BY DEF Append1
<1>3. r \in OwnerRows
  <2>1. c.op = "acquire" => c.node \in Nodes /\ c.at \in Nat
    BY DEF Writes
  <2>2. NoOwner \in OwnerRows /\ Row \in OwnerRows
    BY RowTyped DEF LeaseInv, NoOwner, OwnerRows
  <2>3. n + 1 \in Nat
    BY <1>1
  <2> HIDE DEF r
  <2>4. r = NoOwner \/ r = Row \/ (c.op = "acquire" /\ r = [node |-> c.node, epoch |-> n + 1, at |-> c.at])
    BY AfterTyped DEF LeaseInv, r
  <2> QED
    BY <2>1, <2>2, <2>3, <2>4 DEF OwnerRows
<1> HIDE DEF r
<1>4. /\ Len(rows') = n + 1 /\ DOMAIN rows' = 1..(n + 1) /\ rows'[n + 1] = r /\ rows' # <<>>
      /\ \A k \in 1..n : rows'[k] = rows[k]
  <2>1. /\ rows' \in Seq(OwnerRows) /\ Len(rows') = n + 1 /\ rows'[n + 1] = r
        /\ \A k \in 1..n : rows'[k] = rows[k]
    <3>1. rows \in Seq(OwnerRows) /\ Len(rows) \in Nat
      BY <1>1
    <3> HIDE <1>1
    <3> QED
      BY <1>2, <1>3, <3>1
  <2>2. DOMAIN rows' = 1..(n + 1)
    BY <2>1, LenProperties
  <2>3. rows' # <<>>
    BY <1>1, <2>1, EmptySeq
  <2> QED
    BY <2>1, <2>2, <2>3
<1>5. Row' = r
  BY <1>4 DEF Row
<1>6. \A g \in GivenIn(rows) : g.epoch \in Nat /\ g.epoch < n + 1
  BY <1>1 DEF GivenIn, View
<1>7. UNCHANGED ({epochs[i] : i \in Conns} \ {0}) /\ UNCHANGED tracker
  OBVIOUS
<1>8. CASE c.op = "acquire" /\ ~Refused(c)
  <2>1. r = [node |-> c.node, epoch |-> n + 1, at |-> c.at]
    BY <1>8, AfterTyped DEF LeaseInv, r
  <2>2. c.node \in Nodes /\ Row.node \in {NoNode, c.node}
    BY <1>8 DEF Refused, Writes
  <2>3. GivenIn(rows') = GivenIn(rows) \cup {View(r)}
    <3>1. {j \in DOMAIN rows' : rows'[j].epoch = j} = {j \in DOMAIN rows : rows[j].epoch = j} \cup {n + 1}
      BY <1>1, <1>4, <2>1
    <3>2. \A j \in DOMAIN rows : rows'[j] = rows[j]
      BY <1>1, <1>4
    <3> QED
      BY <1>4, <3>1, <3>2 DEF GivenIn
  <2>4. View(r).node = c.node /\ View(r).epoch = n + 1
    BY <2>1 DEF View
  <2>5. View(Row)' = View(r) /\ View(Row).node = Row.node
    BY <1>5 DEF View
  <2>6. Lease!Grant(c.node)
    BY <1>6, <1>7, <2>2, <2>3, <2>4, <2>5 DEF Lease!Grant, GivenIn
  <2> QED
    BY <2>2, <2>6
<1>9. CASE ~(c.op = "acquire" /\ ~Refused(c))
  <2>1. r = NoOwner
    BY <1>2, <1>9, AfterTyped DEF LeaseInv, r
  <2>2. GivenIn(rows') = GivenIn(rows)
    <3>1. {j \in DOMAIN rows' : rows'[j].epoch = j} = {j \in DOMAIN rows : rows[j].epoch = j}
      BY <1>1, <1>4, <2>1 DEF NoOwner
    <3>2. \A j \in DOMAIN rows : rows'[j] = rows[j]
      BY <1>1, <1>4
    <3> QED
      BY <3>1, <3>2 DEF GivenIn
  <2>3. View(Row)' = Lease!Free
    BY <1>5, <2>1 DEF View, NoOwner, Lease!Free
  <2> QED
    BY <1>7, <2>2, <2>3 DEF Lease!Revoke, GivenIn
<1> QED
  BY <1>8, <1>9

\* The initial states map to the initial state of the lease.
LEMMA LeaseStarts == ASSUME Init PROVE Lease!LeaseInit
<1>1. rows = <<>> /\ tracker = Unknown /\ \A c \in Conns : epochs[c] = 0
  BY DEF Init
<1>2. View(Row) = Lease!Free
  BY <1>1 DEF Row, View, NoOwner, Lease!Free
<1>3. {View(rows[k]) : k \in {j \in DOMAIN rows : rows[j].epoch = j}} = {}
  BY <1>1
<1>4. {epochs[c] : c \in Conns} \ {0} = {}
  BY <1>1
<1> QED
  BY <1>1, <1>2, <1>3, <1>4 DEF Lease!LeaseInit, Lease!Free, Unknown

\* The ownership protocol of the cluster, with its crashes, partitions, lost
\* answers, late commits, recoveries and sweeps, is a lease with fencing epochs
\* (StreamLease): every grant has an epoch above all earlier ones and goes to
\* a node that may have it, a publisher of this node stamps only epochs that
\* were granted to this node, and the tracker of cluster/media/ownership.rs
\* names only leases that were given.
THEOREM OwnershipIsLease == Spec => IsLease
<1>1. Init => Lease!LeaseInit
  BY LeaseStarts
<1>2. LeaseInv /\ LeaseInv' /\ [Next]_vars => Lease!LeaseNext
  <2> SUFFICES ASSUME LeaseInv, LeaseInv', [Next]_vars PROVE Lease!LeaseNext
    OBVIOUS
  <2>1. CASE rows' = rows
    BY <2>1, FollowStep DEF Lease!LeaseNext
  <2>2. CASE rows' # rows
    BY <2>2, RowsFrame, CommitStep DEF Lease!LeaseNext
  <2> QED
    BY <2>1, <2>2
<1> QED
  BY <1>1, <1>2, OwnershipInvariant, PTL DEF Spec, IsLease, Lease!LeaseSpec

-----------------------------------------------------------------------------
(* No ghost owner: what has to hold besides, for NoGhostOwner to be kept.   *)

\* A process that is down is in no call.
Stopped == ~up => \A t \in Threads : call[t] = Idle

\* What a call knows: its connection, an epoch that was granted before, and
\* once its release was answered, that the epoch is not the owner's any more.
CallKnown(t) ==
    LET w == call[t] IN
    /\ w.why \in {"publish", "release"} => w.conn \in Conns
    /\ w.cmd.op = "release" => w.cmd.epoch <= Len(rows)
    /\ w.why = "stale" => t = "cleanup" /\ w.cmd.epoch \in stale
    /\ w.st = "answered" /\ w.cmd.op = "release" => ~(Row.node = Me /\ Row.epoch = w.cmd.epoch)

KnownCalls == \A t \in Threads : call[t] # Idle => CallKnown(t)
KnownEpochs == \A e \in pending \cup stale : e <= Len(rows)

\* An acquire of this node made at that second was granted.
GrantedAt(at) == \E k \in 1..Len(rows) : rows[k].node = Me /\ rows[k].at = at

\* The thread has an acquire under way.
Acquires(t) == call[t] # Idle /\ call[t].cmd.op = "acquire"

\* Every acquire of this node has a second of its own, and one that may still
\* commit has not been granted.
CallSeconds == \A t \in Threads : Acquires(t) => call[t].cmd.at <= tries
FlightSeconds == \A c \in flight : c.op = "acquire" => c.node = Me /\ c.at <= tries /\ ~GrantedAt(c.at)
RowSeconds ==
    /\ \A k \in 1..Len(rows) : rows[k].node = Me => rows[k].at <= tries
    /\ \A j, k \in 1..Len(rows) : rows[j].node = Me /\ rows[k].node = Me /\ rows[j].at = rows[k].at => j = k
OpenSeconds ==
    \A t \in Threads : Acquires(t) /\ call[t].st = "sent" =>
          /\ ~GrantedAt(call[t].cmd.at)
          /\ call[t].cmd \notin flight
          /\ \A u \in Threads \ {t} : Acquires(u) => call[u].cmd.at # call[t].cmd.at

Seconds == CallSeconds /\ FlightSeconds /\ RowSeconds /\ OpenSeconds

\* The node remembers every acquire of its own that may still commit.
FlightKnown ==
    up /\ strands = {} => \A c \in flight : c.op = "acquire" =>
        \/ c.at \in ambiguous
        \/ \E t \in Threads : call[t] # Idle /\ call[t].st = "failed" /\ call[t].cmd = c

GhostParts == Stopped /\ KnownCalls /\ KnownEpochs /\ Seconds /\ FlightKnown /\ NoGhostOwner
GhostInv == LeaseInv /\ GhostParts

-----------------------------------------------------------------------------
(* What a step does to a call. *)

\* The thread learns the outcome of its write ...
Learns(t) ==
    /\ call[t] # Idle /\ call'[t] # Idle
    /\ call'[t].st \in {"granted", "unsent"}
    /\ call'[t].why = call[t].why /\ call'[t].cmd = call[t].cmd /\ call'[t].conn = call[t].conn

\* ... sends a new acquire ...
BeginsAcquire(t) ==
    /\ call'[t] # Idle /\ call'[t].st = "sent" /\ call'[t].why \in {"publish", "recover"}
    /\ call'[t].cmd = Acquire(Me, tries + 1) /\ tries' = tries + 1
    /\ call'[t].why = "publish" => call'[t].conn \in Conns

\* ... or sends a release.
BeginsRelease(t) ==
    /\ call'[t] # Idle /\ call'[t].st = "sent" /\ tries' = tries
    /\ call'[t].why \in {"release", "again", "unclaimed", "giveback", "stale"}
    /\ \E e \in 0..Len(rows) :
          call'[t].cmd = Release(e) /\ (call'[t].why = "stale" => t = "cleanup" /\ e \in stale)
    /\ call'[t].why = "release" => call'[t].conn \in Conns

Alone(t) == \A i \in Threads \ {t} : call'[i] = call[i]

Moves(t) ==
    /\ up /\ up' /\ UNCHANGED <<rows, flight>>
    /\ Alone(t)
    /\ \/ Learns(t) /\ tries' = tries
       \/ call'[t] = Idle /\ tries' = tries
       \/ BeginsAcquire(t) \/ BeginsRelease(t)

\* A command of the rest of the cluster.
Foreign ==
    /\ UNCHANGED <<call, flight, tries>>
    /\ \E c \in Writes : Append1(c) /\ (c.op = "acquire" => c.node = Other)

\* What sending a write does to the calls.
LEMMA DispatchEffect ==
    ASSUME TypeOK, NEW t \in Threads, NEW why, NEW c, NEW cmd, Dispatch(t, why, c, cmd)
    PROVE  /\ Alone(t) /\ call'[t] # Idle /\ call'[t].st = "sent" /\ call'[t].why = why
           /\ call'[t].conn = c /\ call'[t].cmd = cmd /\ call'[t].index = 0
  BY DEF Dispatch, TypeOK, Idle, Alone

\* A thread that resumes is idle.
LEMMA ResumeEffect ==
    ASSUME TypeOK, NEW t \in Threads, Resume(t) PROVE Alone(t) /\ call'[t] = Idle
  BY DEF Resume, TypeOK, Alone

\* A thread that learns an outcome keeps its write.
LEMMA OutcomeEffect ==
    ASSUME TypeOK, NEW t \in Threads, call[t].st # "idle",
           NEW st \in {"granted", "unsent", "failed"}, call' = [call EXCEPT ![t].st = st]
    PROVE  /\ Alone(t) /\ call[t] # Idle /\ call'[t] # Idle /\ call'[t].st = st
           /\ call'[t].why = call[t].why /\ call'[t].cmd = call[t].cmd
           /\ call'[t].conn = call[t].conn /\ call'[t].index = call[t].index
<1>1. call[t] \in Calls /\ call[t] # Idle
  BY DEF TypeOK, Idle
<1> DEFINE w == [call[t] EXCEPT !.st = st]
<1>2. w.st = st /\ w.why = call[t].why /\ w.cmd = call[t].cmd /\ w.conn = call[t].conn /\ w.index = call[t].index
  BY <1>1 DEF Calls
<1>3. call' = [call EXCEPT ![t] = w]
  OBVIOUS
<1> HIDE DEF w
<1>4. call'[t] = w /\ Alone(t)
  BY <1>3 DEF TypeOK, Alone
<1>5. w # Idle
  BY <1>2 DEF Idle
<1> QED
  BY <1>1, <1>2, <1>4, <1>5

\* A commit answers the thread that waits for it.
LEMMA CommitEffect ==
    ASSUME TypeOK, NEW t \in Threads, Commit(t)
    PROVE  /\ Alone(t) /\ call[t] # Idle /\ call'[t] # Idle /\ call'[t].st = "answered"
           /\ call'[t].why = call[t].why /\ call'[t].cmd = call[t].cmd /\ call'[t].conn = call[t].conn
           /\ call'[t].index = IF Refused(call[t].cmd) THEN 0 ELSE Len(rows) + 1
<1>1. call[t] \in Calls /\ call[t] # Idle
  BY DEF TypeOK, Idle, Commit
<1> DEFINE x == IF Refused(call[t].cmd) THEN 0 ELSE Len(rows) + 1
           w == [call[t] EXCEPT !.st = "answered", !.index = x]
<1>2. call' = [call EXCEPT ![t] = w]
  BY DEF Commit
<1> HIDE DEF x
<1>3. w.st = "answered" /\ w.why = call[t].why /\ w.cmd = call[t].cmd /\ w.conn = call[t].conn /\ w.index = x
  BY <1>1 DEF Calls
<1> HIDE DEF w
<1>4. call'[t] = w /\ Alone(t)
  BY <1>2 DEF TypeOK, Alone
<1>5. w # Idle
  BY <1>3 DEF Idle
<1> QED
  BY <1>1, <1>3, <1>4, <1>5 DEF x

-----------------------------------------------------------------------------
\* Sending a release of an epoch that was granted, and taking a publisher off.
LEMMA ReleaseBegins ==
    ASSUME TypeOK, NEW t \in Threads, NEW why \in {"release", "again", "unclaimed", "giveback", "stale"},
           NEW c, NEW e \in 0..Len(rows), Dispatch(t, why, c, Release(e)), tries' = tries,
           why = "release" => c \in Conns, why = "stale" => t = "cleanup" /\ e \in stale
    PROVE  BeginsRelease(t) /\ Alone(t)
  BY DispatchEffect DEF BeginsRelease

\* A connection holds an epoch of the log, or none.
LEMMA HeldEpochs == ASSUME LeaseInv, NEW c \in Conns PROVE epochs[c] \in 0..Len(rows)
<1>1. epochs[c] \in Nat /\ Len(rows) \in Nat /\ (epochs[c] # 0 => Mine(rows, epochs[c]))
  BY DEF LeaseInv, TypeOK, EpochsOwn
<1> QED
  BY <1>1 DEF Mine

\* Taking the publishers off begins a release or ends the call.
LEMMA KickMoves ==
    ASSUME LeaseInv, NEW t \in Threads, Kick(t), tries' = tries
    PROVE  Alone(t) /\ (BeginsRelease(t) \/ call'[t] = Idle)
<1> DEFINE kicked == {c \in Conns : role[c] = "live"}
<1>1. CASE \E c \in kicked : epochs[c] # 0
  <2>1. PICK c \in Conns : ReleasePublisher(t, c)
    BY <1>1 DEF Kick
  <2>2. Dispatch(t, "release", c, Release(epochs[c]))
    BY <2>1 DEF ReleasePublisher
  <2> QED
    BY <2>2, HeldEpochs, ReleaseBegins DEF LeaseInv
<1>2. CASE ~\E c \in kicked : epochs[c] # 0
  BY <1>2, ResumeEffect DEF Kick, LeaseInv
<1> QED
  BY <1>1, <1>2

\* The kinds of steps, as the calls, the log and the writes in flight see them.
LEMMA StepKinds ==
    ASSUME LeaseInv, KnownEpochs, [Next]_vars
    PROVE  \/ UNCHANGED <<call, rows, flight>> /\ tries' = tries
           \/ \E t \in Threads : Commit(t) \/ FailDispatched(t) \/ Moves(t)
           \/ (\E c \in flight : CommitLate(c)) \/ Foreign \/ SweepFails \/ Crash
<1> USE DEF LeaseInv
<1>0. TypeOK /\ Len(rows) \in Nat /\ tries \in Nat
  BY DEF TypeOK
<1>1. CASE UNCHANGED vars
  BY <1>1 DEF vars, cluster, counts
<1>2. ASSUME NEW t \in Threads, FailUnsent(t) PROVE Moves(t)
  <2>1. call' = [call EXCEPT ![t].st = "unsent"] /\ call[t].st # "idle" /\ up /\ UNCHANGED <<up, rows, flight, tries>>
    BY <1>2 DEF FailUnsent, cluster, health
  <2> QED
    BY <1>0, <2>1, OutcomeEffect DEF Moves, Learns
<1>3. CASE AcquireGranted
  <2>1. call' = [call EXCEPT !["worker"].st = "granted"] /\ call["worker"].st # "idle" /\ up /\ UNCHANGED <<up, rows, flight, tries>>
    BY <1>3 DEF AcquireGranted, cluster, health, Blocked, counts
  <2>2. Moves("worker")
    BY <1>0, <2>1, OutcomeEffect, ThreadNames DEF Moves, Learns
  <2> QED
    BY <2>2, ThreadNames
<1>4. ASSUME NEW t \in Threads, Resume(t), up, UNCHANGED <<up, rows, flight, tries>> PROVE Moves(t)
  BY <1>0, <1>4, ResumeEffect DEF Moves
<1>5. ASSUME NEW t \in Threads, ReleaseReturns(t) PROVE Moves(t)
  BY <1>4, <1>5 DEF ReleaseReturns, Blocked, cluster, health, counts
<1>6. CASE InstallPublisher \/ RejectPublish
  <2>1. Moves("worker")
    BY <1>4, <1>6, ThreadNames DEF InstallPublisher, RejectPublish, Blocked, cluster, health, counts
  <2> QED
    BY <2>1, ThreadNames
<1>7. CASE RetryReturns
  <2>1. Moves("poll")
    BY <1>4, <1>7, ThreadNames DEF RetryReturns, Blocked, cluster, health, counts
  <2> QED
    BY <2>1, ThreadNames
<1>8. CASE UnclaimedReturns \/ GivebackReturns \/ RecoverFails
  <2>1. Moves("health")
    BY <1>4, <1>8, ThreadNames DEF UnclaimedReturns, GivebackReturns, RecoverFails, Blocked, cluster, health, counts
  <2> QED
    BY <2>1, ThreadNames
<1>9. CASE CleanReturns
  <2>1. Moves("cleanup")
    BY <1>4, <1>9, ThreadNames DEF CleanReturns, Blocked, cluster, health, counts
  <2> QED
    BY <2>1, ThreadNames
<1>10. ASSUME NEW t \in Threads, NEW why \in {"release", "again", "unclaimed", "giveback", "stale"},
              NEW c, NEW e \in 0..Len(rows), Dispatch(t, why, c, Release(e)), up, UNCHANGED <<up, rows, flight, tries>>,
              why = "release" => c \in Conns, why = "stale" => t = "cleanup" /\ e \in stale
       PROVE  Moves(t)
  <2>1. BeginsRelease(t) /\ Alone(t)
    BY <1>0, <1>10, ReleaseBegins
  <2> QED
    BY <1>10, <2>1 DEF Moves
<1>11. ASSUME NEW c \in Conns, AuthorizePublish(c) PROVE Moves("worker")
  <2>1. Dispatch("worker", "publish", c, Acquire(Me, tries + 1)) /\ up /\ UNCHANGED <<up, rows, flight>> /\ tries' = tries + 1
    BY <1>11 DEF AuthorizePublish, IsIdle, cluster, health
  <2>2. BeginsAcquire("worker") /\ Alone("worker")
    BY <1>0, <2>1, DispatchEffect, ThreadNames DEF BeginsAcquire
  <2> QED
    BY <2>1, <2>2 DEF Moves
<1>12. ASSUME NEW c \in Conns, CloseConn(c) PROVE Moves("worker") \/ UNCHANGED <<call, rows, flight, tries>>
  <2>1. up /\ UNCHANGED <<up, rows, flight, tries>> /\ (UNCHANGED call \/ Dispatch("worker", "release", c, Release(epochs[c])))
    BY <1>12 DEF CloseConn, IsIdle, cluster, health, counts
  <2> QED
    BY <1>10, <2>1, HeldEpochs, ThreadNames
<1>13. ASSUME NEW c \in Conns, PollReleases(c) PROVE Moves("poll") \/ UNCHANGED <<call, rows, flight, tries>>
  <2>1. up /\ UNCHANGED <<up, rows, flight, tries>> /\ (UNCHANGED call \/ Dispatch("poll", "release", c, Release(epochs[c])))
    BY <1>13 DEF PollReleases, ReleasePublisher, IsIdle, cluster, health, counts
  <2> QED
    BY <1>10, <2>1, HeldEpochs, ThreadNames
<1>14. CASE RetryRelease
  <2>1. PICK e \in pending : Dispatch("poll", "again", NoConn, Release(e))
    BY <1>14 DEF RetryRelease
  <2>2. e \in 0..Len(rows) /\ up /\ UNCHANGED <<up, rows, flight, tries>>
    BY <1>0, <1>14 DEF RetryRelease, KnownEpochs, TypeOK, IsIdle, cluster, health, counts
  <2>3. Moves("poll")
    BY <1>10, <2>1, <2>2, ThreadNames
  <2> QED
    BY <2>3, ThreadNames
<1>15. CASE CleanStale
  <2>1. PICK e \in stale : Dispatch("cleanup", "stale", NoConn, Release(e))
    BY <1>15 DEF CleanStale
  <2>2. e \in 0..Len(rows) /\ up /\ UNCHANGED <<up, rows, flight, tries>>
    BY <1>0, <1>15 DEF CleanStale, KnownEpochs, TypeOK, IsIdle, cluster, health, counts
  <2>3. Moves("cleanup")
    BY <1>10, <2>1, <2>2, ThreadNames
  <2> QED
    BY <2>3, ThreadNames
<1>16. CASE ReleaseUnclaimed
  <2>1. Dispatch("health", "unclaimed", NoConn, Release(DbRow.epoch)) /\ up /\ UNCHANGED <<up, rows, flight, tries>>
    BY <1>16 DEF ReleaseUnclaimed, IsIdle, cluster, health, counts
  <2>2. DbRow.epoch \in 0..Len(rows)
    BY <1>0, DbRowGiven DEF NoOwner
  <2>3. Moves("health")
    BY <1>10, <2>1, <2>2, ThreadNames
  <2> QED
    BY <2>3, ThreadNames
<1>17. CASE RecoverPublishers
  <2>1. /\ up /\ UNCHANGED <<up, rows, flight>>
        /\ \/ UNCHANGED call /\ tries' = tries
           \/ Dispatch("health", "recover", NoConn, Acquire(Me, tries + 1)) /\ tries' = tries + 1
    BY <1>17 DEF RecoverPublishers, IsIdle, cluster
  <2>2. CASE Dispatch("health", "recover", NoConn, Acquire(Me, tries + 1)) /\ tries' = tries + 1
    <3>1. BeginsAcquire("health") /\ Alone("health")
      BY <1>0, <2>2, DispatchEffect, ThreadNames DEF BeginsAcquire
    <3>2. Moves("health")
      BY <2>1, <3>1 DEF Moves
    <3> QED
      BY <3>2, ThreadNames
  <2> QED
    BY <2>1, <2>2
<1>18. CASE RecoverGranted
  <2> DEFINE e == call["health"].index
  <2>1. up /\ UNCHANGED <<up, rows, flight, tries>> /\ (Resume("health") \/ Dispatch("health", "giveback", NoConn, Release(e)))
    BY <1>18 DEF RecoverGranted, Blocked, cluster, counts
  <2>2. e \in 0..Len(rows)
    <3>1. call["health"] # Idle /\ call["health"].why = "recover" /\ e \in Nat
      BY <1>0, <1>18, BlockedCall, ThreadNames DEF RecoverGranted
    <3>2. e # 0 => Mine(rows, e)
      BY <3>1, ThreadNames DEF CallsOwn, CallOwn
    <3> HIDE DEF e
    <3> QED
      BY <1>0, <3>1, <3>2 DEF Mine
  <2> HIDE DEF e
  <2>3. Moves("health")
    BY <1>4, <1>10, <2>1, <2>2, ThreadNames
  <2> QED
    BY <2>3, ThreadNames
<1>19. ASSUME NEW t \in Threads, Kick(t), up, UNCHANGED <<up, rows, flight, tries>> PROVE Moves(t)
  BY <1>19, KickMoves DEF Moves
<1>20. ASSUME NEW t \in Threads, SyncOwnership(t) PROVE Moves(t) \/ UNCHANGED <<call, rows, flight, tries>>
  <2>1. up /\ UNCHANGED <<up, rows, flight, tries>> /\ (Kick(t) \/ UNCHANGED call)
    BY <1>20 DEF SyncOwnership, IsIdle, cluster, health
  <2> QED
    BY <1>19, <2>1
<1>21. CASE RetryPublisherCheck \/ RecoverConflicts
  <2>1. up /\ UNCHANGED <<up, rows, flight, tries>> /\ (Kick("health") \/ UNCHANGED call)
    BY <1>21 DEF RetryPublisherCheck, RecoverConflicts, IsIdle, Blocked, cluster, health, counts
  <2> QED
    BY <1>19, <2>1, ThreadNames
<1>22. CASE OtherAcquires
  BY <1>22, AcquireTyped DEF OtherAcquires, Nodes, Foreign
<1>23. CASE OtherReleases
  <2>1. Row.epoch \in Nat
    BY <1>0, RowTyped DEF OwnerRows
  <2> QED
    BY <1>23, <2>1, ReleaseTyped DEF OtherReleases, Foreign, counts
<1>24. CASE SweepCommits \/ SweepRepairs
  <2>1. ReleaseNode(sweep.max) \in Writes /\ ReleaseNode(sweep.max).op # "acquire"
    BY DEF ReleaseNode, Writes, TypeOK
  <2> QED
    BY <1>24, <2>1 DEF SweepCommits, SweepRepairs, Foreign, counts
<1>25. CASE \/ ApplyEntry \/ PruneMarker \/ DropSuperseded \/ LoseQuorum \/ DropAged
            \/ SweepStarts \/ Cut \/ Heal \/ Restart
  BY <1>25 DEF ApplyEntry, PruneMarker, DropSuperseded, LoseQuorum, DropAged, SweepStarts, Cut, Heal, Restart, cluster, counts
<1>26. CASE Work
  BY <1>3, <1>5, <1>6, <1>7, <1>8, <1>9, <1>14, <1>15, <1>16, <1>17, <1>18, <1>20, <1>21, <1>25, <1>26, ThreadNames DEF Work
<1>27. CASE Disturb
  BY <1>2, <1>11, <1>12, <1>13, <1>22, <1>23, <1>24, <1>25, <1>27, ThreadNames DEF Disturb
<1> QED
  BY <1>1, <1>26, <1>27 DEF Next
-----------------------------------------------------------------------------
(* The rows. *)

\* What a command adds to the rows: a grant, a row without owner, or nothing.
LEMMA AppendCases ==
    ASSUME LeaseInv, NEW c \in Writes, Append1(c)
    PROVE  /\ Len(rows) \in Nat /\ Len(rows') \in Nat /\ \A k \in 1..Len(rows) : rows'[k] = rows[k]
           /\ \/ /\ c.op = "acquire" /\ ~Refused(c) /\ Len(rows') = Len(rows) + 1
                 /\ rows'[Len(rows) + 1] = [node |-> c.node, epoch |-> Len(rows) + 1, at |-> c.at]
              \/ /\ ~(c.op = "acquire" /\ ~Refused(c))
                 /\ rows' = rows \/ (Len(rows') = Len(rows) + 1 /\ rows'[Len(rows) + 1] = NoOwner)
<1> DEFINE r == After(c, Len(rows) + 1)
<1>1. rows' = IF r = Row THEN rows ELSE Append(rows, r)
  BY DEF Append1
<1>2. rows \in Seq(OwnerRows) /\ Len(rows) \in Nat
  BY DEF LeaseInv, TypeOK
<1>3. CASE c.op = "acquire" /\ ~Refused(c)
  <2>1. r = [node |-> c.node, epoch |-> Len(rows) + 1, at |-> c.at]
    BY <1>3, AfterTyped DEF LeaseInv
  <2>2. c.node \in Nodes /\ c.at \in Nat
    BY <1>3 DEF Writes
  <2>3. r \in OwnerRows /\ r.epoch = Len(rows) + 1 /\ r.node \in Nodes
    BY <1>2, <2>1, <2>2 DEF OwnerRows
  <2>4. r # Row
    BY <1>2, <2>3, RowGiven DEF NoOwner, LeaseInv
  <2> HIDE DEF r
  <2>5. rows' = Append(rows, r)
    BY <1>1, <2>4
  <2>6. Len(rows') = Len(rows) + 1 /\ rows'[Len(rows) + 1] = r /\ \A k \in 1..Len(rows) : rows'[k] = rows[k]
    BY <1>2, <2>3, <2>5
  <2> QED
    BY <1>2, <1>3, <2>1, <2>6
<1>4. CASE ~(c.op = "acquire" /\ ~Refused(c))
  <2>1. r = NoOwner \/ r = Row
    BY <1>4, AfterTyped DEF LeaseInv
  <2> HIDE DEF r
  <2>2. CASE r = Row
    BY <1>1, <1>2, <1>4, <2>2
  <2>3. CASE r # Row
    <3>1. rows' = Append(rows, NoOwner) /\ NoOwner \in OwnerRows
      BY <1>1, <2>1, <2>3 DEF NoOwner, OwnerRows
    <3>2. Len(rows') = Len(rows) + 1 /\ rows'[Len(rows) + 1] = NoOwner /\ \A k \in 1..Len(rows) : rows'[k] = rows[k]
      BY <1>2, <3>1
    <3> QED
      BY <1>2, <1>4, <3>2
  <2> QED
    BY <2>2, <2>3
<1> QED
  BY <1>3, <1>4

\* This node was granted nothing new.
OldGrants == \A k \in 1..Len(rows') : rows'[k].node = Me => k \in 1..Len(rows) /\ rows'[k] = rows[k]

\* A refused acquire, a release and an acquire of another node grant this node nothing.
LEMMA OldGrantsWhen ==
    ASSUME LeaseInv, NEW c \in Writes, Append1(c), ~(c.op = "acquire" /\ ~Refused(c)) \/ (c.op = "acquire" /\ c.node = Other)
    PROVE  OldGrants
<1>1. NoOwner.node # Me /\ Other # Me
  BY OwnershipAssumption DEF NoOwner
<1>2. Len(rows) \in Nat /\ \A k \in 1..Len(rows) : rows'[k] = rows[k]
  BY AppendCases
<1>3. rows' = rows \/ (Len(rows') = Len(rows) + 1 /\ rows'[Len(rows) + 1].node # Me)
  <2>1. CASE c.op = "acquire" /\ ~Refused(c)
    <3>1. Len(rows') = Len(rows) + 1 /\ rows'[Len(rows) + 1] = [node |-> c.node, epoch |-> Len(rows) + 1, at |-> c.at]
      BY <2>1, AppendCases
    <3> QED
      BY <1>1, <2>1, <3>1
  <2>2. CASE ~(c.op = "acquire" /\ ~Refused(c))
    <3>1. rows' = rows \/ (Len(rows') = Len(rows) + 1 /\ rows'[Len(rows) + 1] = NoOwner)
      BY <2>2, AppendCases
    <3> QED
      BY <1>1, <3>1
  <2> QED
    BY <2>1, <2>2
<1> QED
  BY <1>2, <1>3 DEF OldGrants

\* The seconds are numbers.
LEMMA SecondsTyped ==
    ASSUME LeaseInv
    PROVE  /\ \A t \in Threads : Acquires(t) => call[t].cmd.at \in Nat /\ call[t].cmd.node = Me /\ call[t].cmd \in Writes
           /\ \A c \in flight : c.op = "acquire" => c.at \in Nat
           /\ \A k \in 1..Len(rows) : rows[k].at \in Nat
           /\ tries \in Nat /\ Len(rows) \in Nat
<1>1. ASSUME NEW t \in Threads, Acquires(t) PROVE call[t].cmd.at \in Nat /\ call[t].cmd.node = Me /\ call[t].cmd \in Writes
  <2>1. call[t] \in Calls /\ call[t] # Idle /\ call[t].cmd.op = "acquire"
    BY <1>1 DEF Acquires, LeaseInv, TypeOK
  <2>2. call[t].cmd \in Writes
    BY <2>1 DEF Calls
  <2>3. call[t].cmd.node = Me
    BY <2>1 DEF LeaseInv, CallsOwn, CallOwn
  <2> QED
    BY <2>1, <2>2, <2>3 DEF Writes
<1>2. ASSUME NEW c \in flight, c.op = "acquire" PROVE c.at \in Nat
  BY <1>2 DEF LeaseInv, TypeOK, Writes
<1>3. ASSUME NEW k \in 1..Len(rows) PROVE rows[k].at \in Nat
  <2>1. rows[k] \in OwnerRows
    BY <1>3, ElementOfSeq DEF LeaseInv, TypeOK
  <2> QED
    BY <2>1 DEF OwnerRows
<1> QED
  BY <1>1, <1>2, <1>3 DEF LeaseInv, TypeOK

\* No acquire is made, and none is granted.
LEMMA SecondsStay ==
    ASSUME Seconds, tries' = tries, OldGrants,
           \A c \in flight' : c.op = "acquire" => c \in flight,
           \A t \in Threads : Acquires(t)' => /\ Acquires(t) /\ call'[t].cmd = call[t].cmd
                                              /\ call'[t].st = "sent" => call[t].st = "sent"
    PROVE  Seconds'
<1>1. \A at : GrantedAt(at)' => GrantedAt(at)
  BY DEF GrantedAt, OldGrants
<1>2. CallSeconds'
  BY DEF Seconds, CallSeconds
<1>3. FlightSeconds'
  BY <1>1 DEF Seconds, FlightSeconds
<1>4. RowSeconds'
  BY DEF Seconds, RowSeconds, OldGrants
<1>5. OpenSeconds'
  <2> SUFFICES ASSUME NEW t \in Threads, Acquires(t)', call'[t].st = "sent"
               PROVE  /\ ~GrantedAt(call[t].cmd.at)' /\ call'[t].cmd \notin flight'
                      /\ \A u \in Threads \ {t} : Acquires(u)' => call'[u].cmd.at # call'[t].cmd.at
    BY DEF OpenSeconds
  <2>1. Acquires(t) /\ call'[t].cmd = call[t].cmd /\ call[t].st = "sent"
    OBVIOUS
  <2>2. ~GrantedAt(call[t].cmd.at) /\ call[t].cmd \notin flight /\ \A u \in Threads \ {t} : Acquires(u) => call[u].cmd.at # call[t].cmd.at
    BY <2>1 DEF Seconds, OpenSeconds
  <2>3. call[t].cmd.op = "acquire"
    BY <2>1 DEF Acquires
  <2> QED
    BY <1>1, <2>1, <2>2, <2>3
<1> QED
  BY <1>2, <1>3, <1>4, <1>5 DEF Seconds

\* An acquire that may still commit is granted.
LEMMA SecondsGranted ==
    ASSUME LeaseInv, Seconds, tries' = tries, NEW c \in Writes, c.op = "acquire", c.node = Me, ~Refused(c), Append1(c),
           c.at <= tries, ~GrantedAt(c.at),
           \A d \in flight' : d.op = "acquire" => d \in flight /\ d.at # c.at,
           \A t \in Threads : Acquires(t)' => /\ Acquires(t) /\ call'[t].cmd = call[t].cmd
                                              /\ call'[t].st = "sent" => call[t].st = "sent" /\ call[t].cmd.at # c.at
    PROVE  Seconds'
<1>1. /\ Len(rows) \in Nat /\ Len(rows') = Len(rows) + 1 /\ \A k \in 1..Len(rows) : rows'[k] = rows[k]
      /\ rows'[Len(rows) + 1].at = c.at /\ rows'[Len(rows) + 1].node = Me
  <2>1. /\ Len(rows) \in Nat /\ Len(rows') = Len(rows) + 1 /\ \A k \in 1..Len(rows) : rows'[k] = rows[k]
        /\ rows'[Len(rows) + 1] = [node |-> c.node, epoch |-> Len(rows) + 1, at |-> c.at]
    BY AppendCases
  <2> QED
    BY <2>1
<1>2. \A at : GrantedAt(at)' => GrantedAt(at) \/ at = c.at
  BY <1>1 DEF GrantedAt
<1>3. CallSeconds'
  BY DEF Seconds, CallSeconds
<1>4. FlightSeconds'
  BY <1>2 DEF Seconds, FlightSeconds
<1>5. RowSeconds'
  <2>1. \A k \in 1..Len(rows) : rows[k].node = Me => rows[k].at # c.at
    BY DEF GrantedAt
  <2>2. \A k \in 1..Len(rows') : k \in 1..Len(rows) \/ k = Len(rows) + 1
    BY <1>1
  <2>3. RowSeconds
    BY DEF Seconds
  <2>4. ASSUME NEW k \in 1..Len(rows'), rows'[k].node = Me PROVE rows'[k].at <= tries'
    BY <1>1, <2>2, <2>3, <2>4 DEF RowSeconds
  <2>5. ASSUME NEW j \in 1..Len(rows'), NEW k \in 1..Len(rows'), rows'[j].node = Me, rows'[k].node = Me, rows'[j].at = rows'[k].at
        PROVE  j = k
    BY <1>1, <2>1, <2>2, <2>3, <2>5 DEF RowSeconds
  <2> QED
    BY <2>4, <2>5 DEF RowSeconds
<1>6. OpenSeconds'
  <2> SUFFICES ASSUME NEW t \in Threads, Acquires(t)', call'[t].st = "sent"
               PROVE  /\ ~GrantedAt(call[t].cmd.at)' /\ call'[t].cmd \notin flight'
                      /\ \A u \in Threads \ {t} : Acquires(u)' => call'[u].cmd.at # call'[t].cmd.at
    BY DEF OpenSeconds
  <2>1. Acquires(t) /\ call'[t].cmd = call[t].cmd /\ call[t].st = "sent" /\ call[t].cmd.at # c.at
    OBVIOUS
  <2>2. ~GrantedAt(call[t].cmd.at) /\ call[t].cmd \notin flight /\ \A u \in Threads \ {t} : Acquires(u) => call[u].cmd.at # call[t].cmd.at
    BY <2>1 DEF Seconds, OpenSeconds
  <2>3. call[t].cmd.op = "acquire"
    BY <2>1 DEF Acquires
  <2> QED
    BY <1>2, <2>1, <2>2, <2>3
<1> QED
  BY <1>3, <1>4, <1>5, <1>6 DEF Seconds

\* Acquires of this node with one second are the same command.
LEMMA SameSecond ==
    ASSUME NEW c \in Writes, NEW d \in Writes, c.op = "acquire", d.op = "acquire", c.node = d.node, c.at = d.at
    PROVE  c = d
  BY DEF Writes

\* Every step keeps the seconds apart.
LEMMA SecondsStep == ASSUME GhostInv, [Next]_vars PROVE Seconds'
<1> USE DEF GhostInv, GhostParts
<1>0. LeaseInv /\ Seconds /\ TypeOK
  BY DEF LeaseInv
<1>1. rows' = rows => OldGrants
  BY DEF OldGrants
<1>2. CASE UNCHANGED <<call, rows, flight>> /\ tries' = tries
  BY <1>0, <1>1, <1>2, SecondsStay DEF Acquires
<1>3. ASSUME NEW t \in Threads, Commit(t) PROVE Seconds'
  <2> DEFINE c == call[t].cmd
  <2>1. c \in Writes /\ Append1(c) /\ UNCHANGED <<flight, tries>> /\ call[t].st = "sent" /\ call[t] # Idle
    BY <1>0, <1>3, CommitKeeps, CommitEffect DEF Commit, counts, LeaseInv
  <2>2. Alone(t) /\ call'[t].cmd = c /\ call'[t].st = "answered"
    BY <1>0, <1>3, CommitEffect
  <2>3. \A i \in Threads : Acquires(i)' => /\ Acquires(i) /\ call'[i].cmd = call[i].cmd
                                           /\ call'[i].st = "sent" => call[i].st = "sent" /\ i # t
    BY <2>1, <2>2 DEF Alone, Acquires
  <2>4. CASE c.op = "acquire" /\ ~Refused(c)
    <3>1. Acquires(t)
      BY <2>1, <2>4 DEF Acquires
    <3>2. /\ c.node = Me /\ c.at <= tries /\ ~GrantedAt(c.at) /\ c \notin flight
          /\ \A u \in Threads \ {t} : Acquires(u) => call[u].cmd.at # c.at
      BY <1>0, <2>1, <3>1, SecondsTyped DEF Seconds, CallSeconds, OpenSeconds
    <3>3. \A d \in flight : d.op = "acquire" => d.node = Me /\ d \in Writes
      BY <1>0 DEF Seconds, FlightSeconds, TypeOK
    <3>4. \A d \in flight' : d.op = "acquire" => d \in flight /\ d.at # c.at
      BY <2>1, <2>4, <3>2, <3>3, SameSecond
    <3>5. \A i \in Threads : Acquires(i)' => /\ Acquires(i) /\ call'[i].cmd = call[i].cmd
                                             /\ call'[i].st = "sent" => call[i].st = "sent" /\ call[i].cmd.at # c.at
      BY <2>3, <3>2
    <3> HIDE DEF c
    <3> QED
      BY <1>0, <2>1, <2>4, <3>2, <3>4, <3>5, SecondsGranted
  <2>5. CASE ~(c.op = "acquire" /\ ~Refused(c))
    <3>1. OldGrants
      BY <1>0, <2>1, <2>5, OldGrantsWhen
    <3> HIDE DEF c
    <3> QED
      BY <1>0, <2>1, <2>3, <3>1, SecondsStay
  <2> QED
    BY <2>4, <2>5
<1>4. ASSUME NEW t \in Threads, FailDispatched(t) PROVE Seconds'
  <2>1. /\ call' = [call EXCEPT ![t].st = "failed"] /\ call[t].st = "sent"
        /\ UNCHANGED <<rows, tries>> /\ flight' \in {flight, flight \cup {call[t].cmd}}
    BY <1>4 DEF FailDispatched
  <2>2. Alone(t) /\ call[t] # Idle /\ call'[t] # Idle /\ call'[t].st = "failed" /\ call'[t].cmd = call[t].cmd
    BY <1>0, <2>1, OutcomeEffect
  <2>3. \A i \in Threads : Acquires(i)' => /\ Acquires(i) /\ call'[i].cmd = call[i].cmd
                                           /\ call'[i].st = "sent" => call[i].st = "sent" /\ i # t
    BY <2>2 DEF Alone, Acquires
  <2>4. CASE ~Acquires(t) \/ flight' = flight
    <3>1. \A c \in flight' : c.op = "acquire" => c \in flight
      BY <2>1, <2>2, <2>4 DEF Acquires
    <3> QED
      BY <1>0, <1>1, <2>1, <2>3, <3>1, SecondsStay
  <2>5. CASE Acquires(t) /\ flight' = flight \cup {call[t].cmd}
    <3>1. /\ call[t].cmd.node = Me /\ call[t].cmd.at <= tries /\ ~GrantedAt(call[t].cmd.at)
          /\ \A u \in Threads \ {t} : Acquires(u) => call[u].cmd.at # call[t].cmd.at
      BY <1>0, <2>1, <2>5, SecondsTyped DEF Seconds, CallSeconds, OpenSeconds
    <3>2. \A at : GrantedAt(at)' <=> GrantedAt(at)
      BY <2>1 DEF GrantedAt
    <3>3. CallSeconds' /\ RowSeconds'
      BY <1>0, <2>1, <2>3 DEF Seconds, CallSeconds, RowSeconds
    <3>4. FlightSeconds'
      BY <1>0, <2>1, <2>5, <3>1, <3>2 DEF Seconds, FlightSeconds
    <3>5. OpenSeconds'
      <4> SUFFICES ASSUME NEW i \in Threads, Acquires(i)', call'[i].st = "sent"
                   PROVE  /\ ~GrantedAt(call[i].cmd.at)' /\ call'[i].cmd \notin flight'
                          /\ \A u \in Threads \ {i} : Acquires(u)' => call'[u].cmd.at # call'[i].cmd.at
        BY DEF OpenSeconds
      <4>1. Acquires(i) /\ call'[i].cmd = call[i].cmd /\ call[i].st = "sent" /\ i # t
        BY <2>3
      <4>2. ~GrantedAt(call[i].cmd.at) /\ call[i].cmd \notin flight /\ \A u \in Threads \ {i} : Acquires(u) => call[u].cmd.at # call[i].cmd.at
        BY <1>0, <4>1 DEF Seconds, OpenSeconds
      <4>3. call[i].cmd # call[t].cmd
        BY <2>5, <4>1, <4>2
      <4> QED
        BY <2>3, <2>5, <3>2, <4>1, <4>2, <4>3
    <3> QED
      BY <3>3, <3>4, <3>5 DEF Seconds
  <2> QED
    BY <2>1, <2>4, <2>5
<1>5. ASSUME NEW t \in Threads, Moves(t) PROVE Seconds'
  <2>1. UNCHANGED <<rows, flight>> /\ Alone(t)
    BY <1>5 DEF Moves
  <2>2. CASE (Learns(t) \/ call'[t] = Idle) /\ tries' = tries
    <3>1. \A i \in Threads : Acquires(i)' => /\ Acquires(i) /\ call'[i].cmd = call[i].cmd
                                             /\ call'[i].st = "sent" => call[i].st = "sent"
      BY <2>1, <2>2 DEF Alone, Acquires, Learns
    <3> QED
      BY <1>0, <1>1, <2>1, <2>2, <3>1, SecondsStay
  <2>3. CASE BeginsRelease(t)
    <3>1. call'[t].cmd.op = "release"
      BY <2>3 DEF BeginsRelease, Release
    <3>2. \A i \in Threads : Acquires(i)' => /\ Acquires(i) /\ call'[i].cmd = call[i].cmd
                                             /\ call'[i].st = "sent" => call[i].st = "sent"
      BY <2>1, <3>1 DEF Alone, Acquires
    <3>3. tries' = tries
      BY <2>3 DEF BeginsRelease
    <3> QED
      BY <1>0, <1>1, <2>1, <3>2, <3>3, SecondsStay
  <2>4. CASE BeginsAcquire(t)
    <3>1. tries \in Nat /\ tries' = tries + 1 /\ call'[t].cmd = Acquire(Me, tries + 1) /\ call'[t] # Idle
      BY <1>0, <2>4 DEF BeginsAcquire, TypeOK
    <3>2. call'[t].cmd.op = "acquire" /\ call'[t].cmd.at = tries + 1
      BY <3>1 DEF Acquire
    <3>3. \A i \in Threads \ {t} : Acquires(i)' => Acquires(i) /\ call'[i] = call[i] /\ call[i].cmd.at \in Nat /\ call[i].cmd.at <= tries
      BY <1>0, <2>1, SecondsTyped DEF Alone, Acquires, Seconds, CallSeconds
    <3>4. \A at : GrantedAt(at)' <=> GrantedAt(at)
      BY <2>1 DEF GrantedAt
    <3>5. \A at : GrantedAt(at) => at \in Nat /\ at <= tries
      BY <1>0, SecondsTyped DEF GrantedAt, Seconds, RowSeconds
    <3>6. \A c \in flight : c.op = "acquire" => c.node = Me /\ c.at \in Nat /\ c.at <= tries /\ ~GrantedAt(c.at)
      BY <1>0, SecondsTyped DEF Seconds, FlightSeconds
    <3>7. CallSeconds'
      BY <3>1, <3>2, <3>3 DEF CallSeconds
    <3>8. FlightSeconds'
      BY <2>1, <3>1, <3>4, <3>6 DEF FlightSeconds
    <3>9. RowSeconds'
      BY <1>0, <2>1, <3>1, SecondsTyped DEF Seconds, RowSeconds
    <3>10. OpenSeconds'
      <4>1. ~GrantedAt(tries + 1) /\ call'[t].cmd \notin flight
        BY <3>1, <3>2, <3>5, <3>6
      <4>2. ASSUME NEW i \in Threads \ {t}, Acquires(i)', call'[i].st = "sent"
            PROVE  /\ ~GrantedAt(call[i].cmd.at)' /\ call'[i].cmd \notin flight'
                   /\ \A u \in Threads \ {i} : Acquires(u)' => call'[u].cmd.at # call'[i].cmd.at
        <5>1. Acquires(i) /\ call'[i] = call[i] /\ call[i].cmd.at \in Nat /\ call[i].cmd.at <= tries
          BY <3>3, <4>2
        <5>2. ~GrantedAt(call[i].cmd.at) /\ call[i].cmd \notin flight /\ \A u \in Threads \ {i} : Acquires(u) => call[u].cmd.at # call[i].cmd.at
          BY <1>0, <4>2, <5>1 DEF Seconds, OpenSeconds
        <5>3. \A u \in Threads \ {i} : Acquires(u)' => call'[u].cmd.at # call'[i].cmd.at
          BY <3>1, <3>2, <3>3, <5>1, <5>2
        <5> QED
          BY <2>1, <3>4, <5>1, <5>2, <5>3
      <4>3. \A u \in Threads \ {t} : Acquires(u)' => call'[u].cmd.at # tries + 1
        BY <3>1, <3>3
      <4> QED
        BY <2>1, <3>2, <3>4, <4>1, <4>2, <4>3 DEF OpenSeconds
    <3> QED
      BY <3>7, <3>8, <3>9, <3>10 DEF Seconds
  <2> QED
    BY <1>5, <2>2, <2>3, <2>4 DEF Moves
<1>6. ASSUME NEW c \in flight, CommitLate(c) PROVE Seconds'
  <2>1. c \in Writes /\ Append1(c) /\ flight' = flight \ {c} /\ UNCHANGED <<call, tries>>
    BY <1>0, <1>6 DEF CommitLate, TypeOK, counts
  <2>2. CASE c.op = "acquire" /\ ~Refused(c)
    <3>1. c.node = Me /\ c.at <= tries /\ ~GrantedAt(c.at)
      BY <1>0, <2>2 DEF Seconds, FlightSeconds
    <3>2. \A d \in flight : d.op = "acquire" => d.node = Me /\ d \in Writes
      BY <1>0 DEF Seconds, FlightSeconds, TypeOK
    <3>3. \A d \in flight' : d.op = "acquire" => d \in flight /\ d.at # c.at
      BY <2>1, <2>2, <3>1, <3>2, SameSecond
    <3>4. ASSUME NEW i \in Threads, Acquires(i), call[i].st = "sent" PROVE call[i].cmd.at # c.at
      <4>1. call[i].cmd \notin flight /\ call[i].cmd \in Writes /\ call[i].cmd.node = Me /\ call[i].cmd.op = "acquire"
        BY <1>0, <3>4, SecondsTyped DEF Seconds, OpenSeconds, Acquires
      <4> QED
        BY <2>1, <2>2, <3>1, <4>1, SameSecond
    <3>5. \A i \in Threads : Acquires(i)' => /\ Acquires(i) /\ call'[i].cmd = call[i].cmd
                                             /\ call'[i].st = "sent" => call[i].st = "sent" /\ call[i].cmd.at # c.at
      BY <2>1, <3>4 DEF Acquires
    <3> QED
      BY <1>0, <2>1, <2>2, <3>1, <3>3, <3>5, SecondsGranted
  <2>3. CASE ~(c.op = "acquire" /\ ~Refused(c))
    <3>1. OldGrants
      BY <1>0, <2>1, <2>3, OldGrantsWhen
    <3> QED
      BY <1>0, <2>1, <3>1, SecondsStay DEF Acquires
  <2> QED
    BY <2>2, <2>3
<1>7. CASE Foreign
  <2>1. PICK c \in Writes : Append1(c) /\ (c.op = "acquire" => c.node = Other)
    BY <1>7 DEF Foreign
  <2>2. OldGrants
    BY <1>0, <2>1, OldGrantsWhen
  <2> QED
    BY <1>0, <1>7, <2>2, SecondsStay DEF Foreign, Acquires
<1>8. CASE SweepFails
  <2>1. UNCHANGED <<call, rows, tries>> /\ flight' \subseteq flight \cup {ReleaseNode(sweep.max)}
    BY <1>8 DEF SweepFails
  <2>2. ReleaseNode(sweep.max).op # "acquire"
    BY DEF ReleaseNode
  <2> QED
    BY <1>0, <1>1, <2>1, <2>2, SecondsStay DEF Acquires
<1>9. CASE Crash
  <2>1. /\ call' = [t \in Threads |-> Idle] /\ UNCHANGED <<rows, tries>>
        /\ flight' \subseteq flight \cup {call[t].cmd : t \in {x \in Threads : call[x].st = "sent"}}
    BY <1>9 DEF Crash
  <2>2. \A t \in Threads : ~Acquires(t)'
    BY <2>1 DEF Acquires
  <2>3. \A at : GrantedAt(at)' <=> GrantedAt(at)
    BY <2>1 DEF GrantedAt
  <2>4. ASSUME NEW t \in Threads, call[t].st = "sent", call[t].cmd.op = "acquire"
        PROVE  call[t].cmd.node = Me /\ call[t].cmd.at <= tries /\ ~GrantedAt(call[t].cmd.at)
    <3>1. Acquires(t)
      BY <2>4 DEF Acquires, Idle
    <3> QED
      BY <1>0, <2>4, <3>1, SecondsTyped DEF Seconds, CallSeconds, OpenSeconds
  <2>5. FlightSeconds'
    BY <1>0, <2>1, <2>3, <2>4 DEF Seconds, FlightSeconds
  <2>6. RowSeconds'
    BY <1>0, <2>1 DEF Seconds, RowSeconds
  <2>7. CallSeconds' /\ OpenSeconds'
    BY <2>2 DEF CallSeconds, OpenSeconds
  <2> QED
    BY <2>5, <2>6, <2>7 DEF Seconds
<1> QED
  BY <1>2, <1>3, <1>4, <1>5, <1>6, <1>7, <1>8, <1>9, StepKinds
-----------------------------------------------------------------------------
(* What the calls and the queues know. *)

\* The process stops and starts by two actions.
LEMMA UpFrame == ASSUME [Next]_vars PROVE UNCHANGED up \/ Crash \/ Restart
  BY HealthFrame DEF health, LoseQuorum, RecoverPublishers, RecoverGranted, GivebackReturns, RecoverConflicts,
     RecoverFails, SweepStarts, SweepCommits, SweepRepairs, SweepFails, Cut, Heal

\* Every step keeps the threads of a stopped process idle.
LEMMA StoppedStep == ASSUME GhostInv, [Next]_vars PROVE Stopped'
<1> USE DEF GhostInv, GhostParts
<1>1. CASE Crash
  BY <1>1 DEF Crash, Stopped
<1>2. CASE Restart
  BY <1>2 DEF Restart, Stopped
<1>3. CASE UNCHANGED up
  <2>1. CASE UNCHANGED call
    BY <1>3, <2>1 DEF Stopped
  <2>2. CASE up
    BY <1>3, <2>2 DEF Stopped
  <2>3. (\E t \in Threads : Commit(t) \/ FailDispatched(t) \/ Moves(t)) => up
    BY DEF Commit, FailDispatched, Moves
  <2>4. (\E c \in flight : CommitLate(c)) \/ Foreign \/ SweepFails => UNCHANGED call
    BY DEF CommitLate, Foreign, SweepFails
  <2> QED
    BY <1>1, <2>1, <2>2, <2>3, <2>4, StepKinds
<1> QED
  BY <1>1, <1>2, <1>3, UpFrame

\* An owner row of this node is the newest one.
LEMMA OwnerRow ==
    ASSUME LeaseInv, Row.node = Me
    PROVE  Row.epoch = Len(rows) /\ Len(rows) \in 1..Len(rows) /\ Row = rows[Len(rows)]
<1>1. rows # <<>>
  BY OwnershipAssumption DEF Row, NoOwner
<1>2. Len(rows) \in 1..Len(rows)
  BY <1>1, EmptySeq, LenProperties DEF LeaseInv, TypeOK
<1>3. Row # NoOwner
  BY OwnershipAssumption DEF NoOwner
<1> QED
  BY <1>1, <1>2, <1>3, RowGiven DEF Row, LeaseInv

\* The same after a step.
LEMMA OwnerRowNext ==
    ASSUME LeaseInv, [Next]_vars, Row'.node = Me
    PROVE  Row'.epoch = Len(rows') /\ Len(rows') \in 1..Len(rows') /\ Row' = rows'[Len(rows')]
<1>1. (LeaseInv /\ Row.node = Me => Row.epoch = Len(rows) /\ Len(rows) \in 1..Len(rows) /\ Row = rows[Len(rows)])'
  BY OwnerRow, PTL
<1> QED
  BY <1>1, LeaseStep

\* A step that adds a row makes the log longer.
LEMMA LogGrows == ASSUME LeaseInv, [Next]_vars, rows' # rows PROVE Len(rows') = Len(rows) + 1 /\ Len(rows) \in Nat
  BY RowsFrame, AppendCases

\* An owner row of this node that is new has an epoch above the earlier ones.
LEMMA NewEpoch ==
    ASSUME LeaseInv, [Next]_vars, NEW e \in Nat, e <= Len(rows), ~(Row.node = Me /\ Row.epoch = e)
    PROVE  ~(Row'.node = Me /\ Row'.epoch = e)
<1>1. CASE rows' = rows
  BY <1>1 DEF Row
<1>2. CASE rows' # rows
  BY <1>2, OwnerRowNext, LogGrows
<1> QED
  BY <1>1, <1>2

\* A committed release leaves the epoch no owner.
LEMMA ReleaseCommits ==
    ASSUME LeaseInv, NEW c \in Writes, c.op = "release", Append1(c)
    PROVE  ~(Row'.node = Me /\ Row'.epoch = c.epoch)
<1> DEFINE r == After(c, Len(rows) + 1)
<1>1. rows' = IF r = Row THEN rows ELSE Append(rows, r)
  BY DEF Append1
<1>2. r = IF Row.epoch = c.epoch THEN NoOwner ELSE Row
  BY DEF After
<1>3. rows \in Seq(OwnerRows) /\ Len(rows) \in Nat /\ NoOwner \in OwnerRows /\ NoOwner.node # Me
  BY OwnershipAssumption DEF LeaseInv, TypeOK, NoOwner, OwnerRows
<1> HIDE DEF r
<1>4. CASE Row.epoch = c.epoch /\ Row # NoOwner
  <2>1. rows' = Append(rows, NoOwner)
    BY <1>1, <1>2, <1>4
  <2>2. Len(rows') = Len(rows) + 1 /\ rows'[Len(rows) + 1] = NoOwner /\ rows' # <<>>
    BY <1>3, <2>1
  <2>3. Row' = NoOwner
    BY <2>2 DEF Row
  <2> QED
    BY <1>3, <2>3
<1>5. CASE Row.epoch = c.epoch /\ Row = NoOwner
  <2>1. rows' = rows
    BY <1>1, <1>2, <1>5
  <2> QED
    BY <1>3, <1>5, <2>1 DEF Row
<1>6. CASE Row.epoch # c.epoch
  <2>1. rows' = rows
    BY <1>1, <1>2, <1>6
  <2> QED
    BY <1>6, <2>1 DEF Row
<1> QED
  BY <1>4, <1>5, <1>6

\* A left-over row waits for its release as long as the cleanup is in it.
LEMMA StaleStays ==
    ASSUME TypeOK, [Next]_vars, up, NEW e \in stale PROVE e \in stale' \/ call'["cleanup"] = Idle
<1>1. CASE UNCHANGED stale
  BY <1>1
<1>2. CASE CleanReturns
  BY <1>2, ResumeEffect, ThreadNames DEF CleanReturns
<1>3. CASE Crash
  BY <1>3, ThreadNames DEF Crash
<1> QED
  BY <1>1, <1>2, <1>3, QueueFrame DEF queues, ReleaseReturns, RejectPublish, RecoverFails, RetryRelease, RetryReturns,
     DropSuperseded, DropAged, ReleaseUnclaimed, UnclaimedReturns, Restart

\* The epoch of a release.
LEMMA ReleaseEpoch ==
    ASSUME LeaseInv, NEW t \in Threads, call[t] # Idle, call[t].cmd.op = "release"
    PROVE  call[t].cmd.epoch \in Nat /\ call[t].cmd \in Writes /\ call[t].cmd = Release(call[t].cmd.epoch)
<1>1. call[t] \in Calls
  BY DEF LeaseInv, TypeOK
<1>2. call[t].cmd \in Writes
  BY <1>1 DEF Calls
<1> QED
  BY <1>2 DEF Writes, Release

\* A call goes on knowing.
LEMMA CallKnownStays ==
    ASSUME GhostInv, [Next]_vars, NEW t \in Threads, call[t] # Idle, call'[t] # Idle,
           call'[t].why = call[t].why, call'[t].cmd = call[t].cmd, call'[t].conn = call[t].conn,
           call'[t].st = "answered" => call[t].st = "answered"
    PROVE  CallKnown(t)'
<1> USE DEF GhostInv, GhostParts
<1>1. CallKnown(t) /\ up /\ TypeOK
  BY DEF KnownCalls, Stopped, LeaseInv
<1>2. Len(rows) \in Nat /\ Len(rows') \in Nat /\ Len(rows) <= Len(rows')
  BY RowsStep DEF LeaseInv, TypeOK
<1>3. call[t].cmd.op = "release" => call[t].cmd.epoch \in Nat /\ call[t].cmd.epoch <= Len(rows) /\ call[t].cmd.epoch <= Len(rows')
  BY <1>1, <1>2, ReleaseEpoch DEF CallKnown
<1>4. call[t].why = "stale" => t = "cleanup" /\ call[t].cmd.epoch \in stale'
  BY <1>1, StaleStays DEF CallKnown
<1>5. call[t].st = "answered" /\ call[t].cmd.op = "release" => ~(Row'.node = Me /\ Row'.epoch = call[t].cmd.epoch)
  BY <1>1, <1>3, NewEpoch DEF CallKnown
<1>6. call[t].why \in {"publish", "release"} => call[t].conn \in Conns
  BY <1>1 DEF CallKnown
<1> QED
  BY <1>3, <1>4, <1>5, <1>6 DEF CallKnown

\* Every step keeps what the calls know.
LEMMA CallsKnownStep == ASSUME GhostInv, [Next]_vars PROVE KnownCalls'
<1> USE DEF GhostInv, GhostParts
<1>0. LeaseInv /\ TypeOK /\ KnownEpochs /\ Len(rows) \in Nat
  BY DEF LeaseInv, TypeOK
<1> SUFFICES ASSUME NEW t \in Threads, call'[t] # Idle PROVE CallKnown(t)'
  BY DEF KnownCalls
<1>1. CASE call'[t] = call[t]
  BY <1>1, CallKnownStays
<1>2. CASE Commit(t)
  <2>1. /\ call[t] # Idle /\ call'[t].why = call[t].why /\ call'[t].cmd = call[t].cmd /\ call'[t].conn = call[t].conn
        /\ UNCHANGED stale /\ Append1(call[t].cmd)
    BY <1>0, <1>2, CommitEffect DEF Commit, queues
  <2>2. CallKnown(t)
    BY <2>1 DEF KnownCalls
  <2>3. Len(rows) \in Nat /\ Len(rows') \in Nat /\ Len(rows) <= Len(rows')
    BY <1>0, RowsStep
  <2>4. call[t].cmd.op = "release" => call[t].cmd.epoch <= Len(rows') /\ ~(Row'.node = Me /\ Row'.epoch = call[t].cmd.epoch)
    <3> SUFFICES ASSUME call[t].cmd.op = "release"
                 PROVE  call[t].cmd.epoch <= Len(rows') /\ ~(Row'.node = Me /\ Row'.epoch = call[t].cmd.epoch)
      OBVIOUS
    <3>1. call[t].cmd.epoch \in Nat /\ call[t].cmd \in Writes /\ call[t].cmd.epoch <= Len(rows)
      BY <2>1, <2>2, ReleaseEpoch DEF CallKnown
    <3> QED
      BY <1>0, <2>1, <2>3, <3>1, ReleaseCommits
  <2> QED
    BY <2>1, <2>2, <2>4 DEF CallKnown
<1>3. CASE FailDispatched(t)
  <2>1. call' = [call EXCEPT ![t].st = "failed"] /\ call[t].st # "idle"
    BY <1>3 DEF FailDispatched
  <2> QED
    BY <1>0, <2>1, OutcomeEffect, CallKnownStays
<1>4. CASE Moves(t)
  <2>1. CASE Learns(t)
    BY <2>1, CallKnownStays DEF Learns
  <2>2. CASE BeginsAcquire(t)
    BY <2>2 DEF BeginsAcquire, CallKnown, Acquire
  <2>3. CASE BeginsRelease(t)
    <3>1. PICK e \in 0..Len(rows) : call'[t].cmd = Release(e) /\ (call'[t].why = "stale" => t = "cleanup" /\ e \in stale)
      BY <2>3 DEF BeginsRelease
    <3>2. call'[t].cmd.op = "release" /\ call'[t].cmd.epoch = e
      BY <3>1 DEF Release
    <3>3. UNCHANGED rows /\ up
      BY <1>4 DEF Moves
    <3>4. call'[t].why = "stale" => t = "cleanup" /\ e \in stale'
      BY <1>0, <3>1, <3>3, StaleStays
    <3> QED
      BY <2>3, <3>2, <3>3, <3>4 DEF BeginsRelease, CallKnown
  <2> QED
    BY <1>4, <2>1, <2>2, <2>3 DEF Moves
<1>5. CASE Crash
  BY <1>5 DEF Crash
<1>6. ASSUME NEW i \in Threads \ {t}, Commit(i) \/ FailDispatched(i) \/ Moves(i) PROVE call'[t] = call[t]
  <2>1. CASE Commit(i)
    BY <1>0, <2>1, CommitEffect DEF Alone
  <2>2. CASE FailDispatched(i)
    BY <1>0, <2>2, OutcomeEffect DEF Alone, FailDispatched
  <2>3. CASE Moves(i)
    BY <2>3 DEF Moves, Alone
  <2> QED
    BY <1>6, <2>1, <2>2, <2>3
<1>7. (\E c \in flight : CommitLate(c)) \/ Foreign \/ SweepFails => UNCHANGED call
  BY DEF CommitLate, Foreign, SweepFails
<1> QED
  BY <1>1, <1>2, <1>3, <1>4, <1>5, <1>6, <1>7, StepKinds

\* The queues hold epochs that were granted before.
LEMMA EpochsKnownStep == ASSUME GhostInv, [Next]_vars PROVE KnownEpochs'
<1> USE DEF GhostInv, GhostParts
<1>0. LeaseInv /\ TypeOK /\ KnownEpochs /\ CallsOwn /\ GrantsNamed
  BY DEF LeaseInv
<1>1. Len(rows) \in Nat /\ Len(rows') \in Nat /\ Len(rows) <= Len(rows') /\ pending \subseteq Nat /\ stale \subseteq Nat
  BY <1>0, RowsStep DEF TypeOK
<1> DEFINE Past(e) == e \in Nat /\ e <= Len(rows)
<1>2. \A e \in pending \cup stale : Past(e)
  BY <1>0, <1>1 DEF KnownEpochs
<1>3. \A e : Past(e) => e <= Len(rows')
  BY <1>1
<1>4. ASSUME NEW t \in Threads, NEW why \in {"release", "again"}, Blocked(t, why) PROVE Past(call[t].cmd.epoch)
  <2>1. call[t] # Idle /\ call[t].why = why
    BY <1>0, <1>4, BlockedCall
  <2>2. call[t].cmd.op = "release"
    BY <1>0, <1>4, <2>1 DEF CallsOwn, CallOwn
  <2> QED
    BY <1>0, <2>1, <2>2, ReleaseEpoch DEF KnownCalls, CallKnown
<1>5. \A e \in pending' \cup stale' : Past(e)
  <2>1. CASE UNCHANGED <<pending, stale>>
    BY <1>2, <2>1
  <2>2. ASSUME NEW t \in Threads, ReleaseReturns(t) PROVE \A e \in pending' \cup stale' : Past(e)
    <3>1. Past(call[t].cmd.epoch)
      BY <1>4, <2>2 DEF ReleaseReturns
    <3> HIDE DEF Past
    <3> QED
      BY <1>2, <2>2, <3>1 DEF ReleaseReturns, KeepRelease
  <2>3. CASE RetryReturns
    <3>1. Past(call["poll"].cmd.epoch)
      BY <1>4, <2>3, ThreadNames DEF RetryReturns
    <3> HIDE DEF Past
    <3> QED
      BY <1>2, <2>3, <3>1 DEF RetryReturns, KeepRelease
  <2>4. CASE RetryRelease
    BY <1>2, <2>4 DEF RetryRelease
  <2>5. CASE CleanReturns
    BY <1>2, <2>5 DEF CleanReturns
  <2>6. CASE Crash
    BY <2>6 DEF Crash
  <2>7. CASE Restart
    <3>1. DbRow.node = Me => Past(DbRow.epoch)
      BY <1>0, <1>1, DbRowGiven, OwnershipAssumption DEF NoOwner
    <3> HIDE DEF Past
    <3> QED
      BY <1>2, <2>7, <3>1 DEF Restart, LeftOver
  <2> QED
    BY <2>1, <2>2, <2>3, <2>4, <2>5, <2>6, <2>7, QueueFrame DEF queues, RejectPublish, RecoverFails, DropSuperseded,
       DropAged, ReleaseUnclaimed, UnclaimedReturns
<1> QED
  BY <1>3, <1>5 DEF KnownEpochs
-----------------------------------------------------------------------------
(* The acquires that may still commit. *)

\* Events that strand a grant are not forgotten.
LEMMA StrandsStay == ASSUME [Next]_vars, strands' = {} PROVE strands = {}
<1> USE DEF Strand
<1>1. CASE Work
  BY <1>1 DEF Work, Commit, ReleaseReturns, ApplyEntry, AcquireGranted, InstallPublisher,
     RejectPublish, RetryRelease, RetryReturns, PruneMarker, SyncOwnership, RetryPublisherCheck,
     DropSuperseded, ReleaseUnclaimed, UnclaimedReturns, LoseQuorum, RecoverPublishers,
     RecoverGranted, GivebackReturns, RecoverConflicts, RecoverFails, CleanStale, CleanReturns
<1>2. CASE Disturb
  BY <1>2 DEF Disturb, FailUnsent, FailDispatched, AuthorizePublish, CloseConn, PollReleases,
     CommitLate, OtherAcquires, OtherReleases, DropAged, SweepStarts, SweepCommits,
     SweepRepairs, SweepFails, Cut, Heal, Crash, Restart
<1> QED
  BY <1>1, <1>2 DEF Next, vars

\* What may change the call of a thread while the process runs.
LEMMA ThreadActs ==
    ASSUME LeaseInv, [Next]_vars, up', NEW t \in Threads, call'[t] # call[t]
    PROVE  \/ call[t].st = "idle"
           \/ Commit(t) \/ FailUnsent(t) \/ FailDispatched(t) \/ ReleaseReturns(t)
           \/ t = "worker" /\ (AcquireGranted \/ InstallPublisher \/ RejectPublish)
           \/ t = "poll" /\ RetryReturns
           \/ t = "health" /\ (UnclaimedReturns \/ RecoverGranted \/ GivebackReturns \/ RecoverConflicts \/ RecoverFails)
           \/ t = "cleanup" /\ CleanReturns
<1> USE DEF LeaseInv
<1>0. TypeOK
  OBVIOUS
<1>1. ASSUME NEW i \in Threads, Alone(i) PROVE t = i
  BY <1>1 DEF Alone
<1>2. ASSUME NEW i \in Threads, Commit(i) \/ FailUnsent(i) \/ FailDispatched(i) \/ ReleaseReturns(i) PROVE t = i
  <2>1. CASE Commit(i)
    BY <1>0, <1>1, <2>1, CommitEffect
  <2>2. CASE FailUnsent(i)
    BY <1>0, <1>1, <2>2, OutcomeEffect DEF FailUnsent
  <2>3. CASE FailDispatched(i)
    BY <1>0, <1>1, <2>3, OutcomeEffect DEF FailDispatched
  <2>4. CASE ReleaseReturns(i)
    BY <1>0, <1>1, <2>4, ResumeEffect DEF ReleaseReturns
  <2> QED
    BY <1>2, <2>1, <2>2, <2>3, <2>4
<1>3. ASSUME NEW i \in Threads, NEW why, NEW c, NEW cmd, Dispatch(i, why, c, cmd) PROVE t = i
  BY <1>0, <1>1, <1>3, DispatchEffect
<1>4. ASSUME NEW i \in Threads, Resume(i) PROVE t = i
  BY <1>0, <1>1, <1>4, ResumeEffect
<1>5. ASSUME NEW i \in Threads, Kick(i) PROVE t = i
  BY <1>3, <1>4, <1>5 DEF Kick, ReleasePublisher
<1>6. ASSUME NEW c \in Conns, AuthorizePublish(c) \/ CloseConn(c) \/ PollReleases(c) PROVE call[t].st = "idle"
  BY <1>3, <1>6, ThreadNames DEF AuthorizePublish, CloseConn, PollReleases, ReleasePublisher, IsIdle
<1>7. CASE RetryRelease \/ ReleaseUnclaimed \/ RecoverPublishers \/ CleanStale
  BY <1>3, <1>7, ThreadNames DEF RetryRelease, ReleaseUnclaimed, RecoverPublishers, CleanStale, IsIdle
<1>8. CASE SyncOwnership("poll") \/ SyncOwnership("health") \/ RetryPublisherCheck
  BY <1>5, <1>8, ThreadNames DEF SyncOwnership, RetryPublisherCheck, IsIdle
<1>9. CASE AcquireGranted
  <2>1. call' = [call EXCEPT !["worker"].st = "granted"] /\ call["worker"].st # "idle"
    BY <1>9 DEF AcquireGranted, Blocked
  <2> QED
    BY <1>0, <1>1, <1>9, <2>1, OutcomeEffect, ThreadNames
<1>10. CASE InstallPublisher \/ RejectPublish
  BY <1>4, <1>10, ThreadNames DEF InstallPublisher, RejectPublish
<1>11. CASE RetryReturns
  BY <1>4, <1>11, ThreadNames DEF RetryReturns
<1>12. CASE UnclaimedReturns \/ GivebackReturns \/ RecoverFails
  BY <1>4, <1>12, ThreadNames DEF UnclaimedReturns, GivebackReturns, RecoverFails
<1>13. CASE RecoverGranted
  BY <1>3, <1>4, <1>13, ThreadNames DEF RecoverGranted
<1>14. CASE RecoverConflicts
  BY <1>5, <1>14, ThreadNames DEF RecoverConflicts
<1>15. CASE CleanReturns
  BY <1>4, <1>15, ThreadNames DEF CleanReturns
<1>16. ~Crash
  BY DEF Crash
<1> QED
  BY <1>2, <1>6, <1>7, <1>8, <1>9, <1>10, <1>11, <1>12, <1>13, <1>14, <1>15, <1>16, CallFrame

\* The reason of a call that returns.
LEMMA ReturnsRelease ==
    ASSUME LeaseInv, NEW t \in Threads, NEW why \in {"release", "again", "unclaimed", "giveback", "stale"}, Blocked(t, why)
    PROVE  call[t] # Idle /\ call[t].why = why /\ call[t].cmd.op = "release"
  BY BlockedCall DEF LeaseInv, CallsOwn, CallOwn

\* and one that publishes or recovers for an acquire.
LEMMA ReturnsAcquire ==
    ASSUME LeaseInv, NEW t \in Threads, NEW why \in {"publish", "recover"}, Blocked(t, why)
    PROVE  /\ call[t] # Idle /\ call[t].why = why /\ call[t].cmd.op = "acquire"
           /\ call[t].index \in Nat /\ (call[t].index # 0 => Mine(rows, call[t].index))
  BY BlockedCall DEF LeaseInv, CallsOwn, CallOwn

\* A failed acquire is kept by its thread or in the queue.
LEMMA FailedKept ==
    ASSUME LeaseInv, [Next]_vars, up', NEW t \in Threads, call[t] # Idle, call[t].st = "failed",
           call[t].cmd.op = "acquire", call'[t] # call[t]
    PROVE  call[t].cmd.at \in ambiguous'
<1>1. ~(Commit(t) \/ FailUnsent(t) \/ FailDispatched(t)) /\ call[t].st # "idle"
  BY DEF Commit, FailUnsent, FailDispatched
<1>2. ~ReleaseReturns(t)
  BY ReturnsRelease DEF ReleaseReturns
<1>3. t = "worker" => ~AcquireGranted /\ ~InstallPublisher
  BY DEF AcquireGranted, InstallPublisher, GrantTo, Ok
<1>4. t = "poll" => ~RetryReturns
  BY ReturnsRelease DEF RetryReturns
<1>5. t = "health" => ~UnclaimedReturns /\ ~GivebackReturns
  BY ReturnsRelease DEF UnclaimedReturns, GivebackReturns
<1>6. t = "health" => ~RecoverGranted /\ ~RecoverConflicts
  BY DEF RecoverGranted, RecoverConflicts, GrantTo, Ok
<1>7. t = "cleanup" => ~CleanReturns
  BY ReturnsRelease DEF CleanReturns
<1>8. (t = "worker" /\ RejectPublish) \/ (t = "health" /\ RecoverFails)
  BY <1>1, <1>2, <1>3, <1>4, <1>5, <1>6, <1>7, ThreadActs
<1> QED
  BY <1>8 DEF RejectPublish, RecoverFails, QueueAmbiguous

\* What may take a second out of the queue of ambiguous acquires.
LEMMA AmbiguousActs ==
    ASSUME [Next]_vars, up, up', strands' = {}, NEW at \in ambiguous, at \notin ambiguous'
    PROVE  \/ /\ DbRow # NoOwner /\ (DbRow.node # Me \/ DbRow.at # at) /\ Acquire(Me, at) \notin flight
              /\ ~\E k \in DOMAIN rows : k > applied /\ rows[k].node = Me /\ rows[k].at = at
           \/ DbRow.node = Me /\ DbRow.at = at /\ Dispatch("health", "unclaimed", NoConn, Release(DbRow.epoch))
<1>1. DropSuperseded \/ ReleaseUnclaimed
  <2>1. ~DropAged
    BY DEF DropAged, Strand
  <2>2. ~Crash /\ ~Restart
    BY DEF Crash, Restart
  <2> QED
    BY <2>1, <2>2, QueueFrame DEF queues, ReleaseReturns, RejectPublish, RecoverFails, QueueAmbiguous, RetryRelease,
       RetryReturns, UnclaimedReturns, CleanReturns
<1>2. CASE DropSuperseded
  <2>1. PICK x \in ambiguous :
        /\ DbRow.node # Me \/ DbRow.at # x
        /\ ambiguous' = ambiguous \ {x}
        /\ Strand(\/ Acquire(Me, x) \in flight
                  \/ \E k \in DOMAIN rows : k > applied /\ rows[k].node = Me /\ rows[k].at = x,
                  "open acquire dropped")
    BY <1>2 DEF DropSuperseded
  <2>2. x = at
    BY <2>1
  <2> QED
    BY <1>2, <2>1, <2>2 DEF DropSuperseded, Strand
<1>3. CASE ReleaseUnclaimed
  BY <1>3 DEF ReleaseUnclaimed
<1> QED
  BY <1>1, <1>2, <1>3

\* Every step keeps the open acquires remembered.
LEMMA FlightKnownStep == ASSUME GhostInv, [Next]_vars PROVE FlightKnown'
<1> USE DEF GhostInv, GhostParts
<1>0. LeaseInv /\ TypeOK /\ Seconds /\ GrantsNamed
  BY DEF LeaseInv
<1> SUFFICES ASSUME up', strands' = {}, NEW c \in flight', c.op = "acquire"
             PROVE  \/ c.at \in ambiguous'
                    \/ \E t \in Threads : call'[t] # Idle /\ call'[t].st = "failed" /\ call'[t].cmd = c
  BY DEF FlightKnown
<1>1. strands = {}
  BY StrandsStay
<1>2. up
  <2> SUFFICES ASSUME ~up PROVE FALSE
    OBVIOUS
  <2>1. Restart
    BY UpFrame DEF Crash
  <2>2. flight' = flight
    BY <2>1 DEF Restart, cluster
  <2>3. \E d \in flight : d.op = "acquire"
    BY <2>2
  <2> QED
    BY <2>1, <2>3 DEF Restart, Strand
<1>3. ~Crash
  BY DEF Crash
<1>4. CASE c \notin flight
  <2>1. PICK t \in Threads : FailDispatched(t)
    <3>1. ~SweepFails
      <4> SUFFICES ASSUME SweepFails PROVE FALSE
        OBVIOUS
      <4>1. flight' \subseteq flight \cup {ReleaseNode(sweep.max)}
        BY DEF SweepFails
      <4> QED
        BY <1>4, <4>1 DEF ReleaseNode
    <3> QED
      BY <1>3, <1>4, <3>1, FlightFrame DEF ApplyEntry, CommitLate
  <2>2. call' = [call EXCEPT ![t].st = "failed"] /\ call[t].st # "idle" /\ flight' \subseteq flight \cup {call[t].cmd}
    BY <2>1 DEF FailDispatched
  <2>3. call'[t] # Idle /\ call'[t].st = "failed" /\ call'[t].cmd = call[t].cmd
    BY <1>0, <2>2, OutcomeEffect
  <2> QED
    BY <1>4, <2>2, <2>3
<1>5. CASE c \in flight
  <2>1. c \in Writes /\ c.node = Me /\ ~GrantedAt(c.at) /\ c = Acquire(Me, c.at)
    BY <1>0, <1>5 DEF Seconds, FlightSeconds, TypeOK, Writes, Acquire
  <2>2. CASE c.at \in ambiguous
    <3> SUFFICES ASSUME c.at \notin ambiguous' PROVE FALSE
      OBVIOUS
    <3>1. DbRow.node = Me /\ DbRow.at = c.at
      BY <1>2, <1>5, <2>1, <2>2, AmbiguousActs
    <3>2. DbRow.epoch \in 1..Len(rows) /\ DbRow = rows[DbRow.epoch]
      BY <1>0, <3>1, DbRowGiven, OwnershipAssumption DEF NoOwner
    <3> QED
      BY <2>1, <3>1, <3>2 DEF GrantedAt
  <2>3. ASSUME NEW t \in Threads, call[t] # Idle, call[t].st = "failed", call[t].cmd = c
        PROVE  \/ c.at \in ambiguous'
               \/ call'[t] # Idle /\ call'[t].st = "failed" /\ call'[t].cmd = c
    BY <1>0, <2>3, FailedKept
  <2> QED
    BY <1>1, <1>2, <1>5, <2>2, <2>3 DEF FlightKnown
<1> QED
  BY <1>4, <1>5
-----------------------------------------------------------------------------
(* Who watches the owner row: a step that leaves the row hands it on. *)

\* A call that releases the epoch watches it, ...
LEMMA ReleaseWatches ==
    ASSUME NEW t \in Threads, NEW e, call'[t] # Idle, call'[t].cmd = Release(e) PROVE Watched(e)'
  BY DEF Watched

\* ... so does the answer of the acquire that was granted it.
LEMMA AnswerWatches ==
    ASSUME NEW t \in Threads, NEW e, call'[t] # Idle, call'[t].st \in {"answered", "granted"},
           call'[t].cmd.op = "acquire", call'[t].index = e
    PROVE  Watched(e)'
  BY DEF Watched

\* While the row is this node's, no release of its epoch has been answered.
LEMMA NotReleased ==
    ASSUME GhostInv, Row.node = Me, NEW t \in Threads, call[t] # Idle, call[t].cmd.op = "release", call[t].cmd.epoch = Row.epoch
    PROVE  ~Ok(t)
  BY DEF GhostInv, GhostParts, KnownCalls, CallKnown, Ok

\* A connection holds the epoch.
LEMMA EpochHeld ==
    ASSUME GhostInv, [Next]_vars, up', strands' = {}, Row.node = Me,
           NEW e, e = Row.epoch, NEW c \in Conns, epochs[c] = e
    PROVE  Watched(e)'
<1> USE DEF GhostInv
<1>0. LeaseInv /\ TypeOK /\ CallsOwn
  BY DEF LeaseInv
<1>1. e = Len(rows) /\ e \in Nat /\ e # 0
  BY OwnerRow
<1>2. epochs'[c] = e => Watched(e)'
  BY DEF Watched
<1>3. ASSUME NEW x \in Nat, x # 0 => Mine(rows, x), ~(epochs[c] > x) PROVE x = e
  BY <1>1, <1>3 DEF Mine
<1>4. CASE InstallPublisher
  <2> DEFINE w == call["worker"]
  <2>1. epochs' = [epochs EXCEPT ![w.conn] = w.index] /\ ~(epochs[w.conn] > w.index)
    BY <1>4 DEF InstallPublisher, Strand
  <2>2. w.index \in Nat /\ (w.index # 0 => Mine(rows, w.index))
    BY <1>0, <1>4, ReturnsAcquire, ThreadNames DEF InstallPublisher
  <2> HIDE DEF w
  <2>3. epochs'[c] = e
    BY <1>0, <1>3, <2>1, <2>2 DEF TypeOK
  <2> QED
    BY <1>2, <2>3
<1>5. ASSUME NEW t \in Threads, ReleaseReturns(t) PROVE Watched(e)'
  <2> DEFINE w == call[t]
  <2>1. /\ epochs' = [epochs EXCEPT ![w.conn] = 0] /\ epochs[w.conn] = w.cmd.epoch
        /\ KeepRelease(t)
    BY <1>5 DEF ReleaseReturns, Strand
  <2>2. w # Idle /\ w.cmd.op = "release"
    BY <1>0, <1>5, ReturnsRelease DEF ReleaseReturns
  <2>3. CASE c # w.conn
    <3>1. epochs'[c] = e
      BY <1>0, <2>1, <2>3 DEF TypeOK
    <3> QED
      BY <1>2, <3>1
  <2>4. CASE c = w.conn
    <3>1. w.cmd.epoch = Row.epoch
      BY <2>1, <2>4
    <3>2. ~Ok(t)
      BY <2>2, <3>1, NotReleased
    <3>3. e \in pending'
      BY <2>1, <3>1, <3>2 DEF KeepRelease
    <3> QED
      BY <3>3 DEF Watched
  <2> QED
    BY <2>3, <2>4
<1>6. CASE RecoverGranted
  <2> DEFINE x == call["health"].index
  <2>1. /\ epochs' = [d \in Conns |-> IF d \in Retagged THEN x ELSE epochs[d]]
        /\ ~\E d \in Retagged : epochs[d] > x
    BY <1>6 DEF RecoverGranted, Strand
  <2>2. x \in Nat /\ (x # 0 => Mine(rows, x))
    BY <1>0, <1>6, ReturnsAcquire, ThreadNames DEF RecoverGranted
  <2>3. c \in Retagged
    BY <1>1 DEF Retagged
  <2> HIDE DEF x
  <2>4. epochs'[c] = e
    BY <1>3, <2>1, <2>2, <2>3
  <2> QED
    BY <1>2, <2>4
<1>7. ~Crash
  BY DEF Crash
<1> QED
  BY <1>2, <1>4, <1>5, <1>6, <1>7, EpochsFrame

\* A queue holds the epoch.
LEMMA QueueHeld ==
    ASSUME GhostInv, [Next]_vars, up, up', Row.node = Me, NEW e, e = Row.epoch, e \in pending \cup stale
    PROVE  Watched(e)'
<1> USE DEF GhostInv
<1>0. LeaseInv /\ TypeOK
  BY DEF LeaseInv
<1>1. e \in pending' \cup stale' => Watched(e)'
  BY DEF Watched
<1>2. CASE RetryRelease
  <2>1. PICK x \in pending : Dispatch("poll", "again", NoConn, Release(x)) /\ pending' = pending \ {x} /\ UNCHANGED stale
    BY <1>2 DEF RetryRelease
  <2>2. CASE x = e
    <3>1. call'["poll"] # Idle /\ call'["poll"].cmd = Release(e)
      BY <1>0, <2>1, <2>2, DispatchEffect, ThreadNames
    <3> QED
      BY <3>1, ReleaseWatches, ThreadNames
  <2> QED
    BY <1>1, <2>1, <2>2
<1>3. CASE CleanReturns
  <2>1. call["cleanup"] # Idle /\ call["cleanup"].cmd.op = "release"
    BY <1>0, <1>3, ReturnsRelease, ThreadNames DEF CleanReturns
  <2>2. call["cleanup"].cmd.epoch = e => ~Ok("cleanup")
    BY <2>1, NotReleased, ThreadNames
  <2> QED
    BY <1>1, <1>3, <2>2 DEF CleanReturns
<1>4. ~Crash /\ ~Restart
  BY DEF Crash, Restart
<1> QED
  BY <1>1, <1>2, <1>3, <1>4, QueueFrame DEF queues, ReleaseReturns, KeepRelease, RejectPublish, RecoverFails, RetryReturns,
     DropSuperseded, DropAged, ReleaseUnclaimed, UnclaimedReturns

\* The acquire is remembered as ambiguous.
LEMMA AmbiguousHeld ==
    ASSUME GhostInv, [Next]_vars, up, up', strands' = {}, rows' = rows, Row.node = Me,
           NEW e, e = Row.epoch, rows[e].at \in ambiguous
    PROVE  Watched(e)'
<1> USE DEF GhostInv, GhostParts
<1>0. LeaseInv /\ TypeOK /\ Seconds /\ GrantsNamed
  BY DEF LeaseInv
<1>1. e = Len(rows) /\ e \in 1..Len(rows) /\ Row = rows[e] /\ rows[e].node = Me /\ DOMAIN rows = 1..Len(rows)
  BY <1>0, OwnerRow, LenProperties DEF TypeOK
<1>2. CASE rows[e].at \in ambiguous'
  BY <1>2 DEF Watched
<1>3. CASE rows[e].at \notin ambiguous'
  <2>1. CASE /\ DbRow.node # Me \/ DbRow.at # rows[e].at
             /\ ~\E k \in DOMAIN rows : k > applied /\ rows[k].node = Me /\ rows[k].at = rows[e].at
    <3>1. applied = e
      BY <1>0, <1>1, <2>1 DEF TypeOK
    <3>2. DbRow = rows[e]
      BY <1>1, <3>1 DEF DbRow
    <3> QED
      BY <1>1, <2>1, <3>2
  <2>2. CASE DbRow.node = Me /\ DbRow.at = rows[e].at /\ Dispatch("health", "unclaimed", NoConn, Release(DbRow.epoch))
    <3>1. DbRow.epoch \in 1..Len(rows) /\ DbRow = rows[DbRow.epoch]
      BY <1>0, <2>2, DbRowGiven, OwnershipAssumption DEF NoOwner
    <3>2. DbRow.epoch = e
      BY <1>0, <1>1, <2>2, <3>1 DEF Seconds, RowSeconds
    <3>3. call'["health"] # Idle /\ call'["health"].cmd = Release(e)
      BY <1>0, <2>2, <3>2, DispatchEffect, ThreadNames
    <3> QED
      BY <3>3, ReleaseWatches, ThreadNames
  <2> QED
    BY <1>3, <2>1, <2>2, AmbiguousActs
<1> QED
  BY <1>2, <1>3

\* A thread is releasing the epoch.
LEMMA ReleaseHeld ==
    ASSUME GhostInv, [Next]_vars, up', strands' = {}, rows' = rows, Row.node = Me,
           NEW e, e = Row.epoch, NEW t \in Threads, call[t] # Idle, call[t].cmd = Release(e)
    PROVE  Watched(e)'
<1> USE DEF GhostInv, GhostParts
<1>0. LeaseInv /\ TypeOK
  BY DEF LeaseInv
<1>1. call[t].cmd.op = "release" /\ call[t].cmd.epoch = e /\ call[t].st # "idle"
  <2>1. call[t] \in Calls
    BY <1>0 DEF TypeOK
  <2> QED
    BY <2>1 DEF Release, Calls
<1>2. ~Ok(t)
  BY <1>1, NotReleased
<1>3. CASE call'[t] # Idle /\ call'[t].cmd = call[t].cmd
  BY <1>3, ReleaseWatches
<1>4. CASE call'[t] = call[t]
  BY <1>3, <1>4
<1>5. CASE Commit(t)
  BY <1>0, <1>3, <1>5, CommitEffect
<1>6. CASE FailUnsent(t)
  <2>1. call' = [call EXCEPT ![t].st = "unsent"]
    BY <1>6 DEF FailUnsent
  <2> QED
    BY <1>0, <1>1, <1>3, <2>1, OutcomeEffect
<1>7. CASE FailDispatched(t)
  <2>1. call' = [call EXCEPT ![t].st = "failed"]
    BY <1>7 DEF FailDispatched
  <2> QED
    BY <1>0, <1>1, <1>3, <2>1, OutcomeEffect
<1>8. CASE ReleaseReturns(t)
  <2>1. e \in pending'
    BY <1>1, <1>2, <1>8 DEF ReleaseReturns, KeepRelease
  <2> QED
    BY <2>1 DEF Watched
<1>9. t = "worker" => ~(AcquireGranted \/ InstallPublisher \/ RejectPublish)
  BY <1>0, <1>1, ReturnsAcquire DEF AcquireGranted, InstallPublisher, RejectPublish
<1>10. CASE t = "poll" /\ RetryReturns
  <2>1. e \in pending'
    BY <1>1, <1>2, <1>10 DEF RetryReturns, KeepRelease
  <2> QED
    BY <2>1 DEF Watched
<1>11. CASE t = "health" /\ UnclaimedReturns
  <2>1. rows'[e].at \in ambiguous'
    BY <1>1, <1>2, <1>11 DEF UnclaimedReturns
  <2> QED
    BY <2>1 DEF Watched
<1>12. t = "health" => ~(RecoverGranted \/ RecoverConflicts \/ RecoverFails)
  BY <1>0, <1>1, ReturnsAcquire DEF RecoverGranted, RecoverConflicts, RecoverFails
<1>13. t = "health" => ~GivebackReturns
  BY <1>2 DEF GivebackReturns, Strand
<1>14. CASE t = "cleanup" /\ CleanReturns
  <2>1. call[t].why = "stale"
    BY <1>14 DEF CleanReturns, Blocked
  <2>2. e \in stale'
    BY <1>1, <1>2, <1>14, <2>1 DEF CleanReturns, KnownCalls, CallKnown
  <2> QED
    BY <2>2 DEF Watched
<1> QED
  BY <1>0, <1>1, <1>4, <1>5, <1>6, <1>7, <1>8, <1>9, <1>10, <1>11, <1>12, <1>13, <1>14, ThreadActs

\* A thread has the answer of the acquire that was granted the epoch.
LEMMA AnswerHeld ==
    ASSUME GhostInv, [Next]_vars, up', strands' = {}, Row.node = Me,
           NEW e, e = Row.epoch, NEW t \in Threads, call[t] # Idle, call[t].st \in {"answered", "granted"},
           call[t].cmd.op = "acquire", call[t].index = e
    PROVE  Watched(e)'
<1> USE DEF GhostInv, GhostParts
<1>0. LeaseInv /\ TypeOK
  BY DEF LeaseInv
<1>1. e # 0 /\ call[t].st # "idle"
  BY OwnerRow
<1>2. CASE call'[t] = call[t]
  BY <1>2, AnswerWatches
<1>3. ~(Commit(t) \/ FailUnsent(t) \/ FailDispatched(t))
  BY DEF Commit, FailUnsent, FailDispatched
<1>4. ~ReleaseReturns(t)
  BY <1>0, ReturnsRelease DEF ReleaseReturns
<1>5. CASE t = "worker" /\ AcquireGranted
  <2>1. call' = [call EXCEPT ![t].st = "granted"]
    BY <1>5 DEF AcquireGranted
  <2>2. call'[t] # Idle /\ call'[t].st = "granted" /\ call'[t].cmd = call[t].cmd /\ call'[t].index = call[t].index
    BY <1>0, <1>1, <2>1, OutcomeEffect
  <2> QED
    BY <2>2, AnswerWatches
<1>6. CASE t = "worker" /\ InstallPublisher
  <2>1. call[t].why = "publish" /\ epochs' = [epochs EXCEPT ![call[t].conn] = e]
    BY <1>6 DEF InstallPublisher, Blocked
  <2>2. call[t].conn \in Conns
    BY <2>1 DEF KnownCalls, CallKnown
  <2>3. epochs'[call[t].conn] = e
    BY <1>0, <2>1, <2>2 DEF TypeOK
  <2> QED
    BY <2>2, <2>3 DEF Watched
<1>7. t = "worker" => ~RejectPublish
  BY <1>1 DEF RejectPublish, Failed, Ok, GrantTo
<1>8. t = "poll" => ~RetryReturns
  BY <1>0, ReturnsRelease DEF RetryReturns
<1>9. t = "health" => ~UnclaimedReturns /\ ~GivebackReturns
  BY <1>0, ReturnsRelease DEF UnclaimedReturns, GivebackReturns
<1>10. t = "health" => ~RecoverConflicts /\ ~RecoverFails
  BY <1>1 DEF RecoverConflicts, RecoverFails, Failed, Ok, GrantTo
<1>11. CASE t = "health" /\ RecoverGranted
  <2>1. CASE Retagged = {}
    <3>1. Dispatch("health", "giveback", NoConn, Release(e))
      BY <1>11, <2>1 DEF RecoverGranted
    <3>2. call'["health"] # Idle /\ call'["health"].cmd = Release(e)
      BY <1>0, <3>1, DispatchEffect, ThreadNames
    <3> QED
      BY <3>2, ReleaseWatches, ThreadNames
  <2>2. CASE Retagged # {}
    <3>1. PICK c \in Conns : c \in Retagged
      BY <2>2 DEF Retagged
    <3>2. epochs'[c] = e
      BY <1>11, <3>1 DEF RecoverGranted
    <3> QED
      BY <3>2 DEF Watched
  <2> QED
    BY <2>1, <2>2
<1>12. t = "cleanup" => ~CleanReturns
  BY <1>0, ReturnsRelease DEF CleanReturns
<1> QED
  BY <1>0, <1>1, <1>2, <1>3, <1>4, <1>5, <1>6, <1>7, <1>8, <1>9, <1>10, <1>11, <1>12, ThreadActs

\* A thread's acquire failed after it was granted.
LEMMA FailedHeld ==
    ASSUME GhostInv, [Next]_vars, up', rows' = rows, NEW e, NEW t \in Threads, call[t] # Idle,
           call[t].st = "failed", call[t].cmd = Acquire(Me, rows[e].at)
    PROVE  Watched(e)'
<1>1. LeaseInv /\ call[t].cmd.op = "acquire" /\ call[t].cmd.at = rows[e].at
  BY DEF GhostInv, Acquire
<1>2. CASE call'[t] = call[t]
  BY <1>2 DEF Watched
<1>3. CASE call'[t] # call[t]
  <2>1. rows'[e].at \in ambiguous'
    BY <1>1, <1>3, FailedKept
  <2> QED
    BY <2>1 DEF Watched
<1> QED
  BY <1>2, <1>3

-----------------------------------------------------------------------------
\* The row of this node goes on being watched.
LEMMA WatchedStays ==
    ASSUME GhostInv, [Next]_vars, strands' = {}, rows' = rows, Row.node = Me, NEW e, e = Row.epoch
    PROVE  Watched(e)'
<1> USE DEF GhostInv, GhostParts
<1>0. LeaseInv /\ TypeOK
  BY DEF LeaseInv
<1>1. e = Len(rows) /\ e \in 1..Len(rows) /\ Row = rows[e] /\ DOMAIN rows = 1..Len(rows)
  BY <1>0, OwnerRow, LenProperties DEF TypeOK
<1>2. CASE ~up'
  BY <1>2 DEF Watched
<1>3. CASE up' /\ ~up
  <2>1. Restart
    BY <1>3, UpFrame DEF Crash
  <2>2. ~\E k \in DOMAIN rows : k > applied /\ rows[k].node = Me
    BY <2>1 DEF Restart, Strand
  <2>3. applied = e
    BY <1>0, <1>1, <2>2 DEF TypeOK
  <2>4. DbRow = Row
    BY <1>1, <2>3 DEF DbRow
  <2>5. e \in stale'
    BY <2>1, <2>4 DEF Restart, LeftOver
  <2> QED
    BY <2>5 DEF Watched
<1>4. CASE up' /\ up
  <2>1. Watched(e)
    BY StrandsStay DEF NoGhostOwner
  <2>2. ASSUME NEW t \in Threads, call[t] # Idle,
               \/ call[t].cmd = Release(e)
               \/ call[t].st \in {"answered", "granted"} /\ call[t].cmd.op = "acquire" /\ call[t].index = e
               \/ call[t].st = "failed" /\ call[t].cmd = Acquire(Me, rows[e].at)
        PROVE  Watched(e)'
    BY <1>4, <2>2, ReleaseHeld, AnswerHeld, FailedHeld
  <2>3. (\E c \in Conns : epochs[c] = e) => Watched(e)'
    BY <1>4, EpochHeld
  <2>4. e \in pending \cup stale => Watched(e)'
    BY <1>4, QueueHeld
  <2>5. rows[e].at \in ambiguous => Watched(e)'
    BY <1>4, AmbiguousHeld
  <2> QED
    BY <1>4, <2>1, <2>2, <2>3, <2>4, <2>5 DEF Watched
<1> QED
  BY <1>2, <1>3, <1>4

\* A row that is granted to this node is watched from the start.
LEMMA WatchedFirst ==
    ASSUME GhostInv, [Next]_vars, strands' = {}, rows' # rows, Row'.node = Me, NEW e, e = Row'.epoch
    PROVE  Watched(e)'
<1> USE DEF GhostInv, GhostParts
<1>0. LeaseInv /\ TypeOK /\ Seconds
  BY DEF LeaseInv
<1>1. e = Len(rows) + 1 /\ Row' = rows'[Len(rows) + 1]
  BY <1>0, OwnerRowNext, LogGrows
<1>2. ASSUME NEW c \in Writes, Append1(c)
      PROVE  c.op = "acquire" /\ ~Refused(c) /\ c.node = Me /\ rows'[e].at = c.at
  <2>1. CASE c.op = "acquire" /\ ~Refused(c)
    <3>1. rows'[Len(rows) + 1] = [node |-> c.node, epoch |-> Len(rows) + 1, at |-> c.at]
      BY <1>0, <1>2, <2>1, AppendCases
    <3> QED
      BY <1>1, <2>1, <3>1
  <2>2. CASE ~(c.op = "acquire" /\ ~Refused(c))
    <3>1. rows'[Len(rows) + 1] = NoOwner
      BY <1>0, <1>2, <2>2, AppendCases
    <3> QED
      BY <1>1, <3>1, OwnershipAssumption DEF NoOwner
  <2> QED
    BY <2>1, <2>2
<1>3. ASSUME NEW t \in Threads, Commit(t) PROVE Watched(e)'
  <2>1. call[t].cmd \in Writes /\ Append1(call[t].cmd)
    BY <1>0, <1>3, CommitKeeps DEF Commit, LeaseInv
  <2>2. call[t].cmd.op = "acquire" /\ ~Refused(call[t].cmd)
    BY <1>2, <2>1
  <2>3. call'[t] # Idle /\ call'[t].st = "answered" /\ call'[t].cmd = call[t].cmd /\ call'[t].index = e
    BY <1>0, <1>1, <1>3, <2>2, CommitEffect
  <2> QED
    BY <2>2, <2>3, AnswerWatches
<1>4. ASSUME NEW c \in flight, CommitLate(c) PROVE Watched(e)'
  <2>1. c \in Writes /\ Append1(c) /\ UNCHANGED <<call, ambiguous, up>>
    BY <1>0, <1>4 DEF CommitLate, TypeOK, queues, health
  <2>2. c.op = "acquire" /\ c.node = Me /\ rows'[e].at = c.at
    BY <1>2, <2>1
  <2>3. c = Acquire(Me, rows'[e].at)
    BY <2>1, <2>2 DEF Writes, Acquire
  <2>4. ~up \/ c.at \in ambiguous \/ \E t \in Threads : call[t] # Idle /\ call[t].st = "failed" /\ call[t].cmd = c
    BY <2>2, StrandsStay DEF FlightKnown
  <2> QED
    BY <2>1, <2>2, <2>3, <2>4 DEF Watched
<1>5. ~Foreign
  BY <1>2, OwnershipAssumption DEF Foreign
<1>6. ~(\E t \in Threads : FailDispatched(t) \/ Moves(t)) /\ ~SweepFails /\ ~Crash
  BY DEF FailDispatched, Moves, SweepFails, Crash
<1> QED
  BY <1>3, <1>4, <1>5, <1>6, StepKinds

\* Every step keeps the owner row watched.
LEMMA NoGhostStep == ASSUME GhostInv, [Next]_vars PROVE NoGhostOwner'
<1> SUFFICES ASSUME strands' = {}, Row'.node = Me PROVE Watched(Row.epoch)'
  BY DEF NoGhostOwner
<1>1. CASE rows' = rows
  <2>1. Row' = Row
    BY <1>1 DEF Row
  <2>2. ASSUME NEW e, e = Row.epoch PROVE Watched(e)'
    BY <1>1, <2>1, <2>2, WatchedStays
  <2> QED
    BY <2>1, <2>2 DEF Watched
<1>2. CASE rows' # rows
  <2>1. ASSUME NEW e, e = Row'.epoch PROVE Watched(e)'
    BY <1>2, <2>1, WatchedFirst
  <2> QED
    BY <2>1 DEF Watched
<1> QED
  BY <1>1, <1>2

\* The invariant holds initially.
LEMMA GhostStart == ASSUME Init PROVE GhostInv
<1>1. /\ rows = <<>> /\ Len(rows) = 0 /\ flight = {} /\ pending = {} /\ stale = {} /\ up = TRUE
      /\ \A t \in Threads : call[t] = Idle
  BY DEF Init
<1>2. Stopped /\ KnownCalls /\ KnownEpochs /\ FlightKnown
  BY <1>1 DEF Stopped, KnownCalls, KnownEpochs, FlightKnown
<1>3. Seconds
  BY <1>1 DEF Seconds, CallSeconds, FlightSeconds, RowSeconds, OpenSeconds, Acquires
<1>4. NoGhostOwner
  BY <1>1, OwnershipAssumption DEF NoGhostOwner, Row, NoOwner
<1> QED
  BY <1>2, <1>3, <1>4, LeaseStart DEF GhostInv, GhostParts

\* A committed owner row is never left behind, for any set of connections and
\* any number of publishes, faults, partitions and crashes: until one of the
\* events of `strands' happens, a node that owns the stream holds the epoch for
\* a publisher, has it in one of the queues of the manager or the bridge, or is
\* in the call that will release it (manager.rs: the ambiguous acquires, the
\* pending releases and the left-over rows of a restart miss no grant).
THEOREM NoGhostAlways == Spec => []NoGhostOwner
<1>1. Init => GhostInv
  BY GhostStart
<1>2. GhostInv /\ [Next]_vars => GhostInv'
  <2> SUFFICES ASSUME GhostInv, [Next]_vars PROVE GhostInv'
    OBVIOUS
  <2>1. LeaseInv'
    BY LeaseStep DEF GhostInv
  <2>2. Stopped' /\ KnownCalls' /\ KnownEpochs'
    BY StoppedStep, CallsKnownStep, EpochsKnownStep
  <2>3. Seconds' /\ FlightKnown' /\ NoGhostOwner'
    BY SecondsStep, FlightKnownStep, NoGhostStep
  <2> QED
    BY <2>1, <2>2, <2>3 DEF GhostInv, GhostParts
<1>3. GhostInv => NoGhostOwner
  BY DEF GhostInv, GhostParts
<1> QED
  BY <1>1, <1>2, <1>3, PTL DEF Spec
=============================================================================
