-------------------------- MODULE MediaPlaneProofs --------------------------
(***************************************************************************)
(* Proofs about the media plane of a node, for every number of sessions,   *)
(* connections, streams and outputs and for queues of every length: what   *)
(* the run of MCMediaPlane checks on a small instance.                     *)
(*                                                                         *)
(* The subscription part has three invariants, one on top of the other:    *)
(*                                                                         *)
(*   RefsInv   every reference of a session that is gone, and every task   *)
(*             that would make one, is followed by a task that drops it;   *)
(*   CountInv  of the messages between a subscriber and its owner, and the *)
(*             answers on their way back, what says how often the owner    *)
(*             counts this node: at most once;                             *)
(*   FedInv    a reference that is thought to be served is served, asked   *)
(*             for, about to be refused, or about to be replayed; one that *)
(*             is not served has a retry.                                  *)
(*                                                                         *)
(* The last two hold of a node whose history is trusted (Trusted), as the  *)
(* properties do.  The outputs part has one invariant, OutputsInv, which   *)
(* says of the manager's record that every session is in one pair of hands *)
(* and that every output suits the session it belongs to.                  *)
(***************************************************************************)
EXTENDS MCMediaPlane, SequenceTheorems, TLAPS

-----------------------------------------------------------------------------
(* References: who holds one, and which task will drop it.                 *)

\* What a task of the manager does: hold a reference for the sessions who, or
\* drop it, or drop everybody's.
Task == [op : {"sub", "unsub", "all"}, who : SUBSET Sessions]

\* The task at place i will give x a reference.
Asks(i, x) == i \in DOMAIN tasks /\ tasks[i].op = "sub" /\ x \in tasks[i].who
\* The task at place j drops every reference (unsubscribe_remote_all).
DropsAll(j) == j \in DOMAIN tasks /\ tasks[j].op = "all"
\* The task at place j drops the reference of x.
Drops(j, x) == DropsAll(j) \/ (j \in DOMAIN tasks /\ tasks[j].op = "unsub" /\ tasks[j].who = {x})

\* Every task that gives x a reference is followed by one that drops it.
Covered(x) == \A k \in Nat : Asks(k, x) => \E j \in Nat : j > k /\ Drops(j, x)
\* Every task that gives x a reference is followed by one that drops all.
AllCovered(x) == \A k \in Nat : Asks(k, x) => \E j \in Nat : j > k /\ DropsAll(j)

\* The types of what the references depend on.
RefsType ==
    /\ tasks \in Seq(Task) /\ live \in [Sessions -> {"new", "live", "gone"}]
    /\ owners \subseteq Sessions

\* A session that is gone loses what it has, and what it has asked for.
GoneDropped ==
    \A x \in Sessions : live[x] = "gone" =>
        /\ x \in owners => \E j \in Nat : Drops(j, x)
        /\ Covered(x)
\* So does everybody once this node owns the stream.
AwayDropped ==
    ~owner => /\ owners # {} => \E j \in Nat : DropsAll(j)
              /\ \A x \in Sessions : AllCovered(x)
\* A session that has not started has asked for nothing.
NewUnknown == \A x \in Sessions : live[x] = "new" => x \notin owners /\ \A i \in Nat : ~Asks(i, x)
\* The standby replica asks once at a time.
StandbyOnce == \A i, j \in Nat : Asks(i, Standby) /\ Asks(j, Standby) => i = j

\* The invariant of the references.
RefsInv == RefsType /\ (Trusted => GoneDropped /\ AwayDropped /\ NewUnknown /\ StandbyOnce)

\* It holds at the start.
LEMMA RefsInit == Init => RefsInv
<1> SUFFICES ASSUME Init PROVE RefsInv
  OBVIOUS
<1>1. tasks \in Seq(Task)
  BY DEF Init
<1> QED
  BY <1>1 DEF Init, RefsInv, RefsType, GoneDropped, AwayDropped, NewUnknown, StandbyOnce,
                Covered, AllCovered, Asks, Drops, DropsAll

\* It gives NoLeakedRef: with no task left, who has a reference is there.
LEMMA RefsGive == RefsInv => NoLeakedRef
<1> SUFFICES ASSUME RefsInv, Trusted, tasks = <<>>, NEW x \in owners PROVE live[x] = "live"
  BY DEF NoLeakedRef
<1> QED
  BY DEF RefsInv, RefsType, GoneDropped, NewUnknown, Drops, DropsAll

\* A task at the end.
LEMMA Spawned ==
    ASSUME RefsType, NEW op \in {"sub", "unsub", "all"}, NEW who \in SUBSET Sessions, Spawn(op, who)
    PROVE  /\ tasks' \in Seq(Task) /\ Len(tasks') = Len(tasks) + 1
           /\ tasks'[Len(tasks) + 1] = [op |-> op, who |-> who]
           /\ \A i \in DOMAIN tasks : tasks'[i] = tasks[i]
           /\ DOMAIN tasks = 1 .. Len(tasks) /\ DOMAIN tasks' = 1 .. Len(tasks) + 1 /\ Len(tasks) \in Nat
  BY DEF RefsType, Spawn, Task

\* A task that is done: those behind it move up.
LEMMA Taken ==
    ASSUME RefsType, NEW i \in DOMAIN tasks, Take(i)
    PROVE  /\ tasks' \in Seq(Task) /\ DOMAIN tasks' = 1 .. Len(tasks) - 1
           /\ DOMAIN tasks = 1 .. Len(tasks) /\ Len(tasks) \in Nat
           /\ \A j \in 1 .. Len(tasks) - 1 : tasks'[j] = IF j < i THEN tasks[j] ELSE tasks[j + 1]
<1>1. /\ tasks \in Seq(Task) /\ DOMAIN tasks = 1 .. Len(tasks) /\ Len(tasks) \in Nat
      /\ i \in 1 .. Len(tasks)
  BY DEF RefsType
<1> DEFINE f == SubSeq(tasks, 1, i - 1)
           g == SubSeq(tasks, i + 1, Len(tasks))
<1>2. /\ f \in Seq(Task) /\ Len(f) = i - 1 /\ \A j \in 1 .. i - 1 : f[j] = tasks[j]
  BY <1>1
<1>3. /\ g \in Seq(Task) /\ Len(g) = Len(tasks) - i
      /\ \A j \in 1 .. Len(tasks) - i : g[j] = tasks[i + j]
  BY <1>1
<1> HIDE DEF f, g
<1>4. /\ f \o g \in Seq(Task) /\ Len(f \o g) = Len(f) + Len(g)
      /\ \A j \in 1 .. Len(f) + Len(g) : (f \o g)[j] = IF j <= Len(f) THEN f[j] ELSE g[j - Len(f)]
  BY <1>2, <1>3, ConcatProperties
<1>5. Len(f) + Len(g) = Len(tasks) - 1
  BY <1>1, <1>2, <1>3
<1>6. ASSUME NEW j \in 1 .. Len(tasks) - 1
      PROVE  (f \o g)[j] = IF j < i THEN tasks[j] ELSE tasks[j + 1]
  <2>1. (f \o g)[j] = IF j <= i - 1 THEN f[j] ELSE g[j - (i - 1)]
    BY <1>2, <1>4, <1>5
  <2>2. CASE j < i
    BY <1>1, <1>2, <2>1, <2>2
  <2>3. CASE ~(j < i)
    <3>1. j - (i - 1) \in 1 .. Len(tasks) - i /\ i + (j - (i - 1)) = j + 1
      BY <1>1, <2>3
    <3>2. g[j - (i - 1)] = tasks[i + (j - (i - 1))]
      BY <1>3, <3>1
    <3>3. ~(j <= i - 1)
      BY <1>1, <2>3
    <3> QED
      BY <2>1, <2>3, <3>1, <3>2, <3>3
  <2> QED
    BY <2>2, <2>3
<1>7. tasks' = f \o g
  BY DEF Take, f, g
<1>8. tasks' \in Seq(Task) /\ Len(tasks') = Len(tasks) - 1
  BY <1>4, <1>5, <1>7
<1>9. DOMAIN tasks' = 1 .. Len(tasks) - 1
  BY <1>8
<1> QED
  BY <1>1, <1>6, <1>7, <1>8, <1>9
\* A task that is taken from the list loses no later release to a request
\* before it.
LEMMA TakenKeeps ==
    ASSUME RefsType, NEW i \in DOMAIN tasks, Take(i),
           tasks[i].op # "sub" => \A k \in 1 .. i - 1 : tasks[k].op # "sub"
    PROVE  /\ tasks' \in Seq(Task)
           /\ \A x : Covered(x) => Covered(x)'
           /\ \A x : AllCovered(x) => AllCovered(x)'
           /\ \A x : \A j \in Nat : j # i /\ Drops(j, x) => \E k \in Nat : Drops(k, x)'
           /\ \A j \in Nat : j # i /\ DropsAll(j) => \E k \in Nat : DropsAll(k)'
           /\ \A x : \A j \in Nat : Asks(j, x)' => \E k \in Nat : k # i /\ Asks(k, x)
           /\ StandbyOnce => StandbyOnce'
<1>1. /\ tasks' \in Seq(Task) /\ DOMAIN tasks' = 1 .. Len(tasks) - 1
      /\ DOMAIN tasks = 1 .. Len(tasks) /\ Len(tasks) \in Nat /\ i \in 1 .. Len(tasks)
      /\ \A j \in 1 .. Len(tasks) - 1 : tasks'[j] = IF j < i THEN tasks[j] ELSE tasks[j + 1]
  BY Taken
<1> DEFINE From(j) == IF j < i THEN j ELSE j + 1
           To(k) == IF k < i THEN k ELSE k - 1
<1>2. \A j \in DOMAIN tasks' : From(j) \in DOMAIN tasks \ {i} /\ tasks'[j] = tasks[From(j)]
  BY <1>1
<1>3. \A k \in DOMAIN tasks \ {i} : To(k) \in DOMAIN tasks' /\ From(To(k)) = k
  BY <1>1
<1>4. \A x : \A j \in Nat : Asks(j, x)' => From(j) \in Nat \ {i} /\ Asks(From(j), x)
  BY <1>1, <1>2 DEF Asks
<1>5. \A j \in Nat \ {i} : DropsAll(j) => To(j) \in Nat /\ DropsAll(To(j))'
  BY <1>1, <1>2, <1>3 DEF DropsAll
<1>6. \A x : \A j \in Nat \ {i} : Drops(j, x) => To(j) \in Nat /\ Drops(To(j), x)'
  BY <1>1, <1>2, <1>3 DEF Drops, DropsAll
<1>7. ASSUME NEW j \in Nat, NEW x, Asks(j, x)', NEW k \in Nat, k > From(j), Drops(k, x)
      PROVE  k # i /\ To(k) > j
  <2>1. k # i
    <3>1. SUFFICES ASSUME k = i PROVE FALSE
      OBVIOUS
    <3>2. tasks[i].op # "sub"
      BY <1>7, <3>1 DEF Drops, DropsAll
    <3>3. From(j) \in 1 .. i - 1 /\ tasks[From(j)].op = "sub"
      BY <1>1, <1>4, <1>7, <3>1 DEF Asks
    <3> QED
      BY <3>2, <3>3
  <2> QED
    BY <1>1, <1>7, <2>1
<1>8. ASSUME NEW x, Covered(x) PROVE Covered(x)'
  <2>1. SUFFICES ASSUME NEW j \in Nat, Asks(j, x)' PROVE \E k \in Nat : k > j /\ Drops(k, x)'
    BY DEF Covered
  <2>2. PICK k \in Nat : k > From(j) /\ Drops(k, x)
    BY <1>4, <1>8, <2>1 DEF Covered
  <2> QED
    BY <1>6, <1>7, <2>1, <2>2
<1>9. ASSUME NEW x, AllCovered(x) PROVE AllCovered(x)'
  <2>1. SUFFICES ASSUME NEW j \in Nat, Asks(j, x)' PROVE \E k \in Nat : k > j /\ DropsAll(k)'
    BY DEF AllCovered
  <2>2. PICK k \in Nat : k > From(j) /\ DropsAll(k)
    BY <1>4, <1>9, <2>1 DEF AllCovered
  <2>3. Drops(k, x)
    BY <2>2 DEF Drops
  <2> QED
    BY <1>5, <1>7, <2>1, <2>2, <2>3
<1>10. ASSUME StandbyOnce PROVE StandbyOnce'
  <2>1. SUFFICES ASSUME NEW j \in Nat, NEW k \in Nat, Asks(j, Standby)', Asks(k, Standby)' PROVE j = k
    BY DEF StandbyOnce
  <2>2. From(j) = From(k)
    BY <1>4, <1>10, <2>1 DEF StandbyOnce
  <2>3. j \in DOMAIN tasks' /\ k \in DOMAIN tasks'
    BY <2>1 DEF Asks
  <2> QED
    BY <1>1, <2>2, <2>3
<1> HIDE DEF From, To
<1> QED
  BY <1>1, <1>4, <1>5, <1>6, <1>8, <1>9, <1>10
\* The same when one session's request of a task is served.
LEMMA TakenOneKeeps ==
    ASSUME RefsType, NEW i \in DOMAIN tasks, tasks[i].op = "sub", NEW y \in tasks[i].who, TakeOne(i, y)
    PROVE  /\ tasks' \in Seq(Task)
           /\ \A x : Covered(x) => Covered(x)'
           /\ \A x : AllCovered(x) => AllCovered(x)'
           /\ \A x : (\E j \in Nat : Drops(j, x)) => \E k \in Nat : Drops(k, x)'
           /\ (\E j \in Nat : DropsAll(j)) => \E k \in Nat : DropsAll(k)'
           /\ \A x : \A j \in Nat : Asks(j, x)' => \E k \in Nat : Asks(k, x) /\ (x = y => k # i)
           /\ StandbyOnce => StandbyOnce'
<1>1. CASE tasks[i].who = {y}
  <2>1. Take(i)
    BY <1>1 DEF TakeOne
  <2>2. \A x : ~Drops(i, x) /\ ~DropsAll(i)
    BY DEF Drops, DropsAll
  <2> QED
    BY <2>1, <2>2, TakenKeeps
<1>2. CASE tasks[i].who # {y}
  <2>1. tasks' = [tasks EXCEPT ![i].who = @ \ {y}]
    BY <1>2 DEF TakeOne
  <2>2. tasks \in Seq(Task) /\ tasks[i] \in Task
    BY DEF RefsType
  <2>3. /\ DOMAIN tasks' = DOMAIN tasks
        /\ \A j \in DOMAIN tasks : j # i => tasks'[j] = tasks[j]
        /\ tasks'[i].op = "sub" /\ tasks'[i].who = tasks[i].who \ {y}
    BY <2>1, <2>2 DEF Task
  <2>4. tasks' \in Seq(Task)
    BY <2>1, <2>2 DEF Task
  <2>5. \A j : DropsAll(j)' <=> DropsAll(j)
    BY <2>3 DEF DropsAll
  <2>6. \A x, j : Drops(j, x)' <=> Drops(j, x)
    BY <2>3 DEF Drops, DropsAll
  <2>7. \A x, j : Asks(j, x)' <=> Asks(j, x) /\ ~(x = y /\ j = i)
    BY <2>3 DEF Asks
  <2>8. /\ \A x : Covered(x) => Covered(x)'
        /\ \A x : AllCovered(x) => AllCovered(x)'
    BY <2>5, <2>6, <2>7 DEF Covered, AllCovered
  <2>9. StandbyOnce => StandbyOnce'
    BY <2>7 DEF StandbyOnce
  <2> QED
    BY <2>4, <2>5, <2>6, <2>7, <2>8, <2>9
<1> QED
  BY <1>1, <1>2

\* A new task releases what is asked for before it.
LEMMA SpawnedKeeps ==
    ASSUME RefsType, NEW op \in {"sub", "unsub", "all"}, NEW who \in SUBSET Sessions, Spawn(op, who)
    PROVE  /\ tasks' \in Seq(Task)
           /\ \A x : Covered(x) /\ (op = "sub" => x \notin who) => Covered(x)'
           /\ \A x : op = "all" \/ (op = "unsub" /\ who = {x}) => Covered(x)' /\ \E j \in Nat : Drops(j, x)'
           /\ \A x : AllCovered(x) /\ (op = "sub" => x \notin who) => AllCovered(x)'
           /\ op = "all" => (\A x : AllCovered(x)') /\ \E j \in Nat : DropsAll(j)'
           /\ \A x : \A j \in Nat : Drops(j, x) => Drops(j, x)'
           /\ \A j \in Nat : DropsAll(j) => DropsAll(j)'
           /\ \A x : \A j \in Nat : Asks(j, x)' =>
                 Asks(j, x) \/ (op = "sub" /\ x \in who /\ j = Len(tasks) + 1)
<1> DEFINE n == Len(tasks) + 1
<1>1. /\ tasks' \in Seq(Task) /\ n \in Nat /\ tasks'[n] = [op |-> op, who |-> who]
      /\ n \in DOMAIN tasks' /\ n \notin DOMAIN tasks
      /\ \A j \in DOMAIN tasks : j \in Nat /\ j < n /\ tasks'[j] = tasks[j]
      /\ \A j \in DOMAIN tasks' : j \in DOMAIN tasks \/ j = n
      /\ \A j \in DOMAIN tasks : j \in DOMAIN tasks'
  BY Spawned
<1> HIDE DEF n
<1>2. \A j : DropsAll(j)' <=> DropsAll(j) \/ (j = n /\ op = "all")
  BY <1>1 DEF DropsAll
<1>3. \A x, j : Drops(j, x)' <=> Drops(j, x) \/ (j = n /\ (op = "all" \/ (op = "unsub" /\ who = {x})))
  BY <1>1 DEF Drops, DropsAll
<1>4. \A x, j : Asks(j, x)' <=> Asks(j, x) \/ (j = n /\ op = "sub" /\ x \in who)
  BY <1>1 DEF Asks
<1>5. \A x, j : Asks(j, x) => j < n
  BY <1>1 DEF Asks
<1>6. \A x : Covered(x) /\ (op = "sub" => x \notin who) => Covered(x)'
  BY <1>3, <1>4 DEF Covered
<1>7. \A x : AllCovered(x) /\ (op = "sub" => x \notin who) => AllCovered(x)'
  BY <1>2, <1>4 DEF AllCovered
<1>8. ASSUME NEW x, op = "all" \/ (op = "unsub" /\ who = {x})
      PROVE  Covered(x)' /\ \E j \in Nat : Drops(j, x)'
  BY <1>1, <1>3, <1>4, <1>5, <1>8 DEF Covered
<1>9. ASSUME op = "all" PROVE (\A x : AllCovered(x)') /\ \E j \in Nat : DropsAll(j)'
  BY <1>1, <1>2, <1>4, <1>5, <1>9 DEF AllCovered
<1> QED
  BY <1>1, <1>2, <1>3, <1>4, <1>6, <1>7, <1>8, <1>9 DEF n

\* Every step keeps it.
LEMMA RefsStep == RefsInv /\ [Next]_vars => RefsInv'
<1> SUFFICES ASSUME RefsInv, [Next]_vars PROVE RefsInv'
  OBVIOUS
<1> USE DEF local, refs, peers, remote, counts
<1>1. RefsType
  BY DEF RefsInv
\* What leaves the sessions, the tasks and the owner alone keeps the invariant.
<1>2. ASSUME UNCHANGED <<live, owner, tasks>>, owners' = owners \/ owners' = {}, doubt \subseteq doubt'
      PROVE  RefsInv'
  <2>1. RefsType'
    BY <1>1, <1>2 DEF RefsType
  <2>2. \A x : (Covered(x)' <=> Covered(x)) /\ (AllCovered(x)' <=> AllCovered(x))
    BY <1>2 DEF Covered, AllCovered, Asks, Drops, DropsAll
  <2>3. ASSUME Trusted' PROVE GoneDropped' /\ AwayDropped' /\ NewUnknown' /\ StandbyOnce'
    <3>1. GoneDropped /\ AwayDropped /\ NewUnknown /\ StandbyOnce
      BY <1>2, <2>3 DEF RefsInv, Trusted
    <3>2. GoneDropped'
      BY <1>2, <2>2, <3>1 DEF GoneDropped, Drops, DropsAll
    <3>3. AwayDropped'
      BY <1>2, <2>2, <3>1 DEF AwayDropped, DropsAll
    <3>4. NewUnknown' /\ StandbyOnce'
      BY <1>2, <3>1 DEF NewUnknown, StandbyOnce, Asks
    <3> QED
      BY <3>2, <3>3, <3>4
  <2> QED
    BY <2>1, <2>3 DEF RefsInv
<1>3. ASSUME NEW x \in Sessions, notify_play_subscription(x) PROVE RefsInv'
  <2> USE <1>3 DEF notify_play_subscription
  <2>1. live[x] = "new" /\ live' = [live EXCEPT ![x] = "live"] /\ UNCHANGED <<owner, owners, doubt>>
    OBVIOUS
  <2>2. CASE owner
    <3>1. Spawn("sub", {x})
      BY <2>2
    <3>2. /\ tasks' \in Seq(Task)
          /\ \A y : Covered(y) /\ y # x => Covered(y)'
          /\ \A y : \A j \in Nat : Drops(j, y) => Drops(j, y)'
          /\ \A y : \A j \in Nat : Asks(j, y)' => Asks(j, y) \/ (y = x /\ j = Len(tasks) + 1)
      BY <1>1, <3>1, SpawnedKeeps
    <3>3. RefsType'
      BY <1>1, <2>1, <3>2 DEF RefsType
    <3>4. ASSUME Trusted' PROVE GoneDropped' /\ AwayDropped' /\ NewUnknown' /\ StandbyOnce'
      <4>1. GoneDropped /\ NewUnknown /\ StandbyOnce
        BY <2>1, <3>4 DEF RefsInv, Trusted
      <4>2. GoneDropped'
        BY <1>1, <2>1, <3>2, <4>1 DEF GoneDropped, RefsType
      <4>3. AwayDropped'
        BY <2>1, <2>2 DEF AwayDropped
      <4>4. NewUnknown'
        BY <1>1, <2>1, <3>2, <4>1 DEF NewUnknown, RefsType
      <4>5. StandbyOnce'
        BY <2>1, <3>2, <4>1 DEF NewUnknown, StandbyOnce
      <4> QED
        BY <4>2, <4>3, <4>4, <4>5
    <3> QED
      BY <3>3, <3>4 DEF RefsInv
  <2>3. CASE ~owner
    <3>1. UNCHANGED tasks
      BY <2>3
    <3>2. RefsType'
      BY <1>1, <2>1, <3>1 DEF RefsType
    <3>3. ASSUME Trusted' PROVE GoneDropped' /\ AwayDropped' /\ NewUnknown' /\ StandbyOnce'
      <4>1. GoneDropped /\ AwayDropped /\ NewUnknown /\ StandbyOnce
        BY <2>1, <3>3 DEF RefsInv, Trusted
      <4>2. \A y : (Covered(y)' <=> Covered(y)) /\ (AllCovered(y)' <=> AllCovered(y))
        BY <3>1 DEF Covered, AllCovered, Asks, Drops, DropsAll
      <4>3. GoneDropped'
        BY <1>1, <2>1, <3>1, <4>1, <4>2 DEF GoneDropped, Drops, DropsAll, RefsType
      <4>4. AwayDropped' /\ StandbyOnce'
        BY <2>1, <3>1, <4>1, <4>2 DEF AwayDropped, StandbyOnce, Asks, DropsAll
      <4>5. NewUnknown'
        BY <1>1, <2>1, <3>1, <4>1 DEF NewUnknown, Asks, RefsType
      <4> QED
        BY <4>3, <4>4, <4>5
    <3> QED
      BY <3>2, <3>3 DEF RefsInv
  <2> QED
    BY <2>2, <2>3
<1>4. ASSUME NEW x \in Sessions, notify_play_unsubscribe(x) PROVE RefsInv'
  <2> USE <1>4 DEF notify_play_unsubscribe
  <2>1. live[x] = "live" /\ live' = [live EXCEPT ![x] = "gone"] /\ UNCHANGED <<owner, owners, doubt>>
    OBVIOUS
  <2>2. CASE owner \/ x = Standby
    <3>1. Spawn("unsub", {x})
      BY <2>2
    <3>2. /\ tasks' \in Seq(Task)
          /\ \A y : Covered(y) => Covered(y)'
          /\ \A y : AllCovered(y) => AllCovered(y)'
          /\ Covered(x)' /\ \E j \in Nat : Drops(j, x)'
          /\ \A y : \A j \in Nat : Drops(j, y) => Drops(j, y)'
          /\ \A j \in Nat : DropsAll(j) => DropsAll(j)'
          /\ \A y : \A j \in Nat : Asks(j, y)' => Asks(j, y)
      BY <1>1, <3>1, SpawnedKeeps
    <3>3. RefsType'
      BY <1>1, <2>1, <3>2 DEF RefsType
    <3>4. ASSUME Trusted' PROVE GoneDropped' /\ AwayDropped' /\ NewUnknown' /\ StandbyOnce'
      <4>1. GoneDropped /\ AwayDropped /\ NewUnknown /\ StandbyOnce
        BY <2>1, <3>4 DEF RefsInv, Trusted
      <4>2. GoneDropped'
        BY <1>1, <2>1, <3>2, <4>1 DEF GoneDropped, RefsType
      <4>3. AwayDropped'
        BY <2>1, <3>2, <4>1 DEF AwayDropped
      <4>4. NewUnknown'
        BY <1>1, <2>1, <3>2, <4>1 DEF NewUnknown, RefsType
      <4>5. StandbyOnce'
        BY <3>2, <4>1 DEF StandbyOnce
      <4> QED
        BY <4>2, <4>3, <4>4, <4>5
    <3> QED
      BY <3>3, <3>4 DEF RefsInv
  <2>3. CASE ~owner /\ x # Standby
    <3>1. UNCHANGED tasks
      BY <2>3
    <3>2. RefsType'
      BY <1>1, <2>1, <3>1 DEF RefsType
    <3>3. ASSUME Trusted' PROVE GoneDropped' /\ AwayDropped' /\ NewUnknown' /\ StandbyOnce'
      <4>1. GoneDropped /\ AwayDropped /\ NewUnknown /\ StandbyOnce
        BY <2>1, <3>3 DEF RefsInv, Trusted
      <4>2. \A y : (Covered(y)' <=> Covered(y)) /\ (AllCovered(y)' <=> AllCovered(y))
        BY <3>1 DEF Covered, AllCovered, Asks, Drops, DropsAll
      <4>3. (owners # {} => \E j \in Nat : DropsAll(j)) /\ AllCovered(x)
        BY <2>3, <4>1 DEF AwayDropped
      <4>4. (x \in owners => \E j \in Nat : Drops(j, x)) /\ Covered(x)
        BY <4>3 DEF Drops, Covered, AllCovered
      <4>5. \A y, j : Drops(j, y)' <=> Drops(j, y)
        BY <3>1 DEF Drops, DropsAll
      <4>6. GoneDropped'
        BY <1>1, <2>1, <4>1, <4>2, <4>4, <4>5 DEF GoneDropped, RefsType
      <4>7. AwayDropped' /\ StandbyOnce'
        BY <2>1, <3>1, <4>1, <4>2 DEF AwayDropped, StandbyOnce, Asks, DropsAll
      <4>8. NewUnknown'
        BY <1>1, <2>1, <3>1, <4>1 DEF NewUnknown, Asks, RefsType
      <4> QED
        BY <4>6, <4>7, <4>8
    <3> QED
      BY <3>2, <3>3 DEF RefsInv
  <2> QED
    BY <2>2, <2>3
<1>5. CASE OwnerMoves
  <2> USE <1>5 DEF OwnerMoves
  <2>1. owner' = ~owner /\ UNCHANGED <<live, owners, doubt>>
    OBVIOUS
  <2>2. CASE owner
    <3>1. Spawn("all", Sessions)
      BY <2>2
    <3>2. /\ tasks' \in Seq(Task)
          /\ \A y : Covered(y)' /\ AllCovered(y)' /\ \E j \in Nat : Drops(j, y)'
          /\ \E j \in Nat : DropsAll(j)'
          /\ \A y : \A j \in Nat : Asks(j, y)' => Asks(j, y)
      BY <1>1, <3>1, SpawnedKeeps
    <3>3. RefsType'
      BY <1>1, <2>1, <3>2 DEF RefsType
    <3>4. ASSUME Trusted' PROVE GoneDropped' /\ AwayDropped' /\ NewUnknown' /\ StandbyOnce'
      <4>1. NewUnknown /\ StandbyOnce
        BY <2>1, <3>4 DEF RefsInv, Trusted
      <4> QED
        BY <2>1, <3>2, <4>1 DEF GoneDropped, AwayDropped, NewUnknown, StandbyOnce
    <3> QED
      BY <3>3, <3>4 DEF RefsInv
  <2>3. CASE ~owner /\ Playing # {}
    <3>1. Spawn("sub", Playing) /\ Playing \in SUBSET Sessions /\ Standby \notin Playing
          /\ \A y \in Playing : live[y] = "live"
      BY <2>3 DEF Playing
    <3>2. /\ tasks' \in Seq(Task)
          /\ \A y : Covered(y) /\ y \notin Playing => Covered(y)'
          /\ \A y : \A j \in Nat : Drops(j, y) => Drops(j, y)'
          /\ \A y : \A j \in Nat : Asks(j, y)' => Asks(j, y) \/ y \in Playing
      BY <1>1, <3>1, SpawnedKeeps
    <3>3. RefsType'
      BY <1>1, <2>1, <3>2 DEF RefsType
    <3>4. ASSUME Trusted' PROVE GoneDropped' /\ AwayDropped' /\ NewUnknown' /\ StandbyOnce'
      <4>1. GoneDropped /\ NewUnknown /\ StandbyOnce
        BY <2>1, <3>4 DEF RefsInv, Trusted
      <4>2. GoneDropped'
        BY <2>1, <3>1, <3>2, <4>1 DEF GoneDropped
      <4>3. AwayDropped'
        BY <2>1, <2>3 DEF AwayDropped
      <4>4. NewUnknown' /\ StandbyOnce'
        BY <2>1, <3>1, <3>2, <4>1 DEF NewUnknown, StandbyOnce
      <4> QED
        BY <4>2, <4>3, <4>4
    <3> QED
      BY <3>3, <3>4 DEF RefsInv
  <2>4. CASE ~owner /\ Playing = {}
    <3>1. UNCHANGED tasks
      BY <2>4
    <3>2. RefsType'
      BY <1>1, <2>1, <3>1 DEF RefsType
    <3>3. ASSUME Trusted' PROVE GoneDropped' /\ AwayDropped' /\ NewUnknown' /\ StandbyOnce'
      <4>1. GoneDropped /\ NewUnknown /\ StandbyOnce
        BY <2>1, <3>3 DEF RefsInv, Trusted
      <4>2. GoneDropped' /\ NewUnknown' /\ StandbyOnce'
        BY <2>1, <3>1, <4>1 DEF GoneDropped, NewUnknown, StandbyOnce, Covered, Asks, Drops, DropsAll
      <4>3. AwayDropped'
        BY <2>1, <2>4 DEF AwayDropped
      <4> QED
        BY <4>2, <4>3
    <3> QED
      BY <3>2, <3>3 DEF RefsInv
  <2> QED
    BY <2>2, <2>3, <2>4
<1>6. ASSUME NEW i \in DOMAIN tasks, NEW x \in Sessions, subscribe_remote(i, x) PROVE RefsInv'
  <2>1. /\ tasks[i].op = "sub" /\ x \in tasks[i].who /\ TakeOne(i, x) /\ UNCHANGED owner
        /\ doubt \subseteq doubt'
        /\ \/ owners' = owners \cup {x} /\ live' = live
           \/ /\ owners' = {}
              /\ \/ live' = live
                 \/ x = Standby /\ live[x] = "live" /\ live' = [live EXCEPT ![x] = "new"]
    BY <1>6 DEF subscribe_remote
  <2>2. /\ tasks' \in Seq(Task)
        /\ \A y : Covered(y) => Covered(y)'
        /\ \A y : AllCovered(y) => AllCovered(y)'
        /\ \A y : (\E j \in Nat : Drops(j, y)) => \E k \in Nat : Drops(k, y)'
        /\ (\E j \in Nat : DropsAll(j)) => \E k \in Nat : DropsAll(k)'
        /\ \A y : \A j \in Nat : Asks(j, y)' => \E k \in Nat : Asks(k, y) /\ (y = x => k # i)
        /\ StandbyOnce => StandbyOnce'
    BY <1>1, <2>1, TakenOneKeeps
  <2>3. i \in Nat /\ Asks(i, x)
    BY <1>1, <2>1 DEF Asks, RefsType
  <2>4. RefsType'
    BY <1>1, <2>1, <2>2 DEF RefsType
  <2>5. ASSUME Trusted' PROVE GoneDropped' /\ AwayDropped' /\ NewUnknown' /\ StandbyOnce'
    <3>1. GoneDropped /\ AwayDropped /\ NewUnknown /\ StandbyOnce
      BY <2>1, <2>5 DEF RefsInv, Trusted
    <3>2. GoneDropped'
      <4>1. SUFFICES ASSUME NEW y \in Sessions, live'[y] = "gone"
                     PROVE  Covered(y)' /\ (y \in owners' => \E j \in Nat : Drops(j, y)')
        BY DEF GoneDropped
      <4>2. live[y] = "gone"
        BY <1>1, <2>1, <4>1 DEF RefsType
      <4>3. Covered(y) /\ (y \in owners => \E j \in Nat : Drops(j, y))
        BY <3>1, <4>2 DEF GoneDropped
      <4>4. y = x => \E j \in Nat : Drops(j, y)
        BY <2>3, <4>3 DEF Covered
      <4>5. y \in owners' => y \in owners \/ y = x
        BY <2>1
      <4> QED
        BY <2>2, <4>3, <4>4, <4>5
    <3>3. AwayDropped'
      <4>1. ~owner => \E j \in Nat : DropsAll(j)
        BY <2>3, <3>1 DEF AwayDropped, AllCovered
      <4> QED
        BY <2>1, <2>2, <3>1, <4>1 DEF AwayDropped
    <3>4. NewUnknown'
      <4>1. SUFFICES ASSUME NEW y \in Sessions, live'[y] = "new"
                     PROVE  y \notin owners' /\ \A j \in Nat : ~Asks(j, y)'
        BY DEF NewUnknown
      <4>2. CASE live[y] = "new"
        BY <1>1, <2>1, <2>2, <2>3, <3>1, <4>2 DEF NewUnknown
      <4>3. CASE live[y] # "new"
        <5>1. y = x /\ x = Standby /\ owners' = {}
          BY <1>1, <2>1, <4>1, <4>3 DEF RefsType
        <5> QED
          BY <2>2, <2>3, <3>1, <5>1 DEF StandbyOnce
      <4> QED
        BY <4>2, <4>3
    <3> QED
      BY <2>2, <3>1, <3>2, <3>3, <3>4
  <2> QED
    BY <2>4, <2>5 DEF RefsInv
\* No request is overtaken by a release.
<1>7. ASSUME NEW i \in DOMAIN tasks, tasks[i].op # "sub", doubt' = doubt \cup Overtaking(i) \cup Dropped
             \/ doubt' = doubt \cup Overtaking(i), Trusted'
      PROVE  \A k \in 1 .. i - 1 : tasks[k].op # "sub"
  <2>1. Overtaking(i) \subseteq {"gave up"}
    BY <1>7 DEF Trusted
  <2>2. "overtaken" \notin Overtaking(i)
    BY <2>1
  <2>3. ~ \E j \in 1 .. i - 1 : tasks[j].op # tasks[i].op
    BY <2>2 DEF Overtaking, Doubted
  <2> QED
    BY <1>7, <2>3
<1>8. ASSUME NEW i \in DOMAIN tasks, NEW x \in Sessions, unsubscribe_remote(i, x) PROVE RefsInv'
  <2>1. /\ tasks[i].op = "unsub" /\ tasks[i].who = {x} /\ Take(i) /\ UNCHANGED <<live, owner>>
        /\ owners' = owners \ {x}
        /\ doubt' = doubt \cup Overtaking(i) \cup Dropped \/ doubt' = doubt \cup Overtaking(i)
    BY <1>8 DEF unsubscribe_remote, finish_unsubscribe
  <2>2. RefsType'
    BY <1>1, <2>1, Taken DEF RefsType
  <2>3. ASSUME Trusted' PROVE GoneDropped' /\ AwayDropped' /\ NewUnknown' /\ StandbyOnce'
    <3>1. GoneDropped /\ AwayDropped /\ NewUnknown /\ StandbyOnce
      BY <2>1, <2>3 DEF RefsInv, Trusted
    <3>2. /\ \A y : Covered(y) => Covered(y)'
          /\ \A y : AllCovered(y) => AllCovered(y)'
          /\ \A y : \A j \in Nat : j # i /\ Drops(j, y) => \E k \in Nat : Drops(k, y)'
          /\ \A j \in Nat : j # i /\ DropsAll(j) => \E k \in Nat : DropsAll(k)'
          /\ \A y : \A j \in Nat : Asks(j, y)' => \E k \in Nat : k # i /\ Asks(k, y)
          /\ StandbyOnce'
      BY <1>1, <1>7, <2>1, <2>3, <3>1, TakenKeeps
    <3>3. (\A y : y # x => ~Drops(i, y)) /\ ~DropsAll(i)
      BY <2>1 DEF Drops, DropsAll
    <3>4. GoneDropped'
      BY <2>1, <3>1, <3>2, <3>3 DEF GoneDropped
    <3>5. AwayDropped'
      BY <2>1, <3>1, <3>2, <3>3 DEF AwayDropped
    <3>6. NewUnknown'
      BY <2>1, <3>1, <3>2 DEF NewUnknown
    <3> QED
      BY <3>2, <3>4, <3>5, <3>6
  <2> QED
    BY <2>2, <2>3 DEF RefsInv
<1>9. ASSUME NEW i \in DOMAIN tasks, unsubscribe_remote_all(i) PROVE RefsInv'
  <2>1. /\ tasks[i].op = "all" /\ Take(i) /\ UNCHANGED <<live, owner>> /\ owners' = {}
        /\ doubt' = doubt \cup Overtaking(i) \cup Dropped \/ doubt' = doubt \cup Overtaking(i)
    BY <1>9 DEF unsubscribe_remote_all, finish_unsubscribe
  <2>2. RefsType'
    BY <1>1, <2>1, Taken DEF RefsType
  <2>3. ASSUME Trusted' PROVE GoneDropped' /\ AwayDropped' /\ NewUnknown' /\ StandbyOnce'
    <3>1. GoneDropped /\ AwayDropped /\ NewUnknown /\ StandbyOnce
      BY <2>1, <2>3 DEF RefsInv, Trusted
    <3>2. /\ \A y : Covered(y) => Covered(y)'
          /\ \A y : AllCovered(y) => AllCovered(y)'
          /\ \A y : \A j \in Nat : Asks(j, y)' => \E k \in Nat : k # i /\ Asks(k, y)
          /\ StandbyOnce'
      BY <1>1, <1>7, <2>1, <2>3, <3>1, TakenKeeps
    <3> QED
      BY <2>1, <3>1, <3>2 DEF GoneDropped, AwayDropped, NewUnknown
  <2> QED
    BY <2>2, <2>3 DEF RefsInv
<1>10. CASE connect_peer \/ ReplacePeer \/ disconnect_peer \/ resubscribe_peer \/ PruneGens
  BY <1>2, <1>10 DEF connect_peer, ReplacePeer, disconnect_peer, resubscribe_peer, PruneGens
<1>11. ASSUME NEW r \in retries, RetryChecks(r) \/ RetrySends(r) PROVE RefsInv'
  BY <1>2, <1>11 DEF RetryChecks, RetrySends
<1>12. CASE FrameArrives \/ FencedError \/ TransientError \/ DeniedError
  BY <1>2, <1>12 DEF FrameArrives, FencedError, TransientError, DeniedError
<1>13. CASE Connected \/ WriteMessage \/ ConnectionLost
  BY <1>2, <1>13 DEF Connected, WriteMessage, ConnectionLost
<1>14. CASE SubscribeAllowed \/ (\E c \in Codes : SubscribeRefused(c)) \/ UnsubscribeRead \/ TearDown \/ FanOut
  BY <1>2, <1>14 DEF SubscribeAllowed, SubscribeRefused, UnsubscribeRead, TearDown, FanOut
<1>15. CASE UNCHANGED vars
  BY <1>2, <1>15 DEF vars
<1> QED
  BY <1>3, <1>4, <1>5, <1>6, <1>8, <1>9, <1>10, <1>11, <1>12, <1>13, <1>14, <1>15 DEF Next
-----------------------------------------------------------------------------
(* The count: the messages of a connection and what the owner makes of them. *)

\* A message to the owner, with the life of the subscription it belongs to.
Message == [op : {"Subscribe", "Unsubscribe"}, generation : Nat, life : Nat]
\* An answer on its way back; conn and life are the ones it answers.
Answer == [op : Codes \cup {"frame"}, generation : Nat, conn : Nat, life : Nat]

\* An answer to the Subscribe of this connection and this life.
Current(a, cn, lf) == a.op \in Codes /\ a.conn = cn /\ a.life = lf

\* The last thing the owner will have heard on this connection is a Subscribe.
Asked(ms, t) == IF ms = <<>> THEN t > 0 ELSE ms[Len(ms)].op = "Subscribe"

\* Subscribe and Unsubscribe alternate on a connection, and no Subscribe of this
\* life comes before an Unsubscribe.
Apart(ms, t, lf) ==
    /\ t \in {0, 1}
    /\ t = 1 /\ ms # <<>> => ms[1].op # "Subscribe"
    /\ \A k \in 1 .. Len(ms) - 1 : ~(ms[k].op = "Subscribe" /\ ms[k + 1].op = "Subscribe")
    /\ \A k \in 1 .. Len(ms) : /\ ms[k].life <= lf
                               /\ ms[k].op = "Subscribe" /\ ms[k].life = lf => k = Len(ms)

\* What an answer to this connection and life says of the messages.
Answers(ms, t, ib, cn, lf) ==
    /\ \A k \in DOMAIN ib : ib[k].life <= lf
    /\ \A k \in DOMAIN ib : Current(ib[k], cn, lf) => ms = <<>> /\ t = 0
    /\ \A j, k \in DOMAIN ib : Current(ib[j], cn, lf) /\ Current(ib[k], cn, lf) => j = k

\* This connection and life have asked for nothing that is still open.
Unasked(ms, t, ib, cn, lf) == ~Asked(ms, t) /\ \A k \in DOMAIN ib : ~Current(ib[k], cn, lf)

\* What the messages, the owner's count and the answers say together.
Counts(ms, t, ib, cn, lf, wd) ==
    Apart(ms, t, lf) /\ Answers(ms, t, ib, cn, lf) /\ (~wd => Unasked(ms, t, ib, cn, lf))

\* A retry, as far as the proofs look at it.
RetryTyped(r) == {"gen", "left", "st", "seen"} \subseteq DOMAIN r /\ r.left \in Nat
\* A retry that waits (schedule_subscribe_retry).
Asleep(r) == RetryTyped(r) /\ r.st = "sleep"

\* The types of what the count depends on.
CountType ==
    /\ queue \in Seq(Message) /\ wire \in Seq(Message) /\ inbox \in Seq(Answer)
    /\ gen \in Nat /\ next \in Nat /\ life \in Nat /\ conn \in Nat /\ tally \in Nat
    /\ wired \in BOOLEAN

\* Without a peer nothing is queued, on the wire or counted.
NoPeer ==
    /\ \A k \in DOMAIN inbox : inbox[k].conn <= conn
    /\ peer = "none" => /\ queue = <<>> /\ wire = <<>> /\ tally = 0
                        /\ \A k \in DOMAIN inbox : inbox[k].conn < conn

\* A retry that is about to send has seen an unserved subscription; if that is
\* still the one of this life, somebody wants it.
SeenByRetries ==
    \A r \in retries : RetryTyped(r) /\ (r.st = "send" =>
        /\ r.seen[1] = FALSE /\ r.seen[3] \in Nat /\ r.seen[3] <= life
        /\ r.seen[3] = life => owners # {})

\* As long as the history is trusted, the messages count this node once.
TrustedCounts == Trusted => Counts(wire \o queue, tally, inbox, conn, life, wired)

\* The invariant of the count.
CountInv == CountType /\ NoPeer /\ SeenByRetries /\ (owners = {} => ~wired) /\ TrustedCounts

\* Messages stay in order on their way from the queue to the wire.
LEMMA MoveOne ==
    ASSUME NEW S, NEW p \in Seq(S), NEW q \in Seq(S), q # <<>>
    PROVE  Append(p, Head(q)) \o Tail(q) = p \o q
<1>1. Head(q) \in S /\ Tail(q) \in Seq(S) /\ Len(Tail(q)) = Len(q) - 1
      /\ (\A i \in 1 .. Len(Tail(q)) : Tail(q)[i] = q[i + 1]) /\ Head(q) = q[1]
  BY HeadTailProperties
<1> DEFINE a == Append(p, Head(q))
           r == Tail(q)
<1>2. a \in Seq(S) /\ Len(a) = Len(p) + 1 /\ a[Len(p) + 1] = q[1] /\ \A i \in 1 .. Len(p) : a[i] = p[i]
  BY <1>1
<1> HIDE DEF a, r
<1>3. /\ a \o r \in Seq(S) /\ Len(a \o r) = Len(a) + Len(r)
      /\ \A i \in 1 .. Len(a) + Len(r) : (a \o r)[i] = IF i <= Len(a) THEN a[i] ELSE r[i - Len(a)]
  BY <1>1, <1>2, ConcatProperties DEF r
<1>4. /\ p \o q \in Seq(S) /\ Len(p \o q) = Len(p) + Len(q)
      /\ \A i \in 1 .. Len(p) + Len(q) : (p \o q)[i] = IF i <= Len(p) THEN p[i] ELSE q[i - Len(p)]
  BY ConcatProperties
<1>5. Len(p) \in Nat /\ Len(q) \in Nat /\ Len(r) = Len(q) - 1 /\ Len(q) > 0
  BY <1>1 DEF r
<1>6. ASSUME NEW i \in 1 .. Len(p) + Len(q) PROVE (a \o r)[i] = (p \o q)[i]
  <2>1. (a \o r)[i] = IF i <= Len(p) + 1 THEN a[i] ELSE r[i - (Len(p) + 1)]
    BY <1>2, <1>3, <1>5
  <2>2. (p \o q)[i] = IF i <= Len(p) THEN p[i] ELSE q[i - Len(p)]
    BY <1>4
  <2>3. CASE i <= Len(p)
    BY <1>2, <1>5, <2>1, <2>2, <2>3
  <2>4. CASE i = Len(p) + 1
    BY <1>2, <1>5, <2>1, <2>2, <2>4
  <2>5. CASE i > Len(p) + 1
    <3>1. i - (Len(p) + 1) \in 1 .. Len(r) /\ (i - (Len(p) + 1)) + 1 = i - Len(p)
      BY <1>5, <2>5
    <3>2. r[i - (Len(p) + 1)] = q[(i - (Len(p) + 1)) + 1]
      BY <1>1, <3>1 DEF r
    <3> QED
      BY <1>5, <2>1, <2>2, <2>5, <3>1, <3>2
  <2>6. i <= Len(p) \/ i = Len(p) + 1 \/ i > Len(p) + 1
    BY <1>5
  <2> QED
    BY <2>3, <2>4, <2>5, <2>6
<1>7. Len(a \o r) = Len(p \o q)
  BY <1>2, <1>3, <1>4, <1>5
<1>8. a \o r = p \o q
  BY <1>3, <1>4, <1>6, <1>7, SeqEqual
<1> QED
  BY <1>8 DEF a, r

\* Reading takes the first message.
LEMMA ReadOne ==
    ASSUME NEW S, NEW p \in Seq(S), NEW q \in Seq(S), p # <<>>
    PROVE  p \o q # <<>> /\ (p \o q)[1] = Head(p) /\ Tail(p) \o q = Tail(p \o q)
<1>1. /\ Tail(p) \in Seq(S) /\ Len(Tail(p)) = Len(p) - 1 /\ Len(p) \in Nat /\ Len(p) > 0 /\ Head(p) = p[1]
      /\ \A i \in 1 .. Len(Tail(p)) : Tail(p)[i] = p[i + 1]
  BY HeadTailProperties
<1> DEFINE r == Tail(p)
           c == p \o q
<1> HIDE DEF r, c
<1>2. /\ c \in Seq(S) /\ Len(c) = Len(p) + Len(q) /\ Len(q) \in Nat
      /\ \A i \in 1 .. Len(p) + Len(q) : c[i] = IF i <= Len(p) THEN p[i] ELSE q[i - Len(p)]
  BY ConcatProperties DEF c
<1>3. /\ r \o q \in Seq(S) /\ Len(r \o q) = Len(r) + Len(q)
      /\ \A i \in 1 .. Len(r) + Len(q) : (r \o q)[i] = IF i <= Len(r) THEN r[i] ELSE q[i - Len(r)]
  BY <1>1, ConcatProperties DEF r
<1>4. Len(r) = Len(p) - 1 /\ c # <<>>
  BY <1>1, <1>2 DEF r
<1>5. /\ Tail(c) \in Seq(S) /\ Len(Tail(c)) = Len(c) - 1
      /\ \A i \in 1 .. Len(Tail(c)) : Tail(c)[i] = c[i + 1]
  BY <1>2, <1>4, HeadTailProperties
<1>6. ASSUME NEW i \in 1 .. Len(r) + Len(q) PROVE (r \o q)[i] = Tail(c)[i]
  <2>1. i + 1 \in 1 .. Len(p) + Len(q) /\ i \in 1 .. Len(Tail(c))
    BY <1>1, <1>2, <1>4, <1>5
  <2>2. Tail(c)[i] = IF i + 1 <= Len(p) THEN p[i + 1] ELSE q[(i + 1) - Len(p)]
    BY <1>2, <1>5, <2>1
  <2>3. CASE i <= Len(r)
    <3>1. r[i] = p[i + 1] /\ i + 1 <= Len(p)
      BY <1>1, <1>4, <2>3 DEF r
    <3> QED
      BY <1>3, <2>2, <2>3, <3>1
  <2>4. CASE i > Len(r)
    <3>1. ~(i + 1 <= Len(p)) /\ (i + 1) - Len(p) = i - Len(r) /\ ~(i <= Len(r))
      BY <1>1, <1>4, <2>4
    <3> QED
      BY <1>3, <2>2, <3>1
  <2>5. i <= Len(r) \/ i > Len(r)
    BY <1>1, <1>4
  <2> QED
    BY <2>3, <2>4, <2>5
<1>7. Len(r \o q) = Len(Tail(c))
  BY <1>1, <1>2, <1>3, <1>4, <1>5
<1>8. r \o q = Tail(c)
  BY <1>3, <1>5, <1>6, <1>7, SeqEqual
<1>9. c[1] = Head(p)
  BY <1>1, <1>2
<1> QED
  BY <1>4, <1>8, <1>9 DEF r, c

\* Queueing adds the last message.
LEMMA QueueOne ==
    ASSUME NEW S, NEW p \in Seq(S), NEW q \in Seq(S), NEW x \in S
    PROVE  p \o Append(q, x) = Append(p \o q, x)
<1> DEFINE r == Append(q, x)
           c == p \o q
<1>1. r \in Seq(S) /\ Len(r) = Len(q) + 1 /\ r[Len(q) + 1] = x /\ \A i \in 1 .. Len(q) : r[i] = q[i]
  OBVIOUS
<1> HIDE DEF r, c
<1>2. /\ c \in Seq(S) /\ Len(c) = Len(p) + Len(q) /\ Len(p) \in Nat /\ Len(q) \in Nat
      /\ \A i \in 1 .. Len(p) + Len(q) : c[i] = IF i <= Len(p) THEN p[i] ELSE q[i - Len(p)]
  BY ConcatProperties DEF c
<1>3. /\ p \o r \in Seq(S) /\ Len(p \o r) = Len(p) + Len(r)
      /\ \A i \in 1 .. Len(p) + Len(r) : (p \o r)[i] = IF i <= Len(p) THEN p[i] ELSE r[i - Len(p)]
  BY <1>1, ConcatProperties
<1>4. /\ Append(c, x) \in Seq(S) /\ Len(Append(c, x)) = Len(c) + 1 /\ Append(c, x)[Len(c) + 1] = x
      /\ \A i \in 1 .. Len(c) : Append(c, x)[i] = c[i]
  BY <1>2
<1>5. ASSUME NEW i \in 1 .. Len(p) + Len(r) PROVE (p \o r)[i] = Append(c, x)[i]
  <2>1. CASE i <= Len(p)
    BY <1>1, <1>2, <1>3, <1>4, <2>1
  <2>2. CASE i > Len(p) /\ i <= Len(p) + Len(q)
    <3>1. i - Len(p) \in 1 .. Len(q) /\ i \in 1 .. Len(c) /\ ~(i <= Len(p))
      BY <1>2, <2>2
    <3>2. (p \o r)[i] = r[i - Len(p)] /\ c[i] = q[i - Len(p)]
      BY <1>2, <1>3, <3>1
    <3> QED
      BY <1>1, <1>4, <3>1, <3>2
  <2>3. CASE i = Len(p) + Len(q) + 1
    <3>1. i - Len(p) = Len(q) + 1 /\ ~(i <= Len(p)) /\ i = Len(c) + 1
      BY <1>2, <2>3
    <3> QED
      BY <1>1, <1>3, <1>4, <3>1
  <2>4. i <= Len(p) \/ (i > Len(p) /\ i <= Len(p) + Len(q)) \/ i = Len(p) + Len(q) + 1
    <3>1. Len(r) = Len(q) + 1 /\ Len(p) \in Nat /\ Len(q) \in Nat /\ i \in Nat
      BY <1>1, <1>2
    <3>2. i <= Len(p) + (Len(q) + 1)
      BY <3>1
    <3> QED
      BY <3>1, <3>2
  <2> QED
    BY <2>1, <2>2, <2>3, <2>4
<1>6. Len(p \o r) = Len(Append(c, x))
  BY <1>1, <1>2, <1>3, <1>4
<1>7. p \o r = Append(c, x)
  BY <1>3, <1>4, <1>5, <1>6, SeqEqual
<1> QED
  BY <1>7 DEF r, c
-----------------------------------------------------------------------------

\* A Subscribe that follows no other.
LEMMA AskAgain ==
    ASSUME NEW ms \in Seq(Message), NEW t \in Nat, NEW ib, NEW cn, NEW lf \in Nat, NEW wd,
           Counts(ms, t, ib, cn, lf, wd), Unasked(ms, t, ib, cn, lf),
           NEW x \in Message, x.op = "Subscribe", x.life = lf
    PROVE  Counts(Append(ms, x), t, ib, cn, lf, TRUE)
<1> DEFINE r == Append(ms, x)
<1>1. /\ Len(ms) \in Nat /\ Len(r) = Len(ms) + 1 /\ r[Len(ms) + 1] = x /\ r # <<>>
      /\ \A k \in 1 .. Len(ms) : r[k] = ms[k] /\ ms[k] \in Message
  OBVIOUS
<1> HIDE DEF r
<1>2. ms # <<>> => Len(ms) > 0 /\ ms[Len(ms)].op # "Subscribe"
  BY DEF Unasked, Asked
<1>3. ms = <<>> => Len(ms) = 0 /\ t = 0
  BY DEF Unasked, Asked
<1>4. \A k \in 1 .. Len(ms) : ~(ms[k].op = "Subscribe" /\ ms[k].life = lf)
  BY <1>1, <1>2 DEF Counts, Apart
<1>5. \A k \in 1 .. Len(r) - 1 : ~(r[k].op = "Subscribe" /\ r[k + 1].op = "Subscribe")
  <2> TAKE k \in 1 .. Len(r) - 1
  <2>1. CASE k = Len(ms)
    BY <1>1, <1>2, <2>1
  <2>2. CASE k # Len(ms)
    <3>1. k \in 1 .. Len(ms) - 1 /\ k \in 1 .. Len(ms) /\ k + 1 \in 1 .. Len(ms)
      BY <1>1, <2>2
    <3>2. r[k] = ms[k] /\ r[k + 1] = ms[k + 1]
      BY <1>1, <3>1
    <3> QED
      BY <3>1, <3>2 DEF Counts, Apart
  <2> QED
    BY <2>1, <2>2
<1>6. \A k \in 1 .. Len(r) : r[k].life <= lf /\ (r[k].op = "Subscribe" /\ r[k].life = lf => k = Len(r))
  <2> TAKE k \in 1 .. Len(r)
  <2>1. CASE k = Len(ms) + 1
    BY <1>1, <2>1
  <2>2. CASE k # Len(ms) + 1
    <3>1. k \in 1 .. Len(ms)
      BY <1>1, <2>2
    <3> QED
      BY <1>1, <1>4, <3>1 DEF Counts, Apart
  <2> QED
    BY <2>1, <2>2
<1>7. t = 1 => r[1].op # "Subscribe"
  <2>1. SUFFICES ASSUME t = 1 PROVE r[1].op # "Subscribe"
    OBVIOUS
  <2>2. ms # <<>> /\ 1 \in 1 .. Len(ms)
    BY <1>1, <1>2, <1>3, <2>1
  <2> QED
    BY <1>1, <2>1, <2>2 DEF Counts, Apart
<1>8. Apart(r, t, lf)
  BY <1>5, <1>6, <1>7 DEF Counts, Apart
<1>9. Answers(r, t, ib, cn, lf)
  BY DEF Counts, Unasked, Answers
<1> QED
  BY <1>8, <1>9 DEF Counts, r

\* The first message is read.
LEMMA ReadsFirst ==
    ASSUME NEW ms \in Seq(Message), NEW t \in Nat, NEW lf \in Nat, Apart(ms, t, lf), ms # <<>>
    PROVE  /\ Tail(ms) \in Seq(Message)
           /\ ms[1].op = "Subscribe" => t = 0 /\ Apart(Tail(ms), 0, lf) /\ Apart(Tail(ms), 1, lf)
           /\ ms[1].op # "Subscribe" => Apart(Tail(ms), 0, lf)
           /\ ms[1].op = "Subscribe" /\ ms[1].life = lf => Tail(ms) = <<>>
           /\ Asked(Tail(ms), 0) => Asked(ms, t)
           /\ Tail(ms) # <<>> => (Asked(Tail(ms), 1) <=> Asked(ms, t))
<1> DEFINE r == Tail(ms)
<1>1. /\ r \in Seq(Message) /\ Len(r) = Len(ms) - 1 /\ Len(ms) \in Nat /\ Len(ms) > 0
      /\ \A k \in 1 .. Len(r) : r[k] = ms[k + 1]
  BY HeadTailProperties
<1> HIDE DEF r
<1>2. \A k \in 1 .. Len(r) - 1 : ~(r[k].op = "Subscribe" /\ r[k + 1].op = "Subscribe")
  <2> TAKE k \in 1 .. Len(r) - 1
  <2>1. k + 1 \in 1 .. Len(ms) - 1 /\ k \in 1 .. Len(r) /\ k + 1 \in 1 .. Len(r)
    BY <1>1
  <2>2. r[k] = ms[k + 1] /\ r[k + 1] = ms[k + 1 + 1]
    BY <1>1, <2>1
  <2> QED
    BY <2>1, <2>2 DEF Apart
<1>3. \A k \in 1 .. Len(r) : r[k].life <= lf /\ (r[k].op = "Subscribe" /\ r[k].life = lf => k = Len(r))
  <2> TAKE k \in 1 .. Len(r)
  <2>1. k + 1 \in 1 .. Len(ms) /\ r[k] = ms[k + 1]
    BY <1>1
  <2>2. ms[k + 1].life <= lf /\ (ms[k + 1].op = "Subscribe" /\ ms[k + 1].life = lf => k + 1 = Len(ms))
    BY <2>1 DEF Apart
  <2>3. k + 1 = Len(ms) => k = Len(r)
    BY <1>1
  <2> QED
    BY <2>1, <2>2, <2>3
<1>4. Apart(r, 0, lf)
  BY <1>2, <1>3 DEF Apart
<1>5. ASSUME ms[1].op = "Subscribe" PROVE t = 0 /\ Apart(r, 1, lf)
  <2>1. t = 0
    BY <1>5 DEF Apart
  <2>2. r # <<>> => r[1].op # "Subscribe"
    <3>1. SUFFICES ASSUME r # <<>> PROVE r[1].op # "Subscribe"
      OBVIOUS
    <3>2. 1 \in 1 .. Len(ms) - 1 /\ 1 \in 1 .. Len(r)
      BY <1>1, <3>1
    <3>3. r[1] = ms[1 + 1]
      BY <1>1, <3>2
    <3> QED
      BY <1>5, <3>2, <3>3 DEF Apart
  <2> QED
    BY <1>2, <1>3, <2>1, <2>2 DEF Apart
<1>6. ASSUME ms[1].op = "Subscribe", ms[1].life = lf PROVE r = <<>>
  <2>1. 1 = Len(ms)
    BY <1>1, <1>6 DEF Apart
  <2> QED
    BY <1>1, <2>1
<1>7. ASSUME r # <<>> PROVE r[Len(r)] = ms[Len(ms)]
  <2>1. Len(r) \in 1 .. Len(r) /\ Len(r) + 1 = Len(ms)
    BY <1>1, <1>7
  <2> QED
    BY <1>1, <2>1
<1>8. Asked(r, 0) => Asked(ms, t)
  BY <1>7 DEF Asked
<1>9. r # <<>> => (Asked(r, 1) <=> Asked(ms, t))
  BY <1>7 DEF Asked
<1> QED
  BY <1>1, <1>4, <1>5, <1>6, <1>8, <1>9 DEF r

\* What is left in the queue when the connection breaks.
LEMMA TailEnds ==
    ASSUME NEW p \in Seq(Message), NEW q \in Seq(Message), NEW t \in Nat, NEW lf \in Nat,
           Apart(p \o q, t, lf)
    PROVE  Apart(q, 0, lf) /\ (Asked(q, 0) => Asked(p \o q, t))
<1> DEFINE ms == p \o q
           n == Len(p)
<1>1. /\ ms \in Seq(Message) /\ Len(ms) = n + Len(q) /\ n \in Nat /\ Len(q) \in Nat
      /\ \A k \in 1 .. n + Len(q) : ms[k] = IF k <= n THEN p[k] ELSE q[k - n]
  BY ConcatProperties
<1> HIDE DEF ms, n
<1>2. \A k \in 1 .. Len(q) : n + k \in 1 .. Len(ms) /\ q[k] = ms[n + k]
  <2> TAKE k \in 1 .. Len(q)
  <2>1. n + k \in 1 .. n + Len(q) /\ ~(n + k <= n) /\ (n + k) - n = k
    BY <1>1
  <2>2. ms[n + k] = q[(n + k) - n]
    BY <1>1, <2>1
  <2> QED
    BY <1>1, <2>1, <2>2
<1>3. Apart(ms, t, lf)
  BY DEF ms
<1>4. \A k \in 1 .. Len(q) - 1 : ~(q[k].op = "Subscribe" /\ q[k + 1].op = "Subscribe")
  <2> TAKE k \in 1 .. Len(q) - 1
  <2>1. k \in 1 .. Len(q) /\ k + 1 \in 1 .. Len(q) /\ n + k \in 1 .. Len(ms) - 1 /\ n + (k + 1) = (n + k) + 1
    BY <1>1
  <2>2. q[k] = ms[n + k] /\ q[k + 1] = ms[(n + k) + 1]
    BY <1>2, <2>1
  <2> QED
    BY <1>3, <2>1, <2>2 DEF Apart
<1>5. \A k \in 1 .. Len(q) : q[k].life <= lf /\ (q[k].op = "Subscribe" /\ q[k].life = lf => k = Len(q))
  <2> TAKE k \in 1 .. Len(q)
  <2>1. n + k \in 1 .. Len(ms) /\ q[k] = ms[n + k]
    BY <1>2
  <2>2. ms[n + k].life <= lf /\ (ms[n + k].op = "Subscribe" /\ ms[n + k].life = lf => n + k = Len(ms))
    BY <1>3, <2>1 DEF Apart
  <2>3. n + k = Len(ms) => k = Len(q)
    BY <1>1
  <2> QED
    BY <2>1, <2>2, <2>3
<1>6. Apart(q, 0, lf)
  BY <1>4, <1>5 DEF Apart
<1>7. ASSUME q # <<>> PROVE ms # <<>> /\ q[Len(q)] = ms[Len(ms)]
  <2>1. Len(q) \in 1 .. Len(q) /\ n + Len(q) = Len(ms) /\ Len(ms) > 0
    BY <1>1, <1>7
  <2>2. q[Len(q)] = ms[n + Len(q)]
    BY <1>2, <2>1
  <2> QED
    BY <2>1, <2>2
<1>8. Asked(q, 0) => Asked(ms, t)
  BY <1>7 DEF Asked
<1> QED
  BY <1>6, <1>8 DEF ms
\* The last reference is released: with an Unsubscribe when one was asked for.
LEMMA LifeEnds ==
    ASSUME NEW ms \in Seq(Message), NEW t \in Nat, NEW ib, NEW cn, NEW lf \in Nat, Apart(ms, t, lf),
           \A k \in DOMAIN ib : ib[k].life \in Nat /\ ib[k].life <= lf
    PROVE  /\ ~Asked(ms, t) => Counts(ms, t, ib, cn, lf + 1, FALSE)
           /\ \A x \in Message : x.op = "Unsubscribe" /\ x.life = lf
                 => Counts(Append(ms, x), t, ib, cn, lf + 1, FALSE)
<1>1. \A k \in DOMAIN ib : ib[k].life <= lf + 1 /\ ~Current(ib[k], cn, lf + 1)
  BY DEF Current
<1>2. \A k \in 1 .. Len(ms) : ms[k].life \in Nat /\ ms[k].life <= lf
  <2> TAKE k \in 1 .. Len(ms)
  <2>1. ms[k] \in Message
    OBVIOUS
  <2>2. ms[k].life \in Nat
    BY <2>1 DEF Message
  <2>3. ms[k].life <= lf
    BY DEF Apart
  <2> QED
    BY <2>2, <2>3
<1>3. Apart(ms, t, lf + 1)
  <2>1. \A k \in 1 .. Len(ms) : ms[k].life <= lf + 1 /\ ms[k].life # lf + 1
    BY <1>2
  <2> QED
    BY <2>1 DEF Apart
<1>4. ASSUME ~Asked(ms, t) PROVE Counts(ms, t, ib, cn, lf + 1, FALSE)
  BY <1>1, <1>3, <1>4 DEF Counts, Answers, Unasked
<1>5. ASSUME NEW x \in Message, x.op = "Unsubscribe", x.life = lf
      PROVE  Counts(Append(ms, x), t, ib, cn, lf + 1, FALSE)
  <2> DEFINE r == Append(ms, x)
  <2>1. /\ Len(ms) \in Nat /\ Len(r) = Len(ms) + 1 /\ r[Len(ms) + 1] = x /\ r # <<>>
        /\ \A k \in 1 .. Len(ms) : r[k] = ms[k]
    OBVIOUS
  <2> HIDE DEF r
  <2>2. \A k \in 1 .. Len(r) : k \in 1 .. Len(ms) \/ k = Len(ms) + 1
    BY <2>1
  <2>3. \A k \in 1 .. Len(r) : r[k].life <= lf + 1 /\ r[k].life # lf + 1
    BY <1>2, <1>5, <2>1, <2>2
  <2>4. \A k \in 1 .. Len(r) - 1 : ~(r[k].op = "Subscribe" /\ r[k + 1].op = "Subscribe")
    <3> TAKE k \in 1 .. Len(r) - 1
    <3>1. CASE k = Len(ms)
      BY <1>5, <2>1, <3>1
    <3>2. CASE k # Len(ms)
      <4>1. k \in 1 .. Len(ms) - 1 /\ k \in 1 .. Len(ms) /\ k + 1 \in 1 .. Len(ms)
        BY <2>1, <3>2
      <4>2. r[k] = ms[k] /\ r[k + 1] = ms[k + 1]
        BY <2>1, <4>1
      <4> QED
        BY <4>1, <4>2 DEF Apart
    <3> QED
      BY <3>1, <3>2
  <2>5. t = 1 => r[1].op # "Subscribe"
    <3>1. CASE ms = <<>>
      BY <1>5, <2>1, <3>1
    <3>2. CASE ms # <<>>
      <4>1. 1 \in 1 .. Len(ms)
        BY <2>1, <3>2
      <4> QED
        BY <2>1, <3>2, <4>1 DEF Apart
    <3> QED
      BY <3>1, <3>2
  <2>6. Apart(r, t, lf + 1)
    BY <2>3, <2>4, <2>5 DEF Apart
  <2>7. ~Asked(r, t)
    BY <1>5, <2>1 DEF Asked
  <2> QED
    BY <1>1, <2>6, <2>7 DEF Counts, Answers, Unasked, r
<1> QED
  BY <1>4, <1>5

\* Nothing is left of a connection that is over, and no answer is to the next.
LEMMA FreshConnection ==
    ASSUME NEW ib, NEW cn, NEW lf \in Nat, NEW wd,
           \A k \in DOMAIN ib : ib[k].conn # cn /\ ib[k].life <= lf
    PROVE  Counts(<<>>, 0, ib, cn, lf, wd)
  BY DEF Counts, Apart, Answers, Unasked, Asked, Current

\* What a replay does to the queue.
LEMMA ReplayDoes ==
    ASSUME CountType, NEW q \in Seq(Message), NEW o, Apply(Replayed(o, q))
    PROVE  /\ gen' \in Nat /\ next' \in Nat /\ wired' \in BOOLEAN /\ queue' \in Seq(Message)
           /\ \/ queue' = q /\ wired' = FALSE
              \/ /\ o # {} /\ wired' = TRUE
                 /\ \E x \in Message : /\ x.op = "Subscribe" /\ x.life = life
                                        /\ queue' = Append(q, x)
           /\ \A r \in retries' : r \in retries \/ Asleep(r)
<1> DEFINE g == IF gen = 0 THEN next ELSE gen
           ask == o # {} /\ owner
<1>1. g \in Nat /\ Subscribe(g) \in Message /\ Subscribe(g).op = "Subscribe" /\ Subscribe(g).life = life
  BY DEF CountType, Subscribe, Message
<1>2. /\ wired' = (ask /\ Fits(q)) /\ gen' = (IF ask THEN g ELSE gen)
      /\ next' = (IF ask /\ gen = 0 THEN next + 1 ELSE next)
      /\ queue' = (IF ask /\ Fits(q) THEN Append(q, Subscribe(g)) ELSE q)
      /\ retries' = IF ask /\ ~Fits(q)
                    THEN retries \cup {[gen |-> g, left |-> SendRetries, st |-> "sleep", seen |-> <<>>, by |-> conn]}
                    ELSE retries
  BY DEF Apply, Replayed
<1> HIDE DEF g
<1>3. gen' \in Nat /\ next' \in Nat /\ queue' \in Seq(Message)
  BY <1>1, <1>2 DEF CountType
<1>4. wired' \in BOOLEAN
  BY <1>2, Zenon
<1>5. \A r \in retries' : r \in retries \/ Asleep(r)
  BY <1>2, SubscriptionAssumption DEF Asleep, RetryTyped
<1>6. CASE ask /\ Fits(q)
  <2>1. wired' = TRUE /\ o # {} /\ queue' = Append(q, Subscribe(g))
    BY <1>2, <1>6
  <2> QED
    BY <1>1, <1>3, <1>4, <1>5, <2>1
<1>7. CASE ~(ask /\ Fits(q))
  <2>1. wired' = FALSE /\ queue' = q
    BY <1>2, <1>7
  <2> QED
    BY <1>3, <1>4, <1>5, <2>1
<1> QED
  BY <1>6, <1>7

\* An answer is handled.
LEMMA AnswerRead ==
    ASSUME NEW ms, NEW t, NEW ib \in Seq(Answer), NEW cn, NEW lf \in Nat, NEW wd,
           Counts(ms, t, ib, cn, lf, wd), ib # <<>>
    PROVE  /\ Counts(ms, t, Tail(ib), cn, lf, wd)
           /\ Current(Head(ib), cn, lf) => Counts(ms, t, Tail(ib), cn, lf, FALSE)
<1> DEFINE r == Tail(ib)
<1>1. /\ r \in Seq(Answer) /\ Len(r) = Len(ib) - 1 /\ Len(ib) \in Nat /\ Len(ib) > 0 /\ Head(ib) = ib[1]
      /\ \A k \in 1 .. Len(r) : r[k] = ib[k + 1]
  BY HeadTailProperties
<1> HIDE DEF r
<1>2. \A k \in DOMAIN r : k \in Nat /\ k + 1 \in DOMAIN ib /\ k + 1 # 1 /\ r[k] = ib[k + 1]
  BY <1>1
<1>3. 1 \in DOMAIN ib
  BY <1>1
<1>4. \A k \in DOMAIN r : r[k].life <= lf /\ (Current(r[k], cn, lf) => ms = <<>> /\ t = 0)
  BY <1>2 DEF Counts, Answers
<1>5. ASSUME NEW j \in DOMAIN r, NEW k \in DOMAIN r, Current(r[j], cn, lf), Current(r[k], cn, lf)
      PROVE  j = k
  <2>1. j + 1 = k + 1
    BY <1>2, <1>5 DEF Counts, Answers
  <2> QED
    BY <1>2, <2>1
<1>6. Answers(ms, t, r, cn, lf)
  BY <1>4, <1>5 DEF Answers
<1>7. ~wd => Unasked(ms, t, r, cn, lf)
  BY <1>2 DEF Counts, Unasked
<1>8. ASSUME Current(Head(ib), cn, lf) PROVE Unasked(ms, t, r, cn, lf)
  <2>1. ms = <<>> /\ t = 0
    BY <1>1, <1>3, <1>8 DEF Counts, Answers
  <2>2. \A k \in DOMAIN r : ~Current(r[k], cn, lf)
    BY <1>1, <1>2, <1>3, <1>8 DEF Counts, Answers
  <2> QED
    BY <2>1, <2>2 DEF Unasked, Asked
<1> QED
  BY <1>6, <1>7, <1>8 DEF Counts, r

\* An answer arrives that is not to the Subscribe of this connection and life.
LEMMA AnswerAdded ==
    ASSUME NEW ms, NEW t, NEW ib \in Seq(Answer), NEW cn, NEW lf \in Nat, NEW wd, NEW x \in Answer,
           Counts(ms, t, ib, cn, lf, wd), x.life <= lf, ~Current(x, cn, lf)
    PROVE  Counts(ms, t, Append(ib, x), cn, lf, wd)
<1> DEFINE r == Append(ib, x)
<1>1. \A k \in DOMAIN r : (k \in DOMAIN ib /\ r[k] = ib[k]) \/ r[k] = x
  OBVIOUS
<1> HIDE DEF r
<1>2. \A k \in DOMAIN r : Current(r[k], cn, lf) => k \in DOMAIN ib /\ r[k] = ib[k]
  BY <1>1
<1>3. \A k \in DOMAIN r : r[k].life <= lf
  BY <1>1 DEF Counts, Answers
<1>4. Answers(ms, t, r, cn, lf)
  BY <1>2, <1>3 DEF Counts, Answers
<1>5. ~wd => Unasked(ms, t, r, cn, lf)
  BY <1>2 DEF Counts, Unasked
<1> QED
  BY <1>4, <1>5 DEF Counts, r
-----------------------------------------------------------------------------

\* What an answer's history says is a number.
LEMMA InboxTyped ==
    ASSUME CountType
    PROVE  \A k \in DOMAIN inbox : inbox[k].conn \in Nat /\ inbox[k].life \in Nat
<1> TAKE k \in DOMAIN inbox
<1>1. inbox[k] \in Answer
  BY DEF CountType
<1> QED
  BY <1>1 DEF Answer

\* Doubt once raised stays.
LEMMA DoubtStays == Next => doubt \subseteq doubt'
<1> SUFFICES ASSUME Next PROVE doubt \subseteq doubt'
  OBVIOUS
<1>1. ASSUME NEW i \in DOMAIN tasks, NEW s \in Sessions, subscribe_remote(i, s) PROVE doubt \subseteq doubt'
  BY <1>1 DEF subscribe_remote
<1> QED
  BY <1>1 DEF Next, notify_play_subscription, notify_play_unsubscribe, OwnerMoves,
     unsubscribe_remote, unsubscribe_remote_all, connect_peer, ReplacePeer, disconnect_peer,
     resubscribe_peer, PruneGens, RetryChecks, RetrySends, FrameArrives, FencedError,
     TransientError, DeniedError, Connected, WriteMessage, ConnectionLost, SubscribeAllowed,
     SubscribeRefused, UnsubscribeRead, TearDown, FanOut

\* What the retries saw stays true until the references are gone.
LEMMA RetriesKeep ==
    ASSUME SeenByRetries, life \in Nat,
           \A r \in retries' : r \in retries \/ Asleep(r),
           \/ life' = life + 1
           \/ life' = life /\ (owners # {} => owners' # {})
    PROVE  SeenByRetries'
<1> SUFFICES ASSUME NEW r \in retries'
             PROVE  /\ RetryTyped(r)
                    /\ r.st = "send" => /\ r.seen[1] = FALSE /\ r.seen[3] \in Nat /\ r.seen[3] <= life'
                                        /\ r.seen[3] = life' => owners' # {}
  BY DEF SeenByRetries
<1>1. CASE r \in retries /\ r.st = "send"
  <2>1. /\ RetryTyped(r) /\ r.seen[1] = FALSE /\ r.seen[3] \in Nat
        /\ r.seen[3] <= life /\ (r.seen[3] = life => owners # {})
    BY <1>1 DEF SeenByRetries
  <2> QED
    BY <2>1
<1>2. CASE r \in retries /\ r.st # "send"
  BY <1>2 DEF SeenByRetries
<1>3. CASE Asleep(r)
  BY <1>3 DEF Asleep
<1> QED
  BY <1>1, <1>2, <1>3

\* The steps that touch neither the connection nor the references it serves.
LEMMA CountStays ==
    ASSUME CountInv, doubt \subseteq doubt',
           queue' = queue, wire' = wire, inbox' = inbox, tally' = tally, conn' = conn, life' = life,
           wired' = wired, gen' \in Nat, next' \in Nat, peer' # "none" \/ peer' = peer,
           owners' # {} \/ owners' = owners,
           \A r \in retries' : r \in retries \/ Asleep(r)
    PROVE  CountInv'
<1>1. CountType'
  BY DEF CountInv, CountType
<1>2. NoPeer'
  BY DEF CountInv, NoPeer
<1>3. SeenByRetries'
  BY RetriesKeep DEF CountInv, CountType
<1>4. TrustedCounts'
  BY DEF CountInv, TrustedCounts, Trusted
<1> QED
  BY <1>1, <1>2, <1>3, <1>4 DEF CountInv

\* The references o are replayed on a connection that has carried nothing.
LEMMA ReplayOnFresh ==
    ASSUME CountInv, doubt \subseteq doubt', NEW o, Apply(Replayed(o, <<>>)), owners' = o, owners # {} => o # {},
           wire' = <<>>, tally' = 0, inbox' = inbox, life' = life, conn' \in Nat, peer' # "none",
           \A k \in DOMAIN inbox : inbox[k].conn < conn'
    PROVE  CountInv'
<1>0. CountType /\ life \in Nat /\ <<>> \in Seq(Message)
  BY DEF CountInv, CountType
<1>1. /\ gen' \in Nat /\ next' \in Nat /\ wired' \in BOOLEAN /\ queue' \in Seq(Message)
      /\ \/ queue' = <<>> /\ wired' = FALSE
         \/ /\ o # {} /\ wired' = TRUE
            /\ \E x \in Message : /\ x.op = "Subscribe" /\ x.life = life
                                   /\ queue' = Append(<<>>, x)
      /\ \A r \in retries' : r \in retries \/ Asleep(r)
  BY <1>0, ReplayDoes
<1>2. CountType'
  BY <1>0, <1>1 DEF CountType
<1>3. \A k \in DOMAIN inbox : inbox[k].conn \in Nat /\ inbox[k].life \in Nat
  BY <1>0, InboxTyped
<1>4. NoPeer'
  BY <1>3 DEF NoPeer
<1>5. SeenByRetries'
  BY <1>0, <1>1, RetriesKeep DEF CountInv
<1>6. owners' = {} => ~wired'
  BY <1>1
<1>7. ASSUME Trusted' PROVE Counts(queue', 0, inbox, conn', life, wired')
  <2>1. \A k \in DOMAIN inbox : inbox[k].life <= life
    BY <1>7 DEF Trusted, CountInv, TrustedCounts, Counts, Answers
  <2>2. \A k \in DOMAIN inbox : inbox[k].conn # conn'
    BY <1>3
  <2>3. Counts(<<>>, 0, inbox, conn', life, FALSE)
    BY <1>0, <2>1, <2>2, FreshConnection
  <2>4. CASE queue' = <<>> /\ wired' = FALSE
    BY <2>3, <2>4
  <2>5. CASE ~(queue' = <<>> /\ wired' = FALSE)
    <3>1. PICK x \in Message : x.op = "Subscribe" /\ x.life = life /\ queue' = Append(<<>>, x)
      BY <1>1, <2>5
    <3>2. Unasked(<<>>, 0, inbox, conn', life)
      BY <2>3 DEF Counts
    <3>3. Counts(Append(<<>>, x), 0, inbox, conn', life, TRUE)
      BY <1>0, <2>3, <3>1, <3>2, AskAgain
    <3> QED
      BY <1>1, <2>5, <3>1, <3>3
  <2> QED
    BY <2>4, <2>5
<1>8. TrustedCounts'
  <2>1. wire' \o queue' = queue'
    BY <1>1
  <2> QED
    BY <1>7, <2>1 DEF TrustedCounts
<1> QED
  BY <1>2, <1>4, <1>5, <1>6, <1>8 DEF CountInv

\* A Subscribe is queued where none was asked for on this connection.
LEMMA CountAsks ==
    ASSUME CountInv, doubt \subseteq doubt', NEW x \in Message, x.op = "Subscribe", x.life = life,
           queue' = Append(queue, x), wired' = TRUE, owners' # {}, peer' = peer, peer # "none",
           wire' = wire, inbox' = inbox, tally' = tally, conn' = conn, life' = life,
           gen' \in Nat, next' \in Nat,
           \A r \in retries' : r \in retries \/ Asleep(r),
           Trusted' => ~wired \/ Unasked(wire \o queue, tally, inbox, conn, life)
    PROVE  CountInv'
<1>0. CountType /\ SeenByRetries /\ life \in Nat /\ tally \in Nat /\ wire \in Seq(Message) /\ queue \in Seq(Message)
  BY DEF CountInv, CountType
<1>1. CountType'
  BY <1>0 DEF CountType
<1>2. NoPeer'
  BY DEF CountInv, NoPeer
<1>3. SeenByRetries'
  BY <1>0, RetriesKeep
<1>4. ASSUME Trusted' PROVE Counts(wire \o queue', tally, inbox, conn, life, TRUE)
  <2> DEFINE ms == wire \o queue
  <2>1. Counts(ms, tally, inbox, conn, life, wired) /\ ms \in Seq(Message)
    BY <1>0, <1>4, ConcatProperties DEF Trusted, CountInv, TrustedCounts
  <2>2. Unasked(ms, tally, inbox, conn, life)
    BY <1>4, <2>1 DEF Counts
  <2> HIDE DEF ms
  <2>3. Counts(Append(ms, x), tally, inbox, conn, life, TRUE)
    BY <1>0, <2>1, <2>2, AskAgain
  <2>4. wire \o queue' = Append(ms, x)
    BY <1>0, QueueOne DEF ms
  <2> QED
    BY <2>3, <2>4
<1>5. TrustedCounts'
  BY <1>4 DEF TrustedCounts
<1> QED
  BY <1>1, <1>2, <1>3, <1>5 DEF CountInv

\* An appended queue is another one.
LEMMA QueueGrows ==
    ASSUME NEW q \in Seq(Message), NEW x \in Message
    PROVE  Append(q, x) # q
  OBVIOUS

\* The last reference goes, with the Unsubscribe x where there is room for it.
LEMMA CountEnds ==
    ASSUME CountInv, doubt \subseteq doubt', life' = life + 1, wired' = FALSE, owners' = {},
           wire' = wire, inbox' = inbox, tally' = tally, conn' = conn, peer' = peer, retries' = retries,
           gen' \in Nat, next' \in Nat,
           \/ /\ peer # "none"
              /\ \E x \in Message : x.op = "Unsubscribe" /\ x.life = life /\ queue' = Append(queue, x)
           \/ queue' = queue /\ (~wired \/ peer = "none" \/ ~Trusted')
    PROVE  CountInv'
<1>0. CountType /\ SeenByRetries /\ life \in Nat /\ tally \in Nat /\ wire \in Seq(Message) /\ queue \in Seq(Message)
  BY DEF CountInv, CountType
<1>1. CountType'
  <2>1. queue' \in Seq(Message)
    BY <1>0
  <2>2. life' \in Nat
    BY <1>0
  <2>3. wired' \in BOOLEAN
    BY Zenon
  <2> QED
    BY <2>1, <2>2, <2>3 DEF CountInv, CountType
<1>2. NoPeer'
  BY DEF CountInv, NoPeer
<1>3. SeenByRetries'
  BY <1>0, RetriesKeep
<1>4. ASSUME Trusted' PROVE Counts(wire \o queue', tally, inbox, conn, life + 1, FALSE)
  <2> DEFINE ms == wire \o queue
  <2>1. Counts(ms, tally, inbox, conn, life, wired) /\ ms \in Seq(Message)
    BY <1>0, <1>4, ConcatProperties DEF Trusted, CountInv, TrustedCounts
  <2>2. \A k \in DOMAIN inbox : inbox[k].life \in Nat /\ inbox[k].life <= life
    BY <1>0, <2>1, InboxTyped DEF Counts, Answers
  <2>3. peer = "none" => ms = <<>> /\ tally = 0
    BY DEF CountInv, NoPeer
  <2>4. queue' = queue => ~Asked(ms, tally)
    <3>1. queue' = queue => ~wired \/ peer = "none"
      BY <1>0, <1>4, QueueGrows
    <3> QED
      BY <2>1, <2>3, <3>1 DEF Counts, Unasked, Asked
  <2> HIDE DEF ms
  <2>5. /\ ~Asked(ms, tally) => Counts(ms, tally, inbox, conn, life + 1, FALSE)
        /\ \A x \in Message : x.op = "Unsubscribe" /\ x.life = life
              => Counts(Append(ms, x), tally, inbox, conn, life + 1, FALSE)
    BY <1>0, <2>1, <2>2, LifeEnds DEF Counts
  <2>6. CASE queue' = queue
    BY <2>4, <2>5, <2>6 DEF ms
  <2>7. ASSUME NEW x \in Message, x.op = "Unsubscribe", x.life = life, queue' = Append(queue, x)
        PROVE  Counts(wire \o queue', tally, inbox, conn, life + 1, FALSE)
    <3>1. wire \o queue' = Append(ms, x)
      BY <1>0, <2>7, QueueOne DEF ms
    <3> QED
      BY <2>5, <2>7, <3>1
  <2> QED
    BY <2>6, <2>7
<1>5. TrustedCounts'
  BY <1>4 DEF TrustedCounts
<1> QED
  BY <1>1, <1>2, <1>3, <1>5 DEF CountInv

\* The connection goes on with a part of its messages: what was in the queue.
LEMMA CountBreaks ==
    ASSUME CountInv, doubt \subseteq doubt', wire' = <<>>, tally' = 0, conn' = conn + 1,
           wired' \in BOOLEAN, gen' \in Nat, next' \in Nat, retries' = retries,
           \/ queue' = queue \/ (queue # <<>> /\ queue' = Tail(queue)) \/ queue' = <<>>,
           inbox' = inbox \/ inbox' = <<>>,
           \/ owners' = owners /\ life' = life /\ wired' = wired /\ peer' # "none"
           \/ owners' = {} /\ life' = life + 1 /\ wired' = FALSE /\ queue' = <<>> 
    PROVE  CountInv'
<1>0. /\ CountType /\ SeenByRetries /\ life \in Nat /\ tally \in Nat /\ conn \in Nat
      /\ wire \in Seq(Message) /\ queue \in Seq(Message) /\ inbox \in Seq(Answer) /\ life' \in Nat
  BY DEF CountInv, CountType
<1>1. queue' \in Seq(Message) /\ inbox' \in Seq(Answer)
  <2>1. queue # <<>> => Tail(queue) \in Seq(Message)
    BY <1>0, HeadTailProperties
  <2>2. <<>> \in Seq(Message) /\ <<>> \in Seq(Answer)
    OBVIOUS
  <2> QED
    BY <1>0, <2>1, <2>2, Zenon
<1>2. CountType'
  BY <1>0, <1>1 DEF CountType
<1>3. \A k \in DOMAIN inbox' : k \in DOMAIN inbox /\ inbox'[k] = inbox[k]
  OBVIOUS
<1>4. \A k \in DOMAIN inbox : inbox[k].conn < conn + 1 /\ inbox[k].conn \in Nat /\ inbox[k].life \in Nat
  BY <1>0, InboxTyped DEF CountInv, NoPeer
<1>5. NoPeer'
  BY <1>0, <1>3, <1>4 DEF NoPeer
<1>6. SeenByRetries'
  BY <1>0, RetriesKeep
<1>7. owners' = {} => ~wired'
  BY DEF CountInv
<1>8. ASSUME Trusted' PROVE Counts(queue', 0, inbox', conn + 1, life', wired')
  <2> DEFINE ms == wire \o queue
  <2>1. Counts(ms, tally, inbox, conn, life, wired)
    BY <1>8 DEF Trusted, CountInv, TrustedCounts
  <2>2. \A k \in DOMAIN inbox' : inbox'[k].life <= life' /\ ~Current(inbox'[k], conn + 1, life')
    <3> TAKE k \in DOMAIN inbox'
    <3>1. inbox'[k].life \in Nat /\ inbox'[k].conn \in Nat /\ inbox'[k].conn < conn + 1 /\ inbox'[k].life <= life
      BY <1>3, <1>4, <2>1 DEF Counts, Answers
    <3>2. inbox'[k].life <= life' /\ inbox'[k].conn # conn + 1
      BY <1>0, <3>1
    <3> QED
      BY <3>2 DEF Current
  <2>3. Answers(queue', 0, inbox', conn + 1, life')
    BY <2>2 DEF Answers
  <2>4. Apart(queue, 0, life) /\ (Asked(queue, 0) => Asked(ms, tally))
    BY <1>0, <2>1, TailEnds DEF Counts
  <2>5. queue # <<>> => Apart(Tail(queue), 0, life) /\ (Asked(Tail(queue), 0) => Asked(queue, 0))
    BY <1>0, <2>4, ReadsFirst
  <2>6. Apart(<<>>, 0, life') /\ ~Asked(<<>>, 0)
    BY DEF Apart, Asked
  <2>7. Apart(queue', 0, life') /\ (Asked(queue', 0) => wired' /\ Asked(ms, tally))
    BY <2>1, <2>4, <2>5, <2>6 DEF Counts, Unasked
  <2>8. ~wired' => Unasked(queue', 0, inbox', conn + 1, life')
    BY <2>2, <2>7 DEF Unasked
  <2> QED
    BY <2>3, <2>7, <2>8 DEF Counts
<1>9. TrustedCounts'
  <2>1. wire' \o queue' = queue'
    BY <1>1
  <2> QED
    BY <1>8, <2>1 DEF TrustedCounts
<1> QED
  BY <1>2, <1>5, <1>6, <1>7, <1>9 DEF CountInv

\* It holds at the start.
LEMMA CountInit == Init => CountInv
<1> SUFFICES ASSUME Init PROVE CountInv
  OBVIOUS
<1>1. CountType
  <2>1. wired \in BOOLEAN
    BY Zenon DEF Init
  <2>2. queue \in Seq(Message) /\ wire \in Seq(Message) /\ inbox \in Seq(Answer)
    BY DEF Init
  <2> QED
    BY <2>1, <2>2 DEF Init, CountType
<1>2. NoPeer /\ SeenByRetries /\ (owners = {} => ~wired)
  BY DEF Init, NoPeer, SeenByRetries
<1>3. wire \o queue = <<>> /\ \A k \in DOMAIN inbox : inbox[k].conn # conn /\ inbox[k].life <= life
  BY DEF Init
<1>4. Counts(<<>>, 0, inbox, conn, life, wired)
  BY <1>1, <1>3, FreshConnection DEF CountType
<1>5. TrustedCounts
  BY <1>3, <1>4 DEF TrustedCounts, Init
<1> QED
  BY <1>1, <1>2, <1>5 DEF CountInv

\* subscribe_remote keeps it.
LEMMA SubscribeCounts ==
    ASSUME CountInv, NEW i \in DOMAIN tasks, NEW s \in Sessions, subscribe_remote(i, s)
    PROVE  CountInv'
<1> DEFINE o == owners \cup {s}
<1>0. CountType /\ life \in Nat /\ gen \in Nat /\ next \in Nat /\ conn \in Nat /\ o # {} /\ queue \in Seq(Message)
  BY DEF CountInv, CountType
<1>1. UNCHANGED <<conn, wire, inbox, tally>>
  BY DEF subscribe_remote, remote
<1>2. doubt \subseteq doubt'
  BY DEF subscribe_remote
<1>3. ASSUME owners' = o, UNCHANGED <<wired, gen, next, retries, peer, queue, life>> PROVE CountInv'
  BY <1>0, <1>1, <1>2, <1>3, CountStays
<1>4. ASSUME FreshPeer(o), owners' = o, UNCHANGED <<life>> PROVE CountInv'
  <2>1. peer = "none" /\ peer' # "none" /\ Apply(Replayed(o, <<>>))
    BY <1>4 DEF FreshPeer
  <2>2. wire' = <<>> /\ tally' = 0 /\ conn' \in Nat /\ \A k \in DOMAIN inbox : inbox[k].conn < conn'
    BY <1>0, <1>1, <2>1 DEF CountInv, NoPeer
  <2> QED
    BY <1>0, <1>1, <1>2, <1>4, <2>1, <2>2, ReplayOnFresh
<1>5. ASSUME peer # "none", ~wired, owners' = o, wired' = TRUE, queue' = Append(queue, Subscribe(gen)),
             UNCHANGED <<gen, next, retries, peer, life>>
      PROVE  CountInv'
  <2>1. Subscribe(gen) \in Message /\ Subscribe(gen).op = "Subscribe" /\ Subscribe(gen).life = life
    BY <1>0 DEF Subscribe, Message
  <2> QED
    BY <1>0, <1>1, <1>2, <1>5, <2>1, CountAsks
<1>6. ASSUME ~wired, owners' = {}, gen' = next, next' = next + 1, life' = life + 1,
             UNCHANGED <<wired, retries, peer, queue>>
      PROVE  CountInv'
  <2>1. wired' = FALSE
    BY <1>0, <1>6, Zenon DEF CountType
  <2>2. gen' \in Nat /\ next' \in Nat
    BY <1>0, <1>6
  <2> QED
    BY <1>1, <1>2, <1>6, <2>1, <2>2, CountEnds
<1> QED
  BY <1>3, <1>4, <1>5, <1>6 DEF subscribe_remote

\* finish_unsubscribe keeps it.
LEMMA FinishCounts ==
    ASSUME CountInv, finish_unsubscribe, doubt \subseteq doubt', Dropped \subseteq doubt',
           UNCHANGED <<retries, peer, conn, remote>>
    PROVE  CountInv'
<1>0. CountType /\ life \in Nat /\ gen \in Nat /\ next \in Nat /\ conn \in Nat /\ queue \in Seq(Message)
  BY DEF CountInv, CountType
<1>1. UNCHANGED <<conn, wire, inbox, tally, peer, retries>>
  BY DEF remote
<1>2. /\ life' = life + 1 /\ wired' = FALSE /\ owners' = {} /\ gen' \in Nat /\ next' \in Nat
      /\ queue' = IF peer # "none" /\ Fits(queue) THEN Append(queue, Unsubscribe) ELSE queue
  BY <1>0 DEF finish_unsubscribe
<1>3. Unsubscribe \in Message /\ Unsubscribe.op = "Unsubscribe" /\ Unsubscribe.life = life
  BY <1>0 DEF Unsubscribe, Message
<1>4. CASE peer # "none" /\ Fits(queue)
  BY <1>1, <1>2, <1>3, <1>4, CountEnds
<1>5. CASE ~(peer # "none" /\ Fits(queue))
  <2>1. peer = "none" \/ ~Trusted'
    BY <1>5 DEF Dropped, Doubted, Trusted
  <2> QED
    BY <1>1, <1>2, <1>5, <2>1, CountEnds
<1> QED
  BY <1>4, <1>5

\* The replay for a note of the reconnect loop.
LEMMA ReplayCounts ==
    ASSUME CountInv, peer # "none", Apply(Replayed(owners, queue)),
           doubt' = doubt \cup Replayed(owners, queue).doubt,
           UNCHANGED <<owners, peer, conn, life, remote>>
    PROVE  CountInv'
<1>0. CountType /\ life \in Nat /\ gen \in Nat /\ next \in Nat /\ conn \in Nat /\ queue \in Seq(Message)
      /\ SeenByRetries
  BY DEF CountInv, CountType
<1>1. UNCHANGED <<conn, wire, inbox, tally, peer, life, owners>> /\ doubt \subseteq doubt'
  BY DEF remote
<1>2. /\ gen' \in Nat /\ next' \in Nat /\ wired' \in BOOLEAN /\ queue' \in Seq(Message)
      /\ \/ queue' = queue /\ wired' = FALSE
         \/ /\ owners # {} /\ wired' = TRUE
            /\ \E x \in Message : /\ x.op = "Subscribe" /\ x.life = life
                                   /\ queue' = Append(queue, x)
      /\ \A r \in retries' : r \in retries \/ Asleep(r)
  BY <1>0, ReplayDoes
<1>3. Replayed(owners, queue).doubt = Doubted("replayed", owners # {} /\ Sent(queue))
  BY DEF Replayed
<1>4. Trusted' => owners = {} \/ ~Sent(queue)
  BY <1>3 DEF Trusted, Doubted
<1>5. ~Sent(queue) => Unasked(wire \o queue, tally, inbox, conn, life)
  BY DEF Sent, Pending, Unasked, Asked, Current
<1>6. Trusted' => ~wired \/ Unasked(wire \o queue, tally, inbox, conn, life)
  BY <1>4, <1>5 DEF CountInv
<1>7. CASE queue' = queue /\ wired' = FALSE
  <2>1. CountType'
    BY <1>0, <1>1, <1>2 DEF CountType
  <2>2. NoPeer'
    BY <1>1, <1>7 DEF CountInv, NoPeer
  <2>3. SeenByRetries'
    BY <1>0, <1>1, <1>2, RetriesKeep
  <2>4. Trusted' => Counts(wire \o queue, tally, inbox, conn, life, FALSE)
    BY <1>1, <1>6 DEF CountInv, TrustedCounts, Trusted, Counts
  <2>5. TrustedCounts'
    BY <1>1, <1>7, <2>4 DEF TrustedCounts
  <2> QED
    BY <1>7, <2>1, <2>2, <2>3, <2>5 DEF CountInv
<1>8. CASE ~(queue' = queue /\ wired' = FALSE)
  <2>1. PICK x \in Message : x.op = "Subscribe" /\ x.life = life /\ queue' = Append(queue, x)
    BY <1>2, <1>8
  <2> QED
    BY <1>1, <1>2, <1>6, <1>8, <2>1, CountAsks
<1> QED
  BY <1>7, <1>8

\* A retry wakes or sends.
LEMMA RetryCounts ==
    ASSUME CountInv, NEW r \in retries, RetryChecks(r) \/ RetrySends(r)
    PROVE  CountInv'
<1>0. CountType /\ life \in Nat /\ gen \in Nat /\ next \in Nat /\ conn \in Nat /\ queue \in Seq(Message)
      /\ SeenByRetries /\ RetryTyped(r)
  BY DEF CountInv, CountType, SeenByRetries
<1>1. UNCHANGED <<conn, wire, inbox, tally, peer, life, owners, gen, next>> /\ doubt \subseteq doubt'
  BY DEF RetryChecks, RetrySends, remote, peers, refs
<1>2. CASE RetryChecks(r)
  <2>1. UNCHANGED <<queue, wired>>
    BY <1>2 DEF RetryChecks, peers, refs
  <2>2. CASE retries' \subseteq retries
    BY <1>0, <1>1, <2>1, <2>2, CountStays
  <2>3. CASE ~(retries' \subseteq retries)
    <3>1. retries' = (retries \ {r}) \cup {Checked(r)} /\ owners # {} /\ ~wired
      BY <1>2, <2>3 DEF RetryChecks
    <3>2. /\ RetryTyped(Checked(r)) /\ Checked(r).seen = <<wired, gen, life>>
      BY <1>0 DEF Checked, RetryTyped
    <3>3. Checked(r).seen[1] = FALSE
      <4>1. Checked(r).seen[1] = wired
        BY <3>2
      <4>2. wired = FALSE
        BY <1>0, <3>1, Zenon DEF CountType
      <4> QED
        BY <4>1, <4>2
    <3>4. Checked(r).seen[3] = life
      BY <3>2
    <3>5. SeenByRetries'
      BY <1>0, <1>1, <3>1, <3>2, <3>3, <3>4 DEF SeenByRetries
    <3>6. CountType' /\ NoPeer' /\ (owners' = {} => ~wired')
      BY <1>1, <2>1, <3>1 DEF CountInv, CountType, NoPeer
    <3>7. TrustedCounts'
      BY <1>1, <2>1 DEF CountInv, TrustedCounts, Trusted
    <3> QED
      BY <3>5, <3>6, <3>7 DEF CountInv
  <2> QED
    BY <2>2, <2>3
<1>3. CASE RetrySends(r) /\ ~(peer # "none" /\ Fits(queue))
  <2>1. UNCHANGED <<queue, wired>>
    BY <1>3 DEF RetrySends
  <2>2. \A q \in retries' :
            \/ q \in retries
            \/ r.left > 0 /\ q = [r EXCEPT !.st = "sleep", !.seen = <<>>, !.left = @ - 1]
    BY <1>3 DEF RetrySends
  <2>3. \A q \in retries' : q \in retries \/ Asleep(q)
    <3>1. ASSUME r.left > 0 PROVE Asleep([r EXCEPT !.st = "sleep", !.seen = <<>>, !.left = @ - 1])
      BY <1>0, <3>1 DEF Asleep, RetryTyped
    <3> QED
      BY <2>2, <3>1
  <2> QED
    BY <1>0, <1>1, <2>1, <2>3, CountStays
<1>4. CASE RetrySends(r) /\ peer # "none" /\ Fits(queue)
  <2>1. /\ queue' = Append(queue, Subscribe(gen)) /\ wired' = (owners # {}) /\ retries' \subseteq retries
        /\ doubt' = doubt \cup Doubted("raced", r.seen # <<wired, gen, life>>) /\ r.st = "send"
    BY <1>4 DEF RetrySends
  <2>2. Subscribe(gen) \in Message /\ Subscribe(gen).op = "Subscribe" /\ Subscribe(gen).life = life
    BY <1>0 DEF Subscribe, Message
  <2>3. Trusted' => r.seen = <<wired, gen, life>>
    BY <2>1 DEF Trusted, Doubted
  <2>4. r.seen[1] = FALSE /\ (r.seen[3] = life => owners # {})
    BY <1>0, <2>1 DEF SeenByRetries
  <2>5. Trusted' => ~wired /\ owners # {}
    <3>1. r.seen = <<wired, gen, life>> => r.seen[1] = wired /\ r.seen[3] = life
      OBVIOUS
    <3> QED
      BY <2>3, <2>4, <3>1
  <2>6. CASE owners # {}
    <3>1. wired' = TRUE /\ owners' # {}
      BY <1>1, <2>1, <2>6
    <3>2. gen' \in Nat /\ next' \in Nat
      BY <1>0, <1>1
    <3>3. \A q \in retries' : q \in retries
      BY <2>1
    <3> QED
      BY <1>1, <1>4, <2>1, <2>2, <2>5, <3>1, <3>2, <3>3, CountAsks
  <2>7. CASE owners = {}
    <3>1. wired' = FALSE /\ ~Trusted'
      BY <2>1, <2>5, <2>7
    <3>2. SeenByRetries'
      BY <1>0, <1>1, <2>1, RetriesKeep
    <3>3. queue' \in Seq(Message)
      BY <1>0, <2>1, <2>2
    <3>4. wired' \in BOOLEAN
      BY <3>1, Zenon
    <3>5. CountType'
      BY <1>0, <1>1, <3>3, <3>4 DEF CountType
    <3>6. NoPeer'
      BY <1>1, <1>4 DEF CountInv, NoPeer
    <3>7. TrustedCounts'
      BY <3>1 DEF TrustedCounts
    <3> QED
      BY <3>1, <3>2, <3>5, <3>6, <3>7 DEF CountInv
  <2> QED
    BY <2>6, <2>7
<1> QED
  BY <1>2, <1>3, <1>4

\* The reader takes a message.
LEMMA AnswersCount ==
    ASSUME CountInv, Received, doubt \subseteq doubt',
           UNCHANGED <<queue, wire, tally, conn, life, peer, owners>>,
           gen' \in Nat, next' \in Nat,
           \A r \in retries' : r \in retries \/ Asleep(r),
           \/ wired' = wired
           \/ wired' = FALSE /\ (Trusted' => Current(Head(inbox), conn, life))
    PROVE  CountInv'
<1>0. CountType /\ life \in Nat /\ inbox \in Seq(Answer) /\ inbox # <<>> /\ inbox' = Tail(inbox)
      /\ SeenByRetries
  BY DEF CountInv, CountType, Received
<1>1. /\ inbox' \in Seq(Answer)
      /\ \A k \in DOMAIN inbox' : k + 1 \in DOMAIN inbox /\ inbox'[k] = inbox[k + 1]
  <2>1. /\ Tail(inbox) \in Seq(Answer) /\ Len(Tail(inbox)) = Len(inbox) - 1 /\ Len(inbox) \in Nat
        /\ \A k \in 1 .. Len(Tail(inbox)) : Tail(inbox)[k] = inbox[k + 1]
    BY <1>0, HeadTailProperties
  <2>2. DOMAIN inbox' = 1 .. Len(Tail(inbox))
    BY <1>0, <2>1
  <2> QED
    BY <1>0, <2>1, <2>2
<1>2. wired' \in BOOLEAN
  BY <1>0, Zenon DEF CountType
<1>3. CountType'
  BY <1>0, <1>1, <1>2 DEF CountType
<1>4. NoPeer'
  BY <1>1 DEF CountInv, NoPeer
<1>5. SeenByRetries'
  BY <1>0, RetriesKeep
<1>6. owners' = {} => ~wired'
  BY DEF CountInv
<1>7. ASSUME Trusted' PROVE Counts(wire \o queue, tally, inbox', conn, life, wired')
  <2>1. Counts(wire \o queue, tally, inbox, conn, life, wired)
    BY <1>7 DEF Trusted, CountInv, TrustedCounts
  <2>2. /\ Counts(wire \o queue, tally, Tail(inbox), conn, life, wired)
        /\ Current(Head(inbox), conn, life) => Counts(wire \o queue, tally, Tail(inbox), conn, life, FALSE)
    BY <1>0, <2>1, AnswerRead
  <2> QED
    BY <1>0, <1>7, <2>2
<1>8. TrustedCounts'
  BY <1>7 DEF TrustedCounts
<1> QED
  BY <1>3, <1>4, <1>5, <1>6, <1>8 DEF CountInv

\* The peer writes a message.
LEMMA WriteCounts ==
    ASSUME CountInv, WriteMessage
    PROVE  CountInv'
<1>0. CountType /\ wire \in Seq(Message) /\ queue \in Seq(Message) /\ queue # <<>> /\ peer = "up"
      /\ queue' = Tail(queue) /\ wire' = Append(wire, Head(queue)) /\ life \in Nat /\ SeenByRetries
  BY DEF CountInv, CountType, WriteMessage
<1>1. UNCHANGED <<gen, next, wired, owners, retries, peer, conn, inbox, tally, life, doubt>>
  BY DEF WriteMessage, refs
<1>2. queue' \in Seq(Message) /\ wire' \in Seq(Message)
  <2>1. Tail(queue) \in Seq(Message) /\ Head(queue) \in Message
    BY <1>0, HeadTailProperties
  <2> QED
    BY <1>0, <2>1
<1>3. wire' \o queue' = wire \o queue
  BY <1>0, MoveOne
<1>4. CountType'
  BY <1>0, <1>1, <1>2 DEF CountType
<1>5. NoPeer'
  BY <1>0, <1>1 DEF CountInv, NoPeer
<1>6. SeenByRetries'
  BY <1>0, <1>1, RetriesKeep
<1>7. TrustedCounts'
  BY <1>1, <1>3 DEF CountInv, TrustedCounts, Trusted
<1> QED
  BY <1>1, <1>4, <1>5, <1>6, <1>7 DEF CountInv

\* The owner takes a message off the wire.
LEMMA ReadCounts ==
    ASSUME CountInv, Read, UNCHANGED <<gen, next, wired, owners, retries, peer, conn, queue, life, doubt>>,
           tally' \in Nat, inbox' = inbox \/ \E x \in Answer : x.conn = conn /\ inbox' = Append(inbox, x),
           Trusted => Counts(Tail(wire \o queue), tally', inbox', conn, life, wired)
    PROVE  CountInv'
<1>0. CountType /\ wire \in Seq(Message) /\ queue \in Seq(Message) /\ wire # <<>> /\ peer = "up"
      /\ wire' = Tail(wire) /\ life \in Nat /\ conn \in Nat /\ SeenByRetries /\ inbox \in Seq(Answer)
  BY DEF CountInv, CountType, Read
<1>1. wire' \in Seq(Message)
  BY <1>0, HeadTailProperties
<1>2. wire' \o queue' = Tail(wire \o queue)
  BY <1>0, ReadOne
<1>3. inbox' \in Seq(Answer) /\ \A k \in DOMAIN inbox' : inbox'[k].conn <= conn
  <2>1. CASE inbox' = inbox
    BY <1>0, <2>1 DEF CountInv, NoPeer
  <2>2. ASSUME NEW x \in Answer, x.conn = conn, inbox' = Append(inbox, x)
        PROVE  inbox' \in Seq(Answer) /\ \A k \in DOMAIN inbox' : inbox'[k].conn <= conn
    <3>1. inbox' \in Seq(Answer)
      BY <1>0, <2>2
    <3>2. \A k \in DOMAIN inbox' : (k \in DOMAIN inbox /\ inbox'[k] = inbox[k]) \/ inbox'[k] = x
      BY <1>0, <2>2
    <3>3. \A k \in DOMAIN inbox : inbox[k].conn <= conn
      BY DEF CountInv, NoPeer
    <3> QED
      BY <1>0, <2>2, <3>1, <3>2, <3>3
  <2> QED
    BY <2>1, <2>2
<1>4. CountType'
  BY <1>0, <1>1, <1>3 DEF CountType
<1>5. NoPeer'
  BY <1>0, <1>3 DEF NoPeer
<1>6. SeenByRetries'
  BY <1>0, RetriesKeep
<1>7. TrustedCounts'
  BY <1>2 DEF TrustedCounts, Trusted
<1> QED
  BY <1>4, <1>5, <1>6, <1>7 DEF CountInv

\* The messages of a trusted connection, and their first one.
LEMMA FirstRead ==
    ASSUME CountInv, Read, Trusted, NEW ms, ms = wire \o queue
    PROVE  /\ ms \in Seq(Message) /\ ms # <<>> /\ ms[1] = Head(wire) /\ Counts(ms, tally, inbox, conn, life, wired)
           /\ ms[1].life <= life
           /\ \A k \in DOMAIN inbox : inbox[k].life <= life /\ ~Current(inbox[k], conn, life)
           /\ Tail(ms) \in Seq(Message)
           /\ ms[1].op = "Subscribe" => tally = 0 /\ Apart(Tail(ms), 0, life) /\ Apart(Tail(ms), 1, life)
           /\ ms[1].op # "Subscribe" => Apart(Tail(ms), 0, life)
           /\ ms[1].op = "Subscribe" /\ ms[1].life = life => Tail(ms) = <<>>
           /\ Asked(Tail(ms), 0) => Asked(ms, tally)
           /\ Tail(ms) # <<>> => (Asked(Tail(ms), 1) <=> Asked(ms, tally))
           /\ Tail(ms) = <<>> => (Asked(ms, tally) <=> ms[1].op = "Subscribe")
<1>0. wire \in Seq(Message) /\ queue \in Seq(Message) /\ wire # <<>> /\ life \in Nat /\ tally \in Nat
  BY DEF CountInv, CountType, Read
<1>1. ms \in Seq(Message) /\ ms # <<>> /\ ms[1] = Head(wire)
  <2>1. ms \in Seq(Message)
    BY <1>0, ConcatProperties
  <2> QED
    BY <1>0, <2>1, ReadOne
<1>2. Counts(ms, tally, inbox, conn, life, wired) /\ Apart(ms, tally, life)
  BY DEF CountInv, TrustedCounts, Counts
<1>3. \A k \in DOMAIN inbox : inbox[k].life <= life /\ ~Current(inbox[k], conn, life)
  BY <1>1, <1>2 DEF Counts, Answers
<1>4. Len(ms) \in Nat /\ Len(ms) > 0 /\ Len(Tail(ms)) = Len(ms) - 1
  BY <1>1, HeadTailProperties
<1>5. ms[1].life <= life
  BY <1>2, <1>4 DEF Apart
<1>6. Tail(ms) = <<>> => (Asked(ms, tally) <=> ms[1].op = "Subscribe")
  <2> DEFINE tl == Tail(ms)
  <2>0. Len(tl) = Len(ms) - 1
    BY <1>4
  <2> HIDE DEF tl
  <2>2. tl = <<>> => Len(ms) = 1
    BY <1>4, <2>0
  <2>1. Tail(ms) = <<>> => Len(ms) = 1
    BY <2>2 DEF tl
  <2> QED
    BY <1>1, <2>1 DEF Asked
<1> QED
  BY <1>0, <1>1, <1>2, <1>3, <1>5, <1>6, ReadsFirst

\* The owner allows, refuses or ends a subscription.
LEMMA OwnerCounts ==
    ASSUME CountInv, SubscribeAllowed \/ (\E c \in Codes : SubscribeRefused(c)) \/ UnsubscribeRead
    PROVE  CountInv'
<1> DEFINE ms == wire \o queue
<1>0. /\ Read /\ tally \in Nat /\ conn \in Nat /\ wire \in Seq(Message) /\ wire # <<>> /\ inbox \in Seq(Answer)
      /\ life \in Nat
      /\ UNCHANGED <<gen, next, wired, owners, retries, peer, conn, queue, life, doubt>>
  BY DEF CountInv, CountType, SubscribeAllowed, SubscribeRefused, UnsubscribeRead, refs, peers, Read
<1> DEFINE tl == Tail(ms)
<1>F. Trusted => /\ ms \in Seq(Message) /\ ms # <<>> /\ ms[1] = Head(wire)
                 /\ Counts(ms, tally, inbox, conn, life, wired) /\ ms[1].life <= life
                 /\ \A k \in DOMAIN inbox : inbox[k].life <= life /\ ~Current(inbox[k], conn, life)
                 /\ tl \in Seq(Message)
                 /\ ms[1].op = "Subscribe" => tally = 0 /\ Apart(tl, 0, life) /\ Apart(tl, 1, life)
                 /\ ms[1].op # "Subscribe" => Apart(tl, 0, life)
                 /\ ms[1].op = "Subscribe" /\ ms[1].life = life => tl = <<>>
                 /\ Asked(tl, 0) => Asked(ms, tally)
                 /\ tl # <<>> => (Asked(tl, 1) <=> Asked(ms, tally))
                 /\ tl = <<>> => (Asked(ms, tally) <=> ms[1].op = "Subscribe")
  BY <1>0, FirstRead
<1> HIDE DEF ms, tl
<1>1. CASE SubscribeAllowed
  <2>1. tally' = tally + 1 /\ inbox' = inbox /\ Head(wire).op = "Subscribe"
    BY <1>1 DEF SubscribeAllowed
  <2>2. ASSUME Trusted PROVE Counts(tl, tally', inbox', conn, life, wired)
    <3>1. tally' = 1 /\ Apart(tl, 1, life)
      BY <1>F, <2>1, <2>2
    <3>2. Answers(tl, 1, inbox, conn, life)
      BY <1>F, <2>2 DEF Answers
    <3>3. ASSUME ~wired PROVE Unasked(tl, 1, inbox, conn, life)
      <4>1. ~Asked(ms, tally)
        BY <1>F, <2>2, <3>3 DEF Counts, Unasked
      <4>2. tl # <<>>
        BY <1>F, <2>1, <2>2, <4>1
      <4> QED
        BY <1>F, <2>2, <4>1, <4>2 DEF Unasked
    <3> QED
      BY <2>1, <3>1, <3>2, <3>3 DEF Counts
  <2>3. tally' \in Nat
    BY <1>0, <2>1
  <2> QED
    BY <1>0, <2>1, <2>2, <2>3, ReadCounts DEF ms, tl
<1>2. ASSUME NEW c \in Codes, SubscribeRefused(c) PROVE CountInv'
  <2> DEFINE x == [op |-> c, generation |-> Head(wire).generation, conn |-> conn, life |-> Head(wire).life]
  <2>1. tally' = tally /\ inbox' = Append(inbox, x) /\ Head(wire).op = "Subscribe"
    BY <1>2 DEF SubscribeRefused
  <2>2. Head(wire) \in Message
    BY <1>0, HeadTailProperties
  <2>3. x \in Answer /\ x.conn = conn /\ x.op \in Codes /\ x.life = Head(wire).life
    BY <1>0, <2>2 DEF Answer, Message
  <2> HIDE DEF x
  <2>4. ASSUME Trusted PROVE Counts(tl, tally', inbox', conn, life, wired)
    <3>1. tally' = 0 /\ tally = 0 /\ Apart(tl, 0, life)
      BY <1>F, <2>1, <2>4
    <3>2. Answers(tl, 0, inbox, conn, life)
      BY <1>F, <2>4 DEF Answers
    <3>3. ~wired => Unasked(tl, 0, inbox, conn, life)
      BY <1>F, <2>4 DEF Counts, Unasked
    <3>4. Counts(tl, 0, inbox, conn, life, wired)
      BY <3>1, <3>2, <3>3 DEF Counts
    <3>5. x.life <= life
      BY <1>F, <2>3, <2>4
    <3>6. CASE ~Current(x, conn, life)
      BY <1>0, <2>1, <2>3, <3>1, <3>4, <3>5, <3>6, AnswerAdded
    <3>7. CASE Current(x, conn, life)
      <4>1. tl = <<>> /\ Asked(ms, tally)
        BY <1>F, <2>1, <2>3, <2>4, <3>7 DEF Current
      <4>2. wired
        BY <1>F, <2>4, <4>1 DEF Counts, Unasked
      <4>3. \A k \in DOMAIN inbox' : (k \in DOMAIN inbox /\ inbox'[k] = inbox[k]) \/ (k = Len(inbox) + 1 /\ inbox'[k] = x)
        BY <1>0, <2>1
      <4>4. \A k \in DOMAIN inbox' : inbox'[k].life <= life /\ (Current(inbox'[k], conn, life) => k = Len(inbox) + 1)
        BY <1>F, <2>4, <3>5, <4>3
      <4>5. Answers(tl, 0, inbox', conn, life)
        BY <4>1, <4>4 DEF Answers
      <4> QED
        BY <3>1, <4>2, <4>5 DEF Counts
    <3> QED
      BY <3>6, <3>7
  <2>5. tally' \in Nat
    BY <1>0, <2>1
  <2> QED
    BY <1>0, <2>1, <2>3, <2>4, <2>5, ReadCounts DEF ms, tl
<1>3. CASE UnsubscribeRead
  <2>1. tally' = (IF tally > 0 THEN tally - 1 ELSE 0) /\ inbox' = inbox /\ Head(wire).op = "Unsubscribe"
    BY <1>3 DEF UnsubscribeRead
  <2>2. ASSUME Trusted PROVE Counts(tl, tally', inbox', conn, life, wired)
    <3>1. tally \in {0, 1}
      BY <1>F, <2>2 DEF Counts, Apart
    <3>2. tally' = 0 /\ Apart(tl, 0, life)
      BY <1>F, <2>1, <2>2, <3>1
    <3>3. Answers(tl, 0, inbox, conn, life)
      BY <1>F, <2>2 DEF Answers
    <3>4. ~wired => Unasked(tl, 0, inbox, conn, life)
      BY <1>F, <2>2 DEF Counts, Unasked
    <3> QED
      BY <2>1, <3>2, <3>3, <3>4 DEF Counts
  <2>3. tally' \in Nat
    BY <1>0, <2>1
  <2> QED
    BY <1>0, <2>1, <2>2, <2>3, ReadCounts DEF ms, tl
<1> QED
  BY <1>1, <1>2, <1>3

\* A frame comes back.
LEMMA FrameCounts ==
    ASSUME CountInv, FanOut
    PROVE  CountInv'
<1> DEFINE x == [op |-> "frame", generation |-> 0, conn |-> conn, life |-> 0]
<1>0. CountType /\ inbox \in Seq(Answer) /\ peer = "up" /\ inbox' = Append(inbox, x) /\ life \in Nat
      /\ SeenByRetries /\ conn \in Nat
  BY DEF CountInv, CountType, FanOut
<1>1. UNCHANGED <<gen, next, wired, owners, retries, peer, conn, queue, wire, tally, life, doubt>>
  BY DEF FanOut, refs, peers
<1>2. x \in Answer /\ x.conn = conn /\ x.life = 0 /\ x.op = "frame"
  BY <1>0 DEF Answer
<1> HIDE DEF x
<1>3. ~Current(x, conn, life) /\ x.life <= life
  BY <1>0, <1>2 DEF Current, Codes
<1>4. CountType'
  BY <1>0, <1>1, <1>2 DEF CountType
<1>5. \A k \in DOMAIN inbox' : (k \in DOMAIN inbox /\ inbox'[k] = inbox[k]) \/ inbox'[k] = x
  BY <1>0
<1>6. NoPeer'
  <2>1. \A k \in DOMAIN inbox' : inbox'[k].conn <= conn
    BY <1>0, <1>2, <1>5 DEF CountInv, NoPeer
  <2> QED
    BY <1>0, <1>1, <2>1 DEF NoPeer
<1>7. SeenByRetries'
  BY <1>0, <1>1, RetriesKeep
<1>8. Trusted => Counts(wire \o queue, tally, inbox', conn, life, wired)
  BY <1>0, <1>2, <1>3, AnswerAdded DEF CountInv, TrustedCounts
<1>9. TrustedCounts'
  BY <1>1, <1>8 DEF TrustedCounts, Trusted
<1> QED
  BY <1>1, <1>4, <1>6, <1>7, <1>9 DEF CountInv

\* An error of the owner is applied.
LEMMA ErrorCounts ==
    ASSUME CountInv, TransientError \/ DeniedError
    PROVE  CountInv'
<1> DEFINE m == Head(inbox)
<1>0. CountType /\ gen \in Nat /\ next \in Nat
  BY DEF CountInv, CountType
<1>1. /\ Received /\ UNCHANGED <<queue, wire, tally, conn, life, peer, owners>> /\ wired' = FALSE
      /\ doubt \cup Stale(m) \subseteq doubt' /\ m.op \in Codes /\ ~Fenced(m)
  BY DEF TransientError, DeniedError, peers, Codes
<1>2. gen' \in Nat /\ next' \in Nat
  <2>1. \/ gen' = gen /\ next' = next
        \/ gen' = next + 1 /\ next' = next + 2
        \/ gen' = (IF gen = 0 THEN next ELSE gen) /\ next' = (IF gen = 0 THEN next + 1 ELSE next)
    BY Zenon DEF TransientError, DeniedError
  <2> QED
    BY <1>0, <2>1
<1>3. \A r \in retries' : r \in retries \/ Asleep(r)
  <2>1. retries' = retries \/ Retry(gen')
    BY DEF TransientError, DeniedError
  <2> QED
    BY <2>1, SubscriptionAssumption DEF Retry, Asleep, RetryTyped
<1> HIDE DEF m
<1>4. m.generation \in {0, gen}
  BY <1>1 DEF Fenced
<1>5. Trusted' => m.conn = conn /\ m.life = life
  BY <1>1, <1>4 DEF Trusted, Stale, Doubted
<1>6. Trusted' => Current(Head(inbox), conn, life)
  BY <1>1, <1>5 DEF Current, m
<1> QED
  BY <1>1, <1>2, <1>3, <1>6, AnswersCount

\* CountInv is inductive.
LEMMA CountStep == CountInv /\ [Next]_vars => CountInv'
<1> SUFFICES ASSUME CountInv, [Next]_vars PROVE CountInv'
  OBVIOUS
<1>0. CountType /\ gen \in Nat /\ next \in Nat /\ life \in Nat /\ conn \in Nat
  BY DEF CountInv, CountType
<1>1. CASE UNCHANGED vars
  BY <1>0, <1>1, CountStays DEF vars, local, refs, peers, remote, counts
<1>2. CASE Next
  <2>0. doubt \subseteq doubt'
    BY <1>2, DoubtStays
  <2>1. ASSUME NEW s \in Sessions, notify_play_subscription(s) \/ notify_play_unsubscribe(s) PROVE CountInv'
    BY <1>0, <2>0, <2>1, CountStays DEF notify_play_subscription, notify_play_unsubscribe, refs, peers, remote
  <2>2. CASE OwnerMoves
    BY <1>0, <2>0, <2>2, CountStays DEF OwnerMoves, refs, peers, remote
  <2>3. ASSUME NEW i \in DOMAIN tasks, NEW s \in Sessions, subscribe_remote(i, s) PROVE CountInv'
    BY <2>3, SubscribeCounts
  <2>4. ASSUME NEW i \in DOMAIN tasks, NEW s \in Sessions, unsubscribe_remote(i, s) PROVE CountInv'
    <3>1. UNCHANGED <<retries, peer, conn, remote>>
      BY <2>4 DEF unsubscribe_remote
    <3>2. CASE owners = {s}
      BY <2>0, <2>4, <3>1, <3>2, FinishCounts DEF unsubscribe_remote
    <3>3. CASE owners # {s}
      <4>1. UNCHANGED <<gen, next, wired, life, queue>> /\ owners' = owners \ {s}
        BY <2>4, <3>3 DEF unsubscribe_remote
      <4>2. owners' # {} \/ owners' = owners
        BY <3>3, <4>1
      <4> QED
        BY <1>0, <2>0, <3>1, <4>1, <4>2, CountStays DEF remote
    <3> QED
      BY <3>2, <3>3
  <2>5. ASSUME NEW i \in DOMAIN tasks, unsubscribe_remote_all(i) PROVE CountInv'
    <3>1. UNCHANGED <<retries, peer, conn, remote>>
      BY <2>5 DEF unsubscribe_remote_all
    <3>2. CASE owners # {}
      BY <2>0, <2>5, <3>1, <3>2, FinishCounts DEF unsubscribe_remote_all
    <3>3. CASE owners = {}
      <4>1. UNCHANGED <<gen, next, wired, life, queue, owners>>
        BY <2>5, <3>3 DEF unsubscribe_remote_all
      <4> QED
        BY <1>0, <2>0, <3>1, <4>1, CountStays DEF remote
    <3> QED
      BY <3>2, <3>3
  <2>6. CASE connect_peer
    <3>1. UNCHANGED <<owners, wire, inbox, tally, conn, life>> /\ peer = "none" /\ peer' # "none"
          /\ Apply(Replayed(owners, <<>>))
      BY <2>6 DEF connect_peer, FreshPeer, remote
    <3>2. wire' = <<>> /\ tally' = 0 /\ \A k \in DOMAIN inbox : inbox[k].conn < conn'
      BY <3>1 DEF CountInv, NoPeer
    <3> QED
      BY <1>0, <2>0, <3>1, <3>2, ReplayOnFresh
  <2>7. CASE ReplacePeer
    <3>1. UNCHANGED <<owners, inbox, life>> /\ peer' # "none" /\ conn' = conn + 1
          /\ wire' = <<>> /\ tally' = 0 /\ Apply(Replayed(owners, <<>>))
      BY <2>7 DEF ReplacePeer
    <3>2. \A k \in DOMAIN inbox : inbox[k].conn \in Nat /\ inbox[k].conn <= conn
      BY <1>0, InboxTyped DEF CountInv, NoPeer
    <3>3. conn' \in Nat /\ \A k \in DOMAIN inbox : inbox[k].conn < conn'
      BY <1>0, <3>1, <3>2
    <3> QED
      BY <2>0, <3>1, <3>3, ReplayOnFresh
  <2>8. CASE disconnect_peer
    <3>1. /\ wire' = <<>> /\ tally' = 0 /\ conn' = conn + 1 /\ retries' = retries /\ queue' = <<>>
          /\ inbox' = inbox /\ owners' = {} /\ life' = life + 1 /\ wired' = FALSE
      BY <2>8 DEF disconnect_peer
    <3>2. gen' \in Nat /\ next' \in Nat
      BY <1>0, <2>8 DEF disconnect_peer
    <3>3. wired' \in BOOLEAN
      BY <3>1, Zenon
    <3> QED
      BY <2>0, <3>1, <3>2, <3>3, CountBreaks
  <2>9. CASE resubscribe_peer
    <3>1. UNCHANGED <<owners, peer, conn, life, remote>>
      BY <2>9 DEF resubscribe_peer
    <3>2. CASE peer = "none"
      BY <1>0, <2>0, <2>9, <3>1, <3>2, CountStays DEF resubscribe_peer, remote
    <3>3. CASE peer # "none"
      BY <2>9, <3>1, <3>3, ReplayCounts DEF resubscribe_peer
    <3> QED
      BY <3>2, <3>3
  <2>10. CASE PruneGens \/ Connected \/ TearDown
    BY <1>0, <2>0, <2>10, CountStays DEF PruneGens, Connected, TearDown, refs, peers, remote
  <2>11. ASSUME NEW r \in retries, RetryChecks(r) \/ RetrySends(r) PROVE CountInv'
    BY <2>11, RetryCounts
  <2>12. CASE FrameArrives \/ FencedError
    <3>1. Received /\ UNCHANGED <<queue, wire, tally, conn, life, peer, owners, wired, retries>>
      BY <2>12 DEF FrameArrives, FencedError, peers, refs
    <3>2. gen' \in {gen, next} /\ next' \in {next, next + 1}
      BY <2>12 DEF FrameArrives, FencedError, refs
    <3>3. gen' \in Nat /\ next' \in Nat
      BY <1>0, <3>2
    <3> QED
      BY <2>0, <3>1, <3>3, AnswersCount
  <2>13. CASE TransientError \/ DeniedError
    BY <2>13, ErrorCounts
  <2>14. CASE WriteMessage
    BY <2>14, WriteCounts
  <2>15. CASE ConnectionLost
    <3>1. /\ wire' = <<>> /\ tally' = 0 /\ conn' = conn + 1
          /\ UNCHANGED <<gen, next, wired, owners, retries, life>> /\ peer' # "none"
          /\ (inbox' = inbox \/ inbox' = <<>>)
          /\ (queue' = queue \/ (queue # <<>> /\ queue' = Tail(queue)))
      BY <2>15 DEF ConnectionLost, refs
    <3>2. wired' \in BOOLEAN
      BY <1>0, <3>1, Zenon DEF CountType
    <3> QED
      BY <1>0, <2>0, <3>1, <3>2, CountBreaks
  <2>16. CASE SubscribeAllowed \/ (\E c \in Codes : SubscribeRefused(c)) \/ UnsubscribeRead
    BY <2>16, OwnerCounts
  <2>17. CASE FanOut
    BY <2>17, FrameCounts
  <2> QED
    BY <1>2, <2>1, <2>2, <2>3, <2>4, <2>5, <2>6, <2>7, <2>8, <2>9, <2>10, <2>11, <2>12, <2>13,
       <2>14, <2>15, <2>16, <2>17 DEF Next
<1> QED
  BY <1>1, <1>2

\* CountInv of the whole run.
LEMMA CountAlways == PlaneSpec => []CountInv
<1>1. PlaneInit => CountInv
  BY CountInit DEF PlaneInit
<1>2. CountInv /\ [PlaneNext]_PlaneVars => CountInv'
  BY CountStep DEF PlaneNext, SubscribeStep, OutputsStep, PlaneVars
<1> QED
  BY <1>1, <1>2, PTL DEF PlaneSpec

\* The owner of a stream never counts a subscribing node twice: however replays,
\* retries and reconnects overlap, two Subscribes of one node are separated by an
\* Unsubscribe or by a new connection (hub.rs subscribe_remote,
\* run_inbound_media_session).
THEOREM CountedOnceAlways == PlaneSpec => []CountedOnce
<1>1. CountInv => CountedOnce
  <2> SUFFICES ASSUME CountInv, Trusted PROVE tally <= 1
    BY DEF CountedOnce
  <2>1. tally \in {0, 1}
    BY DEF CountInv, TrustedCounts, Counts, Apart
  <2> QED
    BY <2>1
<1> QED
  BY <1>1, CountAlways, PTL

-----------------------------------------------------------------------------
(* A node that wants a stream gets it.                                     *)

\* The owner counts this node, or will when it has read the messages, or an
\* answer is on its way that will say that it does not.
Fed(ms, t, ib, cn, lf) ==
    \/ ms = <<>> /\ t > 0
    \/ ms # <<>> /\ ms[Len(ms)].op = "Subscribe" /\ ms[Len(ms)].life = lf
    \/ \E k \in DOMAIN ib : Current(ib[k], cn, lf)

\* A subscription that is taken for served is fed, or about to be replayed.
WiredFed == wired => notes > 0 \/ Fed(wire \o queue, tally, inbox, conn, life)

\* A retry of this generation is on its way.
Retried == \E r \in retries : r.gen = gen
\* One that is wanted and not taken for served has a retry, a replay or a
\* reconnect ahead of it, or a task that drops it.
DarkRetried ==
    ~wired /\ owners # {} /\ owner =>
        \/ "gave up" \in doubt \/ notes > 0 \/ peer = "none" \/ Retried
        \/ \E j \in Nat : DropsAll(j)

\* The invariant of what is wanted.
FedInv ==
    /\ notes \in Nat /\ (~addr => peer = "none") /\ (peer = "none" => ~wired)
    /\ Trusted => WiredFed /\ DarkRetried

\* A Subscribe of this life at the end of the messages will be counted.
LEMMA FedAppend ==
    ASSUME NEW ms \in Seq(Message), NEW t, NEW ib, NEW cn, NEW lf,
           NEW x \in Message, x.op = "Subscribe", x.life = lf
    PROVE  Fed(Append(ms, x), t, ib, cn, lf)
<1>1. Append(ms, x) # <<>> /\ Append(ms, x)[Len(Append(ms, x))] = x
  OBVIOUS
<1> QED
  BY <1>1 DEF Fed

\* Reading an answer that is not a refusal of this life changes nothing.
LEMMA FedLessInbox ==
    ASSUME NEW ms, NEW t, NEW ib \in Seq(Answer), NEW cn, NEW lf, ib # <<>>,
           Fed(ms, t, ib, cn, lf), ~Current(Head(ib), cn, lf)
    PROVE  Fed(ms, t, Tail(ib), cn, lf)
<1> DEFINE r == Tail(ib)
<1>1. /\ r \in Seq(Answer) /\ Len(r) = Len(ib) - 1 /\ Len(ib) \in Nat /\ Len(ib) > 0 /\ Head(ib) = ib[1]
      /\ \A k \in 1 .. Len(r) : r[k] = ib[k + 1]
  BY HeadTailProperties
<1> HIDE DEF r
<1>2. ASSUME NEW k \in DOMAIN ib, Current(ib[k], cn, lf) PROVE \E j \in DOMAIN r : Current(r[j], cn, lf)
  <2>1. k # 1 /\ k \in 1 .. Len(ib)
    BY <1>1, <1>2
  <2>2. k - 1 \in 1 .. Len(r) /\ (k - 1) + 1 = k
    BY <1>1, <2>1
  <2>3. r[k - 1] = ib[k] /\ k - 1 \in DOMAIN r
    BY <1>1, <2>2
  <2> QED
    BY <1>2, <2>3
<1> QED
  BY <1>2 DEF Fed, r

\* Nor does another answer.
LEMMA FedMoreInbox ==
    ASSUME NEW ms, NEW t, NEW ib \in Seq(Answer), NEW cn, NEW lf, NEW x \in Answer, Fed(ms, t, ib, cn, lf)
    PROVE  Fed(ms, t, Append(ib, x), cn, lf)
<1>1. \A k \in DOMAIN ib : k \in DOMAIN Append(ib, x) /\ Append(ib, x)[k] = ib[k]
  OBVIOUS
<1> QED
  BY <1>1 DEF Fed

\* What is left when the references are gone or the steps leave them alone.
LEMMA FedStays ==
    ASSUME FedInv, doubt \subseteq doubt', notes' \in Nat, ~addr' => peer' = "none",
           queue' = queue, wire' = wire, inbox' = inbox, tally' = tally, conn' = conn, life' = life,
           wired' = wired, gen' = gen, notes' = notes, peer' = peer \/ (peer' # "none" /\ peer # "none"),
           \A r \in retries : r.gen = gen => \E q \in retries' : q.gen = gen,
           (\E j \in Nat : DropsAll(j)) => \E j \in Nat : DropsAll(j)',
           Trusted /\ ~wired /\ owners' # {} /\ owner' =>
               peer = "none" \/ (owners # {} /\ owner) \/ \E j \in Nat : DropsAll(j)
    PROVE  FedInv'
<1>1. ASSUME Trusted' PROVE WiredFed' /\ DarkRetried'
  <2>1. WiredFed /\ DarkRetried /\ Trusted
    BY <1>1 DEF FedInv, Trusted
  <2>2. WiredFed'
    BY <2>1 DEF WiredFed
  <2>3. Retried => Retried'
    BY DEF Retried
  <2>4. DarkRetried'
    BY <2>1, <2>3 DEF DarkRetried, FedInv
  <2> QED
    BY <2>2, <2>4
<1> QED
  BY <1>1 DEF FedInv

\* A Subscribe is queued.
LEMMA FedAsks ==
    ASSUME FedInv, doubt \subseteq doubt', notes' \in Nat, ~addr' => peer' = "none", peer' # "none",
           wired' = TRUE, wire' \in Seq(Message), NEW q \in Seq(Message),
           \E x \in Message : x.op = "Subscribe" /\ x.life = life' /\ queue' = Append(q, x)
    PROVE  FedInv'
<1>1. PICK x \in Message : x.op = "Subscribe" /\ x.life = life' /\ queue' = Append(q, x)
  OBVIOUS
<1>2. wire' \o queue' = Append(wire' \o q, x) /\ wire' \o q \in Seq(Message)
  BY <1>1, QueueOne, ConcatProperties
<1>3. Fed(wire' \o queue', tally', inbox', conn', life')
  BY <1>1, <1>2, FedAppend
<1>4. WiredFed' /\ DarkRetried'
  BY <1>3 DEF WiredFed, DarkRetried
<1> QED
  BY <1>4 DEF FedInv

\* Nobody has a reference.
LEMMA FedEmpty ==
    ASSUME FedInv, notes' \in Nat, ~addr' => peer' = "none", ~wired', owners' = {}
    PROVE  FedInv'
  BY DEF FedInv, WiredFed, DarkRetried

\* What a replay leaves when it does not send.
LEMMA ReplayRetries ==
    ASSUME NEW q, NEW o, Apply(Replayed(o, q)), wired' = FALSE
    PROVE  o = {} \/ ~owner \/ Retried'
<1> DEFINE g == IF gen = 0 THEN next ELSE gen
           ask == o # {} /\ owner
           x == [gen |-> g, left |-> SendRetries, st |-> "sleep", seen |-> <<>>, by |-> conn]
<1>1. /\ wired' = (ask /\ Fits(q)) /\ gen' = (IF ask THEN g ELSE gen)
      /\ retries' = IF ask /\ ~Fits(q) THEN retries \cup {x} ELSE retries
  BY DEF Apply, Replayed
<1>2. x.gen = g
  OBVIOUS
<1>3. ask => ~Fits(q) /\ gen' = g /\ x \in retries'
  BY <1>1
<1> QED
  BY <1>2, <1>3 DEF Retried

\* A replay.
LEMMA FedReplay ==
    ASSUME FedInv, CountType, doubt \subseteq doubt', notes' \in Nat, ~addr' => peer' = "none", peer' # "none",
           NEW q \in Seq(Message), NEW o, Apply(Replayed(o, q)), owners' = o, owner' = owner,
           life' = life, wire' \in Seq(Message)
    PROVE  FedInv'
<1>1. /\ wired' \in BOOLEAN
      /\ \/ queue' = q /\ wired' = FALSE
         \/ /\ o # {} /\ wired' = TRUE
            /\ \E x \in Message : /\ x.op = "Subscribe" /\ x.life = life
                                   /\ queue' = Append(q, x)
  BY ReplayDoes
<1>2. CASE wired' = TRUE
  <2>1. \E x \in Message : x.op = "Subscribe" /\ x.life = life' /\ queue' = Append(q, x)
    BY <1>1, <1>2
  <2> QED
    BY <1>2, <2>1, FedAsks
<1>3. CASE wired' = FALSE
  <2>1. o = {} \/ ~owner \/ Retried'
    BY <1>3, ReplayRetries
  <2>2. DarkRetried' /\ WiredFed'
    BY <1>3, <2>1 DEF DarkRetried, WiredFed
  <2> QED
    BY <1>3, <2>2 DEF FedInv
<1> QED
  BY <1>1, <1>2, <1>3

\* A task that is done is not another one that drops everything.
LEMMA AllStays ==
    ASSUME RefsType, NEW i \in DOMAIN tasks, Take(i), tasks[i].op # "all", NEW j \in Nat, DropsAll(j)
    PROVE  \E k \in Nat : DropsAll(k)'
<1>1. /\ DOMAIN tasks' = 1 .. Len(tasks) - 1 /\ DOMAIN tasks = 1 .. Len(tasks) /\ Len(tasks) \in Nat
      /\ \A l \in 1 .. Len(tasks) - 1 : tasks'[l] = IF l < i THEN tasks[l] ELSE tasks[l + 1]
  BY Taken
<1>2. j # i /\ i \in Nat /\ i >= 1 /\ i <= Len(tasks) /\ j >= 1 /\ j <= Len(tasks) /\ tasks[j].op = "all"
  BY <1>1 DEF DropsAll
<1>3. CASE j < i
  <2>1. j \in 1 .. Len(tasks) - 1
    BY <1>1, <1>2, <1>3
  <2>2. tasks'[j] = tasks[j]
    BY <1>1, <1>3, <2>1
  <2>3. DropsAll(j)'
    BY <1>1, <1>2, <2>1, <2>2 DEF DropsAll
  <2> QED
    BY <2>3
<1>4. CASE j > i
  <2>1. j - 1 \in 1 .. Len(tasks) - 1 /\ ~(j - 1 < i) /\ (j - 1) + 1 = j /\ j - 1 \in Nat
    BY <1>1, <1>2, <1>4
  <2>2. tasks'[j - 1] = tasks[j]
    BY <1>1, <2>1
  <2>3. DropsAll(j - 1)'
    BY <1>1, <1>2, <2>1, <2>2 DEF DropsAll
  <2> QED
    BY <2>1, <2>3
<1> QED
  BY <1>2, <1>3, <1>4

\* subscribe_remote and finish_unsubscribe keep FedInv.
LEMMA SubscribeFeeds ==
    ASSUME FedInv, CountInv, RefsInv, NEW i \in DOMAIN tasks, NEW s \in Sessions, subscribe_remote(i, s)
    PROVE  FedInv'
<1> DEFINE o == owners \cup {s}
<1>0. /\ CountType /\ gen \in Nat /\ queue \in Seq(Message) /\ wire \in Seq(Message) /\ <<>> \in Seq(Message)
      /\ RefsType /\ notes \in Nat /\ o # {} /\ life \in Nat
  BY DEF CountInv, CountType, RefsInv, FedInv
<1>1. UNCHANGED <<conn, wire, inbox, tally, notes, owner, addr>> /\ doubt \subseteq doubt'
  BY DEF subscribe_remote, remote
<1>2. (\E j \in Nat : DropsAll(j)) => \E k \in Nat : DropsAll(k)'
  BY <1>0, TakenOneKeeps DEF subscribe_remote
<1>3. Trusted /\ ~owner /\ owners # {} => \E j \in Nat : DropsAll(j)
  BY DEF RefsInv, AwayDropped
<1>4. ASSUME owners' = o, ~addr \/ wired \/ ~owner \/ owners # {}, UNCHANGED <<wired, gen, retries, peer, queue, life>>
      PROVE  FedInv'
  <2>1. ~addr' => peer' = "none"
    BY <1>1, <1>4 DEF FedInv
  <2>2. ~wired /\ owner' => peer = "none" \/ (owners # {} /\ owner)
    BY <1>1, <1>4 DEF FedInv
  <2>3. notes' \in Nat /\ notes' = notes
    BY <1>0, <1>1
  <2> QED
    BY <1>1, <1>2, <1>4, <2>1, <2>2, <2>3, FedStays
<1>5. ASSUME addr, FreshPeer(o), owners' = o, UNCHANGED life PROVE FedInv'
  <2>1. peer' # "none" /\ Apply(Replayed(o, <<>>))
    BY <1>5 DEF FreshPeer
  <2>2. notes' \in Nat /\ wire' \in Seq(Message) /\ (~addr' => peer' = "none")
    BY <1>0, <1>1, <1>5
  <2> QED
    BY <1>0, <1>1, <1>5, <2>1, <2>2, FedReplay
<1>6. ASSUME addr, peer # "none", wired' = TRUE, queue' = Append(queue, Subscribe(gen)), UNCHANGED <<peer, life>>
      PROVE  FedInv'
  <2>1. Subscribe(gen) \in Message /\ Subscribe(gen).op = "Subscribe" /\ Subscribe(gen).life = life'
    BY <1>0, <1>6 DEF Subscribe, Message
  <2>2. notes' \in Nat /\ wire' \in Seq(Message) /\ (~addr' => peer' = "none") /\ peer' # "none"
    BY <1>0, <1>1, <1>6
  <2> QED
    BY <1>0, <1>1, <1>6, <2>1, <2>2, FedAsks
<1>7. ASSUME addr, ~wired, owners' = {}, UNCHANGED wired PROVE FedInv'
  BY <1>0, <1>1, <1>7, FedEmpty
<1>8. o # {s} => owners # {}
  OBVIOUS
<1> QED
  BY <1>4, <1>5, <1>6, <1>7, <1>8 DEF subscribe_remote

\* So do a replay and a retry.
LEMMA RetryFeeds ==
    ASSUME FedInv, CountInv, NEW r \in retries, RetryChecks(r) \/ RetrySends(r)
    PROVE  FedInv'
<1>0. /\ CountType /\ gen \in Nat /\ queue \in Seq(Message) /\ wire \in Seq(Message)
      /\ notes \in Nat /\ life \in Nat /\ RetryTyped(r)
  BY DEF CountInv, CountType, SeenByRetries, FedInv
<1>1. UNCHANGED <<conn, wire, inbox, tally, peer, life, owners, owner, addr, gen, notes, tasks>> /\ doubt \subseteq doubt'
  BY DEF RetryChecks, RetrySends, remote, peers, refs, local
<1>2. (\E j \in Nat : DropsAll(j)) => \E j \in Nat : DropsAll(j)'
  BY <1>1 DEF DropsAll
<1>3. notes' \in Nat /\ notes' = notes /\ (~addr' => peer' = "none") /\ wire' \in Seq(Message)
  BY <1>0, <1>1 DEF FedInv
<1>4. ASSUME UNCHANGED <<queue, wired>>, Retried => Retried' \/ wired \/ owners = {} \/ peer = "none" \/ "gave up" \in doubt'
      PROVE  FedInv'
  <2>1. ASSUME Trusted' PROVE WiredFed' /\ DarkRetried'
    <3>1. WiredFed /\ DarkRetried
      BY <1>1, <2>1 DEF FedInv, Trusted
    <3>2. WiredFed'
      BY <1>1, <1>4, <3>1 DEF WiredFed
    <3>3. DarkRetried'
      BY <1>1, <1>2, <1>4, <3>1 DEF DarkRetried
    <3> QED
      BY <3>2, <3>3
  <2> QED
    BY <1>1, <1>3, <1>4, <2>1 DEF FedInv
<1>5. CASE RetryChecks(r)
  <2>1. UNCHANGED <<queue, wired>>
    BY <1>5 DEF RetryChecks, peers, refs
  <2>2. Checked(r).gen = r.gen
    BY <1>0 DEF Checked, RetryTyped
  <2>3. \A q \in retries : q # r => q \in retries'
    BY <1>5 DEF RetryChecks
  <2>4. gen = r.gen => Checked(r) \in retries' \/ wired \/ owners = {} \/ peer = "none"
    BY <1>5 DEF RetryChecks
  <2>5. Retried => Retried' \/ wired \/ owners = {} \/ peer = "none"
    BY <1>1, <2>2, <2>3, <2>4 DEF Retried
  <2> QED
    BY <1>4, <2>1, <2>5
<1>6. CASE RetrySends(r) /\ ~(peer # "none" /\ Fits(queue))
  <2> DEFINE x == [r EXCEPT !.st = "sleep", !.seen = <<>>, !.left = @ - 1]
  <2>1. /\ UNCHANGED <<queue, wired>> /\ \A q \in retries : q # r => q \in retries'
        /\ r.left > 0 => x \in retries'
        /\ r.left = 0 => "gave up" \in doubt'
        /\ ~(r.left > 0) => doubt' = doubt \cup Doubted("gave up", r.left = 0)
    BY <1>6 DEF RetrySends, Doubted
  <2>2. x.gen = r.gen
    BY <1>0 DEF RetryTyped
  <2> HIDE DEF x
  <2>3. r.left > 0 \/ r.left = 0
    BY <1>0 DEF RetryTyped
  <2>5. Retried => Retried' \/ "gave up" \in doubt'
    BY <1>1, <2>1, <2>2, <2>3 DEF Retried
  <2> QED
    BY <1>4, <2>1, <2>5
<1>7. CASE RetrySends(r) /\ peer # "none" /\ Fits(queue)
  <2>1. queue' = Append(queue, Subscribe(gen)) /\ wired' = (owners # {})
    BY <1>7 DEF RetrySends
  <2>2. Subscribe(gen) \in Message /\ Subscribe(gen).op = "Subscribe" /\ Subscribe(gen).life = life'
    BY <1>0, <1>1 DEF Subscribe, Message
  <2>3. CASE owners # {}
    <3>1. wired' = TRUE /\ peer' # "none"
      BY <1>1, <1>7, <2>1, <2>3
    <3> QED
      BY <1>0, <1>1, <1>3, <2>1, <2>2, <3>1, FedAsks
  <2>4. CASE owners = {}
    BY <1>1, <1>3, <2>1, <2>4, FedEmpty
  <2> QED
    BY <2>3, <2>4
<1> QED
  BY <1>5, <1>6, <1>7

\* What the reader has received.
LEMMA AnswerFeeds ==
    ASSUME FedInv, CountInv, FrameArrives \/ FencedError \/ TransientError \/ DeniedError
    PROVE  FedInv'
<1> DEFINE m == Head(inbox)
<1>0. CountType /\ inbox \in Seq(Answer) /\ notes \in Nat /\ gen \in Nat /\ wired \in BOOLEAN
  BY DEF CountInv, CountType, FedInv
<1>1. /\ inbox # <<>> /\ inbox' = Tail(inbox) /\ doubt \subseteq doubt'
      /\ UNCHANGED <<queue, wire, tally, conn, life, peer, owners, owner, addr, notes, tasks>>
  BY DEF FrameArrives, FencedError, TransientError, DeniedError, Received, peers, refs, local
<1>2. notes' \in Nat /\ (~addr' => peer' = "none")
  BY <1>0, <1>1 DEF FedInv
<1>3. (\E j \in Nat : DropsAll(j)) => \E j \in Nat : DropsAll(j)'
  BY <1>1 DEF DropsAll
<1>4. ASSUME wired' = wired, Trusted' => ~wired \/ ~Current(m, conn, life),
             Trusted' => (~wired /\ owner /\ Retried => Retried')
      PROVE  FedInv'
  <2>1. ASSUME Trusted' PROVE WiredFed' /\ DarkRetried'
    <3>1. WiredFed /\ DarkRetried
      BY <1>1, <2>1 DEF FedInv, Trusted
    <3>2. wired /\ Fed(wire \o queue, tally, inbox, conn, life) => Fed(wire \o queue, tally, Tail(inbox), conn, life)
      BY <1>0, <1>1, <1>4, <2>1, FedLessInbox
    <3>3. WiredFed'
      BY <1>1, <1>4, <3>1, <3>2 DEF WiredFed
    <3>4. DarkRetried'
      BY <1>1, <1>3, <1>4, <2>1, <3>1 DEF DarkRetried
    <3> QED
      BY <3>3, <3>4
  <2> QED
    BY <1>1, <1>2, <1>4, <2>1 DEF FedInv
<1>5. CASE FrameArrives
  <2>1. wired' = wired /\ m.op = "frame" /\ retries' = retries
    BY <1>5 DEF FrameArrives
  <2>2. ~Current(m, conn, life)
    BY <2>1 DEF Current, Codes
  <2>3. owner /\ ~wired /\ Retried /\ Trusted' => ~(nacks > 0)
    BY <1>5 DEF FrameArrives, Doubted, Trusted, Retried
  <2>4. ~(nacks > 0) => gen' = gen
    BY <1>5 DEF FrameArrives
  <2>5. Trusted' => (~wired /\ owner /\ Retried => Retried')
    BY <2>1, <2>3, <2>4 DEF Retried
  <2> QED
    BY <1>4, <2>1, <2>2, <2>5
<1>6. CASE FencedError
  <2>1. wired' = wired /\ gen' = gen /\ retries' = retries
        /\ doubt' = doubt \cup Doubted("fenced", owners # {} /\ m.conn = conn /\ m.life = life)
    BY <1>6 DEF FencedError, refs
  <2>2. Trusted' => owners = {} \/ ~(m.conn = conn /\ m.life = life)
    BY <2>1 DEF Trusted, Doubted
  <2>3. Trusted' => ~wired \/ ~Current(m, conn, life)
    BY <2>2 DEF Current, CountInv
  <2>4. Retried => Retried'
    BY <2>1 DEF Retried
  <2> QED
    BY <1>4, <2>1, <2>3, <2>4
<1>7. CASE TransientError \/ DeniedError
  <2>1. ~wired'
    BY <1>7 DEF TransientError, DeniedError
  <2>2. "gave up" \in doubt' \/ Retry(gen')
    BY <1>7 DEF TransientError, DeniedError
  <2>3. Retry(gen') => Retried'
    <3> DEFINE x == [gen |-> gen', left |-> SendRetries, st |-> "sleep", seen |-> <<>>, by |-> refusals]
    <3>1. x.gen = gen'
      OBVIOUS
    <3>2. Retry(gen') => x \in retries'
      BY DEF Retry
    <3> HIDE DEF x
    <3> QED
      BY <3>1, <3>2 DEF Retried
  <2>4. WiredFed' /\ DarkRetried'
    BY <2>1, <2>2, <2>3 DEF WiredFed, DarkRetried
  <2> QED
    BY <1>2, <2>1, <2>4 DEF FedInv
<1> QED
  BY <1>5, <1>6, <1>7

\* The messages on their way.
LEMMA WireFeeds ==
    ASSUME FedInv, CountInv,
           WriteMessage \/ SubscribeAllowed \/ (\E c \in Codes : SubscribeRefused(c)) \/ UnsubscribeRead \/ FanOut
    PROVE  FedInv'
<1> DEFINE ms == wire \o queue
           tl == Tail(ms)
<1>0. /\ CountType /\ inbox \in Seq(Answer) /\ notes \in Nat /\ gen \in Nat /\ tally \in Nat /\ conn \in Nat
      /\ wire \in Seq(Message) /\ queue \in Seq(Message) /\ life \in Nat
  BY DEF CountInv, CountType, FedInv
<1>1. UNCHANGED <<conn, life, peer, owners, owner, addr, notes, tasks, wired, gen, retries, doubt>>
  BY DEF WriteMessage, SubscribeAllowed, SubscribeRefused, UnsubscribeRead, FanOut, peers, refs, local
<1>2. notes' \in Nat /\ (~addr' => peer' = "none")
  BY <1>0, <1>1 DEF FedInv
<1>3. ASSUME Trusted /\ wired /\ Fed(ms, tally, inbox, conn, life) => Fed(wire' \o queue', tally', inbox', conn, life)
      PROVE  FedInv'
  <2>1. ASSUME Trusted PROVE WiredFed' /\ DarkRetried'
    <3>1. WiredFed /\ DarkRetried
      BY <2>1 DEF FedInv
    <3>2. WiredFed'
      BY <1>1, <1>3, <2>1, <3>1 DEF WiredFed
    <3>3. DarkRetried'
      BY <1>1, <3>1 DEF DarkRetried, Retried, DropsAll
    <3> QED
      BY <3>2, <3>3
  <2> QED
    BY <1>1, <1>2, <2>1 DEF FedInv, Trusted
<1> HIDE DEF ms, tl
<1>4. CASE WriteMessage
  <2>1. wire' \o queue' = ms /\ tally' = tally /\ inbox' = inbox
    BY <1>0, <1>4, MoveOne DEF WriteMessage, ms
  <2> QED
    BY <1>3, <2>1
<1>5. CASE FanOut
  <2> DEFINE x == [op |-> "frame", generation |-> 0, conn |-> conn, life |-> 0]
  <2>1. wire' \o queue' = ms /\ tally' = tally /\ inbox' = Append(inbox, x) /\ x \in Answer
    BY <1>0, <1>5 DEF FanOut, peers, ms, Answer
  <2> HIDE DEF x
  <2>2. Fed(ms, tally, inbox, conn, life) => Fed(ms, tally, inbox', conn, life)
    BY <1>0, <2>1, FedMoreInbox
  <2> QED
    BY <1>3, <2>1, <2>2
<1>6. CASE SubscribeAllowed \/ (\E c \in Codes : SubscribeRefused(c)) \/ UnsubscribeRead
  <2>0. Read /\ queue' = queue /\ wire # <<>> /\ wire' = Tail(wire)
    BY <1>6 DEF SubscribeAllowed, SubscribeRefused, UnsubscribeRead, peers, Read
  <2>1. wire' \o queue' = tl
    BY <1>0, <2>0, ReadOne DEF ms, tl
  <2>F. Trusted => /\ ms \in Seq(Message) /\ ms # <<>> /\ ms[1] = Head(wire)
                   /\ \A k \in DOMAIN inbox : ~Current(inbox[k], conn, life)
    BY <2>0, FirstRead DEF ms
  <2>2. SUFFICES ASSUME Trusted, wired, Fed(ms, tally, inbox, conn, life)
                 PROVE  Fed(tl, tally', inbox', conn, life)
    BY <1>3, <2>1
  <2>3. ms # <<>> /\ ms[Len(ms)].op = "Subscribe" /\ ms[Len(ms)].life = life
    BY <2>2, <2>F DEF Fed
  <2>4. /\ tl \in Seq(Message) /\ Len(tl) = Len(ms) - 1 /\ Len(ms) \in Nat /\ Len(ms) > 0
        /\ \A k \in 1 .. Len(tl) : tl[k] = ms[k + 1]
    BY <2>2, <2>F, HeadTailProperties DEF tl
  <2>5. CASE tl # <<>>
    <3>1. Len(tl) \in 1 .. Len(tl) /\ Len(tl) + 1 = Len(ms)
      BY <2>4, <2>5
    <3>2. tl[Len(tl)] = ms[Len(ms)]
      BY <2>4, <3>1
    <3> QED
      BY <2>3, <2>5, <3>2 DEF Fed
  <2>6. CASE tl = <<>>
    <3>1. Len(ms) = 1 /\ Head(wire).op = "Subscribe" /\ Head(wire).life = life
      <4>1. Len(ms) = 1
        BY <2>4, <2>6
      <4> QED
        BY <2>2, <2>3, <2>F, <4>1
    <3>2. CASE SubscribeAllowed
      <4>1. tally' > 0
        BY <1>0, <3>2 DEF SubscribeAllowed
      <4> QED
        BY <2>6, <4>1 DEF Fed
    <3>3. ASSUME NEW c \in Codes, SubscribeRefused(c) PROVE Fed(tl, tally', inbox', conn, life)
      <4> DEFINE x == [op |-> c, generation |-> Head(wire).generation, conn |-> conn, life |-> Head(wire).life]
      <4>1. inbox' = Append(inbox, x)
        BY <3>3 DEF SubscribeRefused
      <4>2. x.op \in Codes /\ x.conn = conn /\ x.life = life
        BY <3>1
      <4> HIDE DEF x
      <4>3. Len(inbox) + 1 \in DOMAIN inbox' /\ inbox'[Len(inbox) + 1] = x
        BY <1>0, <4>1
      <4>4. Current(inbox'[Len(inbox) + 1], conn, life)
        BY <4>2, <4>3 DEF Current
      <4> QED
        BY <4>3, <4>4 DEF Fed
    <3>4. ~UnsubscribeRead
      BY <3>1 DEF UnsubscribeRead
    <3> QED
      BY <1>6, <3>2, <3>3, <3>4
  <2> QED
    BY <2>5, <2>6
<1> QED
  BY <1>4, <1>5, <1>6

\* FedInv holds at the start.
LEMMA FedInit == Init => FedInv
  BY DEF Init, FedInv, WiredFed, DarkRetried

\* Every step keeps it, given the other two.
LEMMA FedStep == FedInv /\ CountInv /\ RefsInv /\ [Next]_vars => FedInv'
<1> SUFFICES ASSUME FedInv, CountInv, RefsInv, [Next]_vars PROVE FedInv'
  OBVIOUS
<1>0. /\ CountType /\ notes \in Nat /\ queue \in Seq(Message) /\ wire \in Seq(Message) /\ RefsType
      /\ <<>> \in Seq(Message) /\ (~addr => peer = "none")
  BY DEF CountInv, CountType, FedInv, RefsInv
<1>3. Trusted /\ ~owner /\ owners # {} => \E j \in Nat : DropsAll(j)
  BY DEF RefsInv, AwayDropped
<1>4. owners = {} => ~wired
  BY DEF CountInv
<1>1. CASE UNCHANGED vars
  <2>1. DropsAll(0)' = DropsAll(0) /\ \A j \in Nat : DropsAll(j) => DropsAll(j)'
    BY <1>1 DEF DropsAll, vars, local
  <2> QED
    BY <1>0, <1>1, <2>1, FedStays DEF vars, local, refs, peers, remote, counts
<1>2. CASE Next
  <2>0. doubt \subseteq doubt'
    BY <1>2, DoubtStays
  <2>16. ASSUME tasks' = tasks \/ \E op \in {"sub", "unsub", "all"}, who \in SUBSET Sessions : Spawn(op, who),
               NEW j \in Nat, DropsAll(j)
        PROVE  \E k \in Nat : DropsAll(k)'
    <3>1. CASE tasks' = tasks
      BY <2>16, <3>1 DEF DropsAll
    <3>2. ASSUME NEW op \in {"sub", "unsub", "all"}, NEW who \in SUBSET Sessions, Spawn(op, who)
          PROVE  DropsAll(j)'
      BY <1>0, <2>16, <3>2, SpawnedKeeps
    <3> QED
      BY <2>16, <3>1, <3>2
  <2>1. ASSUME NEW s \in Sessions, notify_play_subscription(s) \/ notify_play_unsubscribe(s) PROVE FedInv'
    <3>1. tasks' = tasks \/ \E op \in {"sub", "unsub", "all"}, who \in SUBSET Sessions : Spawn(op, who)
      BY <2>1 DEF notify_play_subscription, notify_play_unsubscribe
    <3>2. UNCHANGED <<owner, addr, owners, wired, gen, retries, peer, conn, queue, notes, wire, inbox, tally, life>>
      BY <2>1 DEF notify_play_subscription, notify_play_unsubscribe, refs, peers, remote
    <3> QED
      BY <1>0, <2>0, <2>16, <3>1, <3>2, FedStays
  <2>2. CASE OwnerMoves
    <3>1. tasks' = tasks \/ \E op \in {"sub", "unsub", "all"}, who \in SUBSET Sessions : Spawn(op, who)
      BY <2>2 DEF OwnerMoves, Playing
    <3>2. /\ UNCHANGED <<addr, owners, wired, gen, retries, peer, conn, queue, notes, wire, inbox, tally, life>>
          /\ owner' = ~owner
      BY <2>2 DEF OwnerMoves, refs, peers, remote
    <3> QED
      BY <1>0, <1>3, <2>0, <2>16, <3>1, <3>2, FedStays
  <2>3. ASSUME NEW i \in DOMAIN tasks, NEW s \in Sessions, subscribe_remote(i, s) PROVE FedInv'
    BY <2>3, SubscribeFeeds
  <2>4. ASSUME NEW i \in DOMAIN tasks, NEW s \in Sessions, unsubscribe_remote(i, s) PROVE FedInv'
    <3>1. UNCHANGED <<owner, addr, retries, peer, conn, notes, wire, inbox, tally>> /\ Take(i) /\ tasks[i].op = "unsub"
      BY <2>4 DEF unsubscribe_remote, remote
    <3>2. CASE owners = {s}
      <4>1. finish_unsubscribe
        BY <2>4, <3>2 DEF unsubscribe_remote
      <4> QED
        BY <1>0, <3>1, <4>1, FedEmpty DEF finish_unsubscribe
    <3>3. CASE owners # {s}
      <4>1. UNCHANGED <<gen, wired, life, queue>> /\ owners' = owners \ {s}
        BY <2>4, <3>3 DEF unsubscribe_remote
      <4>2. \A j \in Nat : DropsAll(j) => \E k \in Nat : DropsAll(k)'
        BY <1>0, <3>1, AllStays
      <4> QED
        BY <1>0, <2>0, <3>1, <4>1, <4>2, FedStays
    <3> QED
      BY <3>2, <3>3
  <2>5. ASSUME NEW i \in DOMAIN tasks, unsubscribe_remote_all(i) PROVE FedInv'
    <3>1. UNCHANGED <<addr, peer, notes>> /\ ~wired' /\ owners' = {}
      BY <1>4, <2>5 DEF unsubscribe_remote_all, finish_unsubscribe
    <3> QED
      BY <1>0, <3>1, FedEmpty
  <2>6. CASE connect_peer
    <3>1. /\ UNCHANGED <<owner, owners, wire, life, notes>> /\ addr' = TRUE /\ peer' # "none"
          /\ Apply(Replayed(owners, <<>>))
      BY <2>6 DEF connect_peer, FreshPeer, remote
    <3> QED
      BY <1>0, <2>0, <3>1, FedReplay
  <2>7. CASE ReplacePeer
    <3>1. /\ UNCHANGED <<owner, addr, owners, life, notes>> /\ wire' = <<>> /\ peer' # "none" /\ peer # "none"
          /\ Apply(Replayed(owners, <<>>))
      BY <2>7 DEF ReplacePeer, local
    <3> QED
      BY <1>0, <2>0, <3>1, FedReplay
  <2>8. CASE disconnect_peer
    <3>1. UNCHANGED notes /\ ~wired' /\ owners' = {} /\ peer' = "none"
      BY <2>8 DEF disconnect_peer
    <3> QED
      BY <1>0, <3>1, FedEmpty
  <2>9. CASE resubscribe_peer
    <3>1. UNCHANGED <<owner, addr, owners, peer, life, wire>> /\ notes > 0 /\ notes' = notes - 1
      BY <2>9 DEF resubscribe_peer, local, remote
    <3>2. notes' \in Nat
      BY <1>0, <3>1
    <3>3. CASE peer = "none"
      <4>1. ~wired' /\ peer' = "none"
        BY <2>9, <3>1, <3>3 DEF resubscribe_peer, FedInv
      <4>2. WiredFed' /\ DarkRetried'
        BY <4>1 DEF WiredFed, DarkRetried
      <4> QED
        BY <3>2, <4>1, <4>2 DEF FedInv
    <3>4. CASE peer # "none"
      <4>1. Apply(Replayed(owners, queue))
        BY <2>9, <3>4 DEF resubscribe_peer
      <4> QED
        BY <1>0, <2>0, <3>1, <3>2, <3>4, <4>1, FedReplay
    <3> QED
      BY <3>3, <3>4
  <2>10. CASE PruneGens
    <3>1. UNCHANGED <<addr, peer, notes, wired, owners>> /\ owners = {}
      BY <2>10 DEF PruneGens, local, peers
    <3> QED
      BY <1>0, <1>4, <3>1, FedEmpty
  <2>11. CASE Connected \/ TearDown
    <3>1. /\ UNCHANGED <<tasks, owner, addr, owners, wired, gen, retries, conn, queue, notes, wire, inbox, tally, life>>
          /\ (peer' = peer \/ (peer # "none" /\ peer' # "none"))
      BY <2>11 DEF Connected, TearDown, local, refs, peers, remote
    <3> QED
      BY <1>0, <2>0, <2>16, <3>1, FedStays
  <2>12. ASSUME NEW r \in retries, RetryChecks(r) \/ RetrySends(r) PROVE FedInv'
    BY <2>12, RetryFeeds
  <2>13. CASE FrameArrives \/ FencedError \/ TransientError \/ DeniedError
    BY <2>13, AnswerFeeds
  <2>14. CASE WriteMessage \/ SubscribeAllowed \/ (\E c \in Codes : SubscribeRefused(c)) \/ UnsubscribeRead \/ FanOut
    BY <2>14, WireFeeds
  <2>15. CASE ConnectionLost
    <3>1. UNCHANGED addr /\ notes' = notes + 1 /\ peer = "up" /\ peer' # "none"
      BY <2>15 DEF ConnectionLost, local
    <3>2. notes' \in Nat /\ notes' > 0
      BY <1>0, <3>1
    <3>3. WiredFed' /\ DarkRetried'
      BY <3>2 DEF WiredFed, DarkRetried
    <3> QED
      BY <1>0, <3>1, <3>2, <3>3 DEF FedInv
  <2> QED
    BY <1>2, <2>1, <2>2, <2>3, <2>4, <2>5, <2>6, <2>7, <2>8, <2>9, <2>10, <2>11, <2>12, <2>13,
       <2>14, <2>15 DEF Next
<1> QED
  BY <1>1, <1>2

\* RefsInv of the whole run.
LEMMA RefsAlways == PlaneSpec => []RefsInv
<1>1. PlaneInit => RefsInv
  BY RefsInit DEF PlaneInit
<1>2. RefsInv /\ [PlaneNext]_PlaneVars => RefsInv'
  BY RefsStep DEF PlaneNext, SubscribeStep, OutputsStep, PlaneVars
<1> QED
  BY <1>1, <1>2, PTL DEF PlaneSpec

\* Once the tasks have run, nobody who is gone keeps a stream subscribed: not
\* a player that left while its subscribe was waiting, and not the standby after
\* the ownership came here (manager.rs notify_play_unsubscribe, hub.rs
\* unsubscribe_remote_all).
THEOREM NoLeakedRefAlways == PlaneSpec => []NoLeakedRef
  BY RefsAlways, RefsGive, PTL

\* When every message, task and retry has been handled, the owner counts this
\* node exactly if a session wants the stream, unless the retries were used up:
\* no subscription is left without a viewer and no viewer in the dark (hub.rs
\* subscribe_remote, resubscribe_peer, run_subscribe_retry).
THEOREM FedWhenWantedAlways == PlaneSpec => []FedWhenWanted
<1>1. PlaneInit => FedInv
  BY FedInit DEF PlaneInit
<1>2. FedInv /\ CountInv /\ RefsInv /\ [PlaneNext]_PlaneVars => FedInv'
  BY FedStep DEF PlaneNext, SubscribeStep, OutputsStep, PlaneVars
<1>3. CountInv /\ FedInv => FedWhenWanted
  <2> SUFFICES ASSUME CountInv, FedInv, Trusted, Quiet
               PROVE  /\ owners = {} => tally = 0
                      /\ owners # {} /\ owner => tally >= 1 \/ "gave up" \in doubt
    BY DEF FedWhenWanted
  <2>1. wire \o queue = <<>> /\ inbox = <<>> /\ notes = 0 /\ tally \in Nat /\ tasks = <<>> /\ retries = {} /\ peer = "up"
    BY DEF Quiet, CountInv, CountType
  <2>2. owners = {} => tally = 0
    <3>1. owners = {} => ~Asked(wire \o queue, tally)
      BY DEF CountInv, TrustedCounts, Counts, Unasked
    <3> QED
      BY <2>1, <3>1 DEF Asked
  <2>3. wired => tally > 0
    <3>1. wired => Fed(<<>>, tally, inbox, conn, life)
      BY <2>1 DEF FedInv, WiredFed
    <3> QED
      BY <2>1, <3>1 DEF Fed
  <2>4. ~wired /\ owners # {} /\ owner => "gave up" \in doubt
    <3>1. ~Retried /\ \A j \in Nat : ~DropsAll(j)
      BY <2>1 DEF Retried, DropsAll
    <3>2. ~(notes > 0) /\ peer # "none"
      BY <2>1
    <3> QED
      BY <3>1, <3>2 DEF FedInv, DarkRetried
  <2>5. wired => tally >= 1
    BY <2>1, <2>3
  <2> QED
    BY <2>2, <2>4, <2>5
<1> QED
  BY <1>1, <1>2, <1>3, CountAlways, RefsAlways, PTL DEF PlaneSpec

-----------------------------------------------------------------------------
(* The outputs of a publisher.                                             *)

\* The numbers of the sessions.
Ids == Outputs!SessionIds
\* The places of the outputs of a session.
OutputIds == DOMAIN Sinks
\* In the hands of a thread that stops the session.
Torn == {"reaping", "aborting", "stopping"}
\* Who can hold a session.
Places == {"unused", "live", "retired", "overflow", "dropped", "gone"} \cup Torn

\* A record of the manager's state.
Managed(m) ==
    /\ {"live", "sess", "sink", "retired", "overflow", "started"} \subseteq DOMAIN m
    /\ DOMAIN m.live = Conns /\ DOMAIN m.sess = Ids /\ DOMAIN m.sink = Ids

\* A session: step 1 until somebody stops it, past the last output when it is
\* gone, and publish_done only then and only when every output was complete.
SessTyped(e) ==
    /\ {"at", "conn", "stream", "generation", "last", "fresh", "merged", "step", "complete", "done"}
           \subseteq DOMAIN e
    /\ e.at \in Places /\ e.step \in 1 .. Len(Sinks) + 1
    /\ e.at \in {"unused", "live", "retired", "overflow", "dropped"} => e.step = 1
    /\ e.at = "gone" => e.step = Len(Sinks) + 1
    /\ e.at = "unused" => e.stream = "none"
    /\ e.at # "unused" => e.stream \in Streams /\ e.conn \in Conns
    /\ e.done = "sent" => e.at = "gone" /\ e.complete

\* A tag for an output.
Tag == [stream : Streams, generation : Nat]

\* An output, its queue bounded.
SinkTyped(o) ==
    /\ {"open", "failed", "queue", "worker", "child", "dir", "lost"} \subseteq DOMAIN o
    /\ o.queue \in Seq(Tag) /\ Len(o.queue) <= SinkQueueMax
    /\ o.worker \in {"born", "idle", "writing", "done"}

\* An output k that suits its session e: a tag is lost only with the output, a
\* worker that ended well has reaped its child, one that stop has passed by ended or
\* is marked as failed, and what is queued belongs to the publish of the session.
SinkFine(e, o, k) ==
    /\ SinkTyped(o)
    /\ o.lost => o.failed
    /\ o.worker = "done" /\ ~o.failed => o.child # "run"
    /\ e.at = "dropped" => o.failed
    /\ e.at \in Torn \cup {"gone"} /\ k < e.step =>
           (o.worker = "done" \/ o.failed) /\ (e.complete => o.worker = "done")
    /\ \A n \in DOMAIN o.queue : /\ o.queue[n].stream = e.stream
                                 /\ o.queue[n].generation = e.generation \/ e.merged

\* A session and its outputs.
SessFine(e, os) ==
    SessTyped(e) /\ DOMAIN os = OutputIds /\ \A k \in OutputIds : SinkFine(e, os[k], k)

\* Only what a teardown asks of the record changes.
Leaves(e, f, place) ==
    /\ SessTyped(f) /\ f.at = place /\ f.conn = e.conn /\ f.stream = e.stream /\ f.generation = e.generation
    /\ f.merged = e.merged /\ f.step = e.step /\ f.complete = e.complete

\* An output stays fine when its session leaves the hands it was in.
LEMMA SinkLeaves ==
    ASSUME NEW e, NEW f, NEW place \in {"retired", "overflow", "reaping", "aborting", "stopping", "dropped"},
           SessTyped(e), e.step = 1, Leaves(e, f, place), NEW k \in OutputIds, NEW o, SinkFine(e, o, k),
           NEW p, SinkTyped(p), p.worker = o.worker, p.child = o.child, p.lost = o.lost, p.queue = o.queue,
           o.failed => p.failed, place = "dropped" => p.failed
    PROVE  SinkFine(f, p, k)
<1>0. k \in Nat /\ k >= 1
  BY OutputsAssumption DEF OutputIds
<1>1. ~(k < f.step)
  BY <1>0 DEF Leaves
<1>2. \A n \in DOMAIN p.queue : p.queue[n].stream = f.stream /\ (p.queue[n].generation = f.generation \/ f.merged)
  BY DEF Leaves, SinkFine
<1>3. (p.lost => p.failed) /\ (p.worker = "done" /\ ~p.failed => p.child # "run")
  BY DEF SinkFine
<1>4. f.at = "dropped" => p.failed
  BY DEF Leaves
<1> QED
  BY <1>1, <1>2, <1>3, <1>4 DEF SinkFine

\* SinkSender::disable leaves the queue and the worker.
LEMMA DisabledFine ==
    ASSUME NEW o, SinkTyped(o)
    PROVE  LET p == Outputs!Disabled(o) IN
           /\ SinkTyped(p) /\ p.failed /\ p.worker = o.worker /\ p.child = o.child /\ p.lost = o.lost
           /\ p.queue = o.queue /\ p.dir = o.dir
<1> DEFINE p == Outputs!Disabled(o)
<1>1. /\ {"open", "failed", "queue", "worker", "child", "dir", "lost"} \subseteq DOMAIN p /\ p.failed
      /\ p.worker = o.worker /\ p.child = o.child /\ p.lost = o.lost /\ p.queue = o.queue /\ p.dir = o.dir
  BY DEF Outputs!Disabled, SinkTyped
<1> QED
  BY <1>1 DEF SinkTyped

\* A session that is retired keeps its outputs.
LEMMA SessLeaves ==
    ASSUME NEW e, SessTyped(e), e.at = "live",
           NEW place \in {"retired", "overflow", "dropped"}, NEW f,
           f = IF place = "dropped"
               THEN [[e EXCEPT !.fresh = {}, !.last = <<>>] EXCEPT !.at = "dropped", !.done = "suppressed"]
               ELSE [[e EXCEPT !.fresh = {}, !.last = <<>>] EXCEPT !.at = place]
    PROVE  Leaves(e, f, place)
<1>1. /\ {"at", "conn", "stream", "generation", "last", "fresh", "merged", "step", "complete", "done"}
             \subseteq DOMAIN f
      /\ f.at = place /\ f.conn = e.conn /\ f.stream = e.stream /\ f.generation = e.generation
      /\ f.merged = e.merged /\ f.step = e.step /\ f.complete = e.complete
      /\ f.done = e.done \/ f.done = "suppressed"
  BY DEF SessTyped
<1> QED
  BY <1>1 DEF Leaves, SessTyped, Places

\* retire, retire_overflow and drop_incomplete: the session goes to one of
\* three places, and the others stay as they are.
LEMMA RetireDoes ==
    ASSUME NEW m, Managed(m), NEW i \in Ids, m.sess[i].at = "live", SessFine(m.sess[i], m.sink[i])
    PROVE  LET r == Outputs!retire(m, i) IN
           /\ Managed(r) /\ r.started = m.started
           /\ r.live = [m.live EXCEPT ![m.sess[i].conn] = 0]
           /\ \A j \in Ids : j # i => r.sess[j] = m.sess[j] /\ r.sink[j] = m.sink[j]
           /\ SessFine(r.sess[i], r.sink[i])
           /\ \/ /\ Leaves(m.sess[i], r.sess[i], "retired") /\ r.overflow = m.overflow
                 /\ Len(m.retired) < RetireMax /\ r.retired = Append(m.retired, i)
              \/ /\ Leaves(m.sess[i], r.sess[i], "overflow") /\ r.retired = m.retired
                 /\ Len(m.overflow) < OverflowMax /\ r.overflow = Append(m.overflow, i)
              \/ /\ Leaves(m.sess[i], r.sess[i], "dropped")
                 /\ r.retired = m.retired /\ r.overflow = m.overflow
<1> DEFINE out == [m EXCEPT !.live[m.sess[i].conn] = 0, !.sess[i].fresh = {}, !.sess[i].last = <<>>]
<1>1. /\ Managed(out) /\ out.started = m.started /\ out.retired = m.retired /\ out.overflow = m.overflow
      /\ out.live = [m.live EXCEPT ![m.sess[i].conn] = 0]
  BY DEF Managed
<1>2. out.sink = m.sink /\ out.sess = [m.sess EXCEPT ![i].fresh = {}, ![i].last = <<>>]
  BY DEF Managed
<1> HIDE DEF out
<1> DEFINE e == m.sess[i]
           r == Outputs!retire(m, i)
<1>3. e.step = 1 /\ SessTyped(e) /\ e.at = "live" /\ DOMAIN m.sink[i] = OutputIds
      /\ \A k \in OutputIds : SinkFine(e, m.sink[i][k], k)
  BY DEF SessFine, SessTyped
<1>4. CASE Len(m.retired) < RetireMax
  <2>1. r = [out EXCEPT !.retired = Append(@, i), !.sess[i].at = "retired"]
    BY <1>4 DEF Outputs!retire, out
  <2>2. /\ Managed(r) /\ r.started = m.started /\ r.live = out.live /\ r.sink = m.sink
        /\ r.overflow = m.overflow /\ r.retired = Append(m.retired, i)
        /\ r.sess = [out.sess EXCEPT ![i].at = "retired"]
    BY <1>1, <1>2, <2>1 DEF Managed
  <2>3. /\ \A j \in Ids : j # i => r.sess[j] = m.sess[j] /\ r.sink[j] = m.sink[j]
        /\ r.sess[i] = [[e EXCEPT !.fresh = {}, !.last = <<>>] EXCEPT !.at = "retired"]
    BY <1>2, <2>2 DEF Managed
  <2>4. Leaves(e, r.sess[i], "retired")
    BY <1>3, <2>3, SessLeaves
  <2>5. SessFine(r.sess[i], r.sink[i])
    <3>1. \A k \in OutputIds : SinkFine(r.sess[i], m.sink[i][k], k)
      BY <1>3, <2>4, SinkLeaves DEF SinkFine
    <3> QED
      BY <1>3, <2>2, <2>4, <3>1 DEF SessFine, Leaves
  <2> QED
    BY <1>1, <1>4, <2>2, <2>3, <2>4, <2>5
<1>5. CASE ~(Len(m.retired) < RetireMax) /\ Len(m.overflow) < OverflowMax
  <2>1. r = [out EXCEPT !.overflow = Append(@, i), !.sess[i].at = "overflow"]
    BY <1>1, <1>5 DEF Outputs!retire, Outputs!retire_overflow, out
  <2>2. /\ Managed(r) /\ r.started = m.started /\ r.live = out.live /\ r.sink = m.sink
        /\ r.retired = m.retired /\ r.overflow = Append(m.overflow, i)
        /\ r.sess = [out.sess EXCEPT ![i].at = "overflow"]
    BY <1>1, <1>2, <2>1 DEF Managed
  <2>3. /\ \A j \in Ids : j # i => r.sess[j] = m.sess[j] /\ r.sink[j] = m.sink[j]
        /\ r.sess[i] = [[e EXCEPT !.fresh = {}, !.last = <<>>] EXCEPT !.at = "overflow"]
    BY <1>2, <2>2 DEF Managed
  <2>4. Leaves(e, r.sess[i], "overflow")
    BY <1>3, <2>3, SessLeaves
  <2>5. SessFine(r.sess[i], r.sink[i])
    <3>1. \A k \in OutputIds : SinkFine(r.sess[i], m.sink[i][k], k)
      BY <1>3, <2>4, SinkLeaves DEF SinkFine
    <3> QED
      BY <1>3, <2>2, <2>4, <3>1 DEF SessFine, Leaves
  <2> QED
    BY <1>1, <1>5, <2>2, <2>3, <2>4, <2>5
<1>6. CASE ~(Len(m.retired) < RetireMax) /\ ~(Len(m.overflow) < OverflowMax)
  <2>1. r = [out EXCEPT !.sess[i] = [@ EXCEPT !.at = "dropped", !.done = "suppressed"],
                        !.sink[i] = [k \in OutputIds |-> Outputs!Disabled(@[k])]]
    BY <1>1, <1>6 DEF Outputs!retire, Outputs!retire_overflow, Outputs!drop_incomplete, out, Outputs!Outputs, OutputIds
  <2>2. /\ Managed(r) /\ r.started = m.started /\ r.live = out.live
        /\ r.retired = m.retired /\ r.overflow = m.overflow
        /\ r.sess = [out.sess EXCEPT ![i] = [@ EXCEPT !.at = "dropped", !.done = "suppressed"]]
        /\ r.sink = [m.sink EXCEPT ![i] = [k \in OutputIds |-> Outputs!Disabled(@[k])]]
    BY <1>1, <1>2, <2>1 DEF Managed
  <2>3. /\ \A j \in Ids : j # i => r.sess[j] = m.sess[j] /\ r.sink[j] = m.sink[j]
        /\ r.sess[i] = [[e EXCEPT !.fresh = {}, !.last = <<>>] EXCEPT !.at = "dropped", !.done = "suppressed"]
        /\ r.sink[i] = [k \in OutputIds |-> Outputs!Disabled(m.sink[i][k])]
    BY <1>2, <2>2 DEF Managed
  <2>4. Leaves(e, r.sess[i], "dropped")
    BY <1>3, <2>3, SessLeaves
  <2>5. SessFine(r.sess[i], r.sink[i])
    <3>1. ASSUME NEW k \in OutputIds PROVE SinkFine(r.sess[i], Outputs!Disabled(m.sink[i][k]), k)
      BY <1>3, <2>4, SinkLeaves, DisabledFine DEF SinkFine
    <3> QED
      BY <1>3, <2>3, <2>4, <3>1 DEF SessFine, Leaves
  <2> QED
    BY <1>1, <1>6, <2>2, <2>3, <2>4, <2>5
<1> QED
  BY <1>4, <1>5, <1>6

-----------------------------------------------------------------------------
\* A queue holds exactly the sessions of its place, once each.
Waits(q, place, max, ss) ==
    /\ q \in Seq(Ids) /\ Len(q) <= max
    /\ \A n \in 1 .. Len(q) : ss[q[n]].at = place
    /\ \A n, p \in 1 .. Len(q) : q[n] = q[p] => n = p
    /\ \A i \in Ids : ss[i].at = place => \E n \in 1 .. Len(q) : q[n] = i

\* The sessions are numbered in the order they start.
Numbered(ss, st) ==
    st \in Nat /\ st <= MaxSessions /\ \A i \in Ids : i > st <=> ss[i].at = "unused"

\* A live session is the one its connection knows, and the newest of it.
OneLive(lv, ss, st) ==
    /\ \A c \in Conns : lv[c] # 0 => lv[c] \in Ids /\ ss[lv[c]].at = "live" /\ ss[lv[c]].conn = c
    /\ \A i \in Ids : ss[i].at = "live" => lv[ss[i].conn] = i
    /\ \A c \in Conns : \A i \in Ids : lv[c] # 0 /\ i > lv[c] /\ i <= st => ss[i].conn # c

\* Each of the three threads stops one session at a time.
OneTorn(ss) == \A i, j \in Ids : ss[i].at \in Torn /\ ss[j].at = ss[i].at => j = i

\* Another connection has started a session of the same stream since.
Newer(ss, i) == \E j \in Ids : j > i /\ ss[j].stream = ss[i].stream /\ ss[j].conn # ss[i].conn
\* The directory of a live session is removed only then.
DirsKept(ss, sk) ==
    \A i \in Ids : \A k \in OutputIds : ss[i].at = "live" /\ sk[i][k].dir = "removed" => Newer(ss, i)

\* What the invariant says of the manager's record.
Good(m) ==
    /\ Managed(m) /\ \A i \in Ids : SessFine(m.sess[i], m.sink[i])
    /\ Numbered(m.sess, m.started) /\ OneLive(m.live, m.sess, m.started) /\ OneTorn(m.sess)
    /\ Waits(m.retired, "retired", RetireMax, m.sess)
    /\ Waits(m.overflow, "overflow", OverflowMax, m.sess)
    /\ DirsKept(m.sess, m.sink)

\* A session joins a queue.
LEMMA WaitsMore ==
    ASSUME NEW q, NEW place, NEW max \in Nat, NEW ss, Waits(q, place, max, ss), Len(q) < max, NEW i \in Ids,
           ss[i].at # place, NEW tt, tt[i].at = place, \A j \in Ids : j # i => tt[j].at = ss[j].at
    PROVE  Waits(Append(q, i), place, max, tt)
<1> DEFINE r == Append(q, i)
<1>0. q \in Seq(Ids) /\ \A n \in 1 .. Len(q) : q[n] \in Ids
  BY DEF Waits
<1>1. /\ r \in Seq(Ids) /\ Len(q) \in Nat /\ Len(r) = Len(q) + 1 /\ r[Len(q) + 1] = i
      /\ \A n \in 1 .. Len(q) : r[n] = q[n]
  BY <1>0
<1> HIDE DEF r
<1>2. \A n \in 1 .. Len(r) : n \in 1 .. Len(q) \/ n = Len(q) + 1
  BY <1>1
<1>3. \A n \in 1 .. Len(q) : q[n] # i
  BY DEF Waits
<1>4. \A n \in 1 .. Len(r) : tt[r[n]].at = place
  BY <1>0, <1>1, <1>2, <1>3 DEF Waits
<1>5. \A n, p \in 1 .. Len(r) : r[n] = r[p] => n = p
  <2> TAKE n, p \in 1 .. Len(r)
  <2>1. CASE n \in 1 .. Len(q) /\ p \in 1 .. Len(q)
    BY <1>1, <2>1 DEF Waits
  <2>2. CASE n = Len(q) + 1 \/ p = Len(q) + 1
    BY <1>1, <1>2, <1>3, <2>2
  <2> QED
    BY <1>2, <2>1, <2>2
<1>6. \A j \in Ids : tt[j].at = place => \E n \in 1 .. Len(r) : r[n] = j
  <2> TAKE j \in Ids
  <2>1. CASE j = i
    BY <1>1, <2>1
  <2>2. ASSUME j # i, tt[j].at = place PROVE \E n \in 1 .. Len(r) : r[n] = j
    <3>1. PICK n \in 1 .. Len(q) : q[n] = j
      BY <2>2 DEF Waits
    <3> QED
      BY <1>1, <3>1
  <2> QED
    BY <2>1, <2>2
<1>7. Len(r) <= max
  BY <1>1 DEF Waits
<1> QED
  BY <1>1, <1>4, <1>5, <1>6, <1>7 DEF Waits, r

\* A queue nobody joins or leaves.
LEMMA WaitsSame ==
    ASSUME NEW q, NEW place, NEW max, NEW ss, Waits(q, place, max, ss), NEW tt,
           \A j \in Ids : ss[j].at = place <=> tt[j].at = place
    PROVE  Waits(q, place, max, tt)
<1>1. \A n \in 1 .. Len(q) : q[n] \in Ids
  BY DEF Waits
<1> QED
  BY <1>1 DEF Waits

\* The first one leaves a queue.
LEMMA WaitsLess ==
    ASSUME NEW q, NEW place, NEW max \in Nat, NEW ss, Waits(q, place, max, ss), q # <<>>, NEW tt,
           tt[Head(q)].at # place, \A j \in Ids : j # Head(q) => tt[j].at = ss[j].at
    PROVE  Waits(Tail(q), place, max, tt) /\ Head(q) \in Ids /\ ss[Head(q)].at = place
<1> DEFINE r == Tail(q)
<1>1. /\ r \in Seq(Ids) /\ Len(q) \in Nat /\ Len(q) > 0 /\ Len(r) = Len(q) - 1 /\ Head(q) = q[1]
      /\ \A n \in 1 .. Len(r) : r[n] = q[n + 1]
  BY HeadTailProperties DEF Waits
<1> HIDE DEF r
<1>2. \A n \in 1 .. Len(q) : q[n] \in Ids
  BY DEF Waits
<1>3. \A n \in 1 .. Len(r) : n + 1 \in 1 .. Len(q) /\ n + 1 # 1 /\ n \in Nat
  BY <1>1
<1>4. \A n \in 1 .. Len(r) : r[n] # Head(q) /\ r[n] \in Ids /\ ss[r[n]].at = place
  <2> TAKE n \in 1 .. Len(r)
  <2>1. 1 \in 1 .. Len(q) /\ n + 1 \in 1 .. Len(q) /\ n + 1 # 1
    BY <1>1, <1>3
  <2> QED
    BY <1>1, <1>2, <2>1 DEF Waits
<1>5. \A n, p \in 1 .. Len(r) : r[n] = r[p] => n = p
  <2> TAKE n, p \in 1 .. Len(r)
  <2>1. r[n] = r[p] => n + 1 = p + 1
    BY <1>1, <1>3 DEF Waits
  <2> QED
    BY <1>3, <2>1
<1>6. ASSUME NEW j \in Ids, tt[j].at = place PROVE \E n \in 1 .. Len(r) : r[n] = j
  <2>1. j # Head(q)
    BY <1>6
  <2>2. PICK n \in 1 .. Len(q) : q[n] = j
    BY <1>6, <2>1 DEF Waits
  <2>3. n - 1 \in 1 .. Len(r) /\ (n - 1) + 1 = n
    BY <1>1, <2>1, <2>2
  <2>4. r[n - 1] = j
    BY <1>1, <2>2, <2>3
  <2> QED
    BY <2>3, <2>4
<1>7. Len(r) <= max
  BY <1>1 DEF Waits
<1>8. Head(q) \in Ids /\ ss[Head(q)].at = place
  BY <1>1, <1>2 DEF Waits
<1> QED
  BY <1>1, <1>4, <1>5, <1>6, <1>7, <1>8 DEF Waits, r

\* retire keeps the record good.
LEMMA RetireGood ==
    ASSUME NEW m, Good(m), NEW c \in Conns, m.live[c] # 0
    PROVE  LET r == Outputs!retire(m, m.live[c]) IN
           /\ Good(r) /\ r.started = m.started /\ r.live = [m.live EXCEPT ![c] = 0]
           /\ \A j \in Ids : j # m.live[c] => r.sess[j] = m.sess[j]
<1> DEFINE i == m.live[c]
           r == Outputs!retire(m, i)
<1>0. i \in Ids /\ m.sess[i].at = "live" /\ m.sess[i].conn = c /\ Managed(m) /\ SessFine(m.sess[i], m.sink[i])
  BY DEF Good, OneLive
<1> HIDE DEF i
<1>9. /\ Managed(r) /\ r.started = m.started
      /\ r.live = [m.live EXCEPT ![m.sess[i].conn] = 0]
      /\ \A j \in Ids : j # i => r.sess[j] = m.sess[j] /\ r.sink[j] = m.sink[j]
      /\ SessFine(r.sess[i], r.sink[i])
      /\ \/ /\ Leaves(m.sess[i], r.sess[i], "retired") /\ r.overflow = m.overflow
            /\ Len(m.retired) < RetireMax /\ r.retired = Append(m.retired, i)
         \/ /\ Leaves(m.sess[i], r.sess[i], "overflow") /\ r.retired = m.retired
            /\ Len(m.overflow) < OverflowMax /\ r.overflow = Append(m.overflow, i)
         \/ /\ Leaves(m.sess[i], r.sess[i], "dropped")
            /\ r.retired = m.retired /\ r.overflow = m.overflow
  BY <1>0, RetireDoes
<1> HIDE DEF r
<1>1. /\ Managed(r) /\ r.started = m.started
      /\ r.live = [m.live EXCEPT ![c] = 0]
      /\ \A j \in Ids : j # i => r.sess[j] = m.sess[j] /\ r.sink[j] = m.sink[j]
      /\ SessFine(r.sess[i], r.sink[i])
      /\ \/ /\ Leaves(m.sess[i], r.sess[i], "retired") /\ r.overflow = m.overflow
            /\ Len(m.retired) < RetireMax /\ r.retired = Append(m.retired, i)
         \/ /\ Leaves(m.sess[i], r.sess[i], "overflow") /\ r.retired = m.retired
            /\ Len(m.overflow) < OverflowMax /\ r.overflow = Append(m.overflow, i)
         \/ /\ Leaves(m.sess[i], r.sess[i], "dropped")
            /\ r.retired = m.retired /\ r.overflow = m.overflow
  BY <1>0, <1>9
<1>2. /\ r.sess[i].at \in {"retired", "overflow", "dropped"} /\ r.sess[i].conn = c
      /\ r.sess[i].stream = m.sess[i].stream
  BY <1>0, <1>1 DEF Leaves
<1>3. \A j \in Ids : SessFine(r.sess[j], r.sink[j])
  BY <1>1 DEF Good
<1>4. Numbered(r.sess, r.started)
  BY <1>0, <1>1, <1>2 DEF Good, Numbered
<1>5. OneLive(r.live, r.sess, r.started)
  <2>1. \A d \in Conns : r.live[d] = IF d = c THEN 0 ELSE m.live[d]
    BY <1>1 DEF Managed
  <2>2. \A d \in Conns : d # c /\ m.live[d] # 0 => m.live[d] # i
    BY <1>0 DEF Good, OneLive
  <2>3. ASSUME NEW d \in Conns, r.live[d] # 0
        PROVE  r.live[d] \in Ids /\ r.sess[r.live[d]].at = "live" /\ r.sess[r.live[d]].conn = d
    BY <1>1, <2>1, <2>2, <2>3 DEF Good, OneLive
  <2>4. ASSUME NEW j \in Ids, r.sess[j].at = "live" PROVE r.live[r.sess[j].conn] = j
    <3>1. j # i /\ r.sess[j] = m.sess[j]
      BY <1>1, <1>2, <2>4
    <3>2. m.live[m.sess[j].conn] = j /\ m.sess[j].conn \in Conns
      BY <2>4, <3>1 DEF Good, OneLive, SessFine, SessTyped
    <3> QED
      BY <2>1, <3>1, <3>2 DEF i
  <2>5. ASSUME NEW d \in Conns, NEW j \in Ids, r.live[d] # 0, j > r.live[d], j <= r.started
        PROVE  r.sess[j].conn # d
    <3>1. d # c /\ r.live[d] = m.live[d]
      BY <2>1, <2>5
    <3>2. m.sess[j].conn # d
      BY <1>1, <2>5, <3>1 DEF Good, OneLive
    <3>3. r.sess[j].conn = m.sess[j].conn
      BY <1>0, <1>1, <1>2
    <3> QED
      BY <3>2, <3>3
  <2> QED
    BY <2>3, <2>4, <2>5 DEF OneLive
<1>6. OneTorn(r.sess)
  BY <1>0, <1>1, <1>2 DEF Good, OneTorn, Torn
<1>7. Waits(r.retired, "retired", RetireMax, r.sess) /\ Waits(r.overflow, "overflow", OverflowMax, r.sess)
  <2>0. RetireMax \in Nat /\ OverflowMax \in Nat
    BY OutputsAssumption
  <2>1. /\ \A j \in Ids : j # i => r.sess[j].at = m.sess[j].at
        /\ Waits(m.retired, "retired", RetireMax, m.sess) /\ Waits(m.overflow, "overflow", OverflowMax, m.sess)
    BY <1>1 DEF Good
  <2>2. CASE r.sess[i].at = "retired"
    <3>1. Len(m.retired) < RetireMax /\ r.retired = Append(m.retired, i) /\ r.overflow = m.overflow
      BY <1>1, <2>2 DEF Leaves
    <3>2. Waits(r.retired, "retired", RetireMax, r.sess)
      BY <1>0, <2>0, <2>1, <2>2, <3>1, WaitsMore
    <3>3. \A j \in Ids : m.sess[j].at = "overflow" <=> r.sess[j].at = "overflow"
      BY <1>0, <2>1, <2>2
    <3>4. Waits(r.overflow, "overflow", OverflowMax, r.sess)
      BY <2>1, <3>1, <3>3, WaitsSame
    <3> QED
      BY <3>2, <3>4
  <2>3. CASE r.sess[i].at = "overflow"
    <3>1. Len(m.overflow) < OverflowMax /\ r.overflow = Append(m.overflow, i) /\ r.retired = m.retired
      BY <1>1, <2>3 DEF Leaves
    <3>2. Waits(r.overflow, "overflow", OverflowMax, r.sess)
      BY <1>0, <2>0, <2>1, <2>3, <3>1, WaitsMore
    <3>3. \A j \in Ids : m.sess[j].at = "retired" <=> r.sess[j].at = "retired"
      BY <1>0, <2>1, <2>3
    <3>4. Waits(r.retired, "retired", RetireMax, r.sess)
      BY <2>1, <3>1, <3>3, WaitsSame
    <3> QED
      BY <3>2, <3>4
  <2>4. CASE r.sess[i].at = "dropped"
    <3>1. r.overflow = m.overflow /\ r.retired = m.retired
      BY <1>1, <2>4 DEF Leaves
    <3>2. \A j \in Ids : (m.sess[j].at = "retired" <=> r.sess[j].at = "retired")
                          /\ (m.sess[j].at = "overflow" <=> r.sess[j].at = "overflow")
      BY <1>0, <2>1, <2>4
    <3> QED
      BY <2>1, <3>1, <3>2, WaitsSame
  <2> QED
    BY <1>2, <2>2, <2>3, <2>4
<1>8. DirsKept(r.sess, r.sink)
  <2>1. ASSUME NEW j \in Ids, NEW k \in OutputIds, r.sess[j].at = "live", r.sink[j][k].dir = "removed"
        PROVE  Newer(r.sess, j)
    <3>1. j # i /\ r.sess[j] = m.sess[j] /\ r.sink[j] = m.sink[j]
      BY <1>1, <1>2, <2>1
    <3>2. Newer(m.sess, j)
      BY <2>1, <3>1 DEF Good, DirsKept
    <3>3. \A l \in Ids : r.sess[l].stream = m.sess[l].stream /\ r.sess[l].conn = m.sess[l].conn
      BY <1>0, <1>1, <1>2
    <3> QED
      BY <3>2, <3>3 DEF Newer
  <2> QED
    BY <2>1 DEF DirsKept
<1> QED
  BY <1>1, <1>3, <1>4, <1>5, <1>6, <1>7, <1>8 DEF Good, r, i

\* start_session has a number left, and this is the one it takes.
Room(m) == m.started < MaxSessions
Upcoming(m) == m.started + 1

\* start_session, when the row is found.
Begin(m, c, s, g, marks) == Outputs!start_session(m, c, s, g, TRUE, marks)

\* start_session keeps the record good; the new session is the newest.
LEMMA StartGood ==
    ASSUME NEW m, Good(m), NEW c \in Conns, m.live[c] = 0, Room(m), NEW s \in Streams, NEW g \in Nat,
           NEW marks
    PROVE  LET r == Begin(m, c, s, g, marks)
               n == Upcoming(m)
           IN  /\ Good(r) /\ r.started = n /\ n \in Ids /\ r.live = [m.live EXCEPT ![c] = n]
               /\ r.sess[n].stream = s /\ r.sess[n].generation = g /\ r.sess[n].conn = c
               /\ r.sess[n].last = <<>>
               /\ \A j \in Ids : j # n => r.sess[j] = m.sess[j]
<1> DEFINE n == Upcoming(m)
           r == Begin(m, c, s, g, marks)
           e == [Outputs!NewSession(c, s, g) EXCEPT !.fresh = marks]
<1>0. Managed(m) /\ m.started \in Nat /\ MaxSessions \in Nat /\ n \in Ids /\ n \in Nat /\ n <= MaxSessions
      /\ "none" \notin Streams /\ SinkQueueMax \in Nat /\ Len(Sinks) \in Nat
  BY OutputsAssumption DEF Good, Numbered, Ids, Outputs!SessionIds, Upcoming, Room
<1>11. m.sess[n].at = "unused" /\ m.sess[n].stream = "none"
  <2>1. n > m.started
    BY <1>0 DEF Upcoming
  <2>2. m.sess[n].at = "unused"
    BY <1>0, <2>1 DEF Good, Numbered
  <2> QED
    BY <1>0, <2>2 DEF Good, SessFine, SessTyped
<1>12. /\ {"at", "conn", "stream", "generation", "last", "fresh", "merged", "step", "complete", "done"} \subseteq DOMAIN e
      /\ e.at = "live" /\ e.conn = c /\ e.stream = s /\ e.generation = g /\ e.step = 1 /\ e.done = "no"
      /\ e.last = <<>>
  BY DEF Outputs!NewSession
<1> HIDE DEF e, n
<1>1. r = [m EXCEPT !.live[c] = n, !.started = @ + 1, !.sess[n] = e, !.sink[n] = [k \in OutputIds |-> Outputs!NewSink]]
  BY DEF Begin, Outputs!start_session, e, n, Upcoming, Outputs!Outputs, OutputIds
<1>2. /\ Managed(r) /\ r.started = n /\ r.live = [m.live EXCEPT ![c] = n] /\ r.retired = m.retired
      /\ r.overflow = m.overflow /\ r.sess = [m.sess EXCEPT ![n] = e]
      /\ r.sink = [m.sink EXCEPT ![n] = [k \in OutputIds |-> Outputs!NewSink]]
  <2>1. r.started = m.started + 1
    BY <1>0, <1>1 DEF Managed
  <2>2. /\ Managed(r) /\ r.live = [m.live EXCEPT ![c] = n] /\ r.retired = m.retired
        /\ r.overflow = m.overflow /\ r.sess = [m.sess EXCEPT ![n] = e]
        /\ r.sink = [m.sink EXCEPT ![n] = [k \in OutputIds |-> Outputs!NewSink]]
    BY <1>0, <1>1 DEF Managed
  <2> QED
    BY <2>1, <2>2 DEF n, Upcoming
<1>3. /\ \A j \in Ids : j # n => r.sess[j] = m.sess[j] /\ r.sink[j] = m.sink[j]
      /\ r.sess[n] = e /\ r.sink[n] = [k \in OutputIds |-> Outputs!NewSink]
  BY <1>0, <1>2 DEF Managed
<1> HIDE DEF r
<1>4. SessFine(e, r.sink[n])
  <2>1. SessTyped(e)
    BY <1>0, <1>12 DEF SessTyped, Places
  <2>2. SinkTyped(Outputs!NewSink) /\ ~Outputs!NewSink.lost /\ Outputs!NewSink.worker = "born" /\ Outputs!NewSink.queue = <<>>
    BY <1>0 DEF Outputs!NewSink, SinkTyped
  <2>3. \A k \in OutputIds : SinkFine(e, Outputs!NewSink, k)
    BY <1>12, <2>2 DEF SinkFine, Torn
  <2> QED
    BY <1>3, <2>1, <2>3 DEF SessFine
<1>5. \A j \in Ids : SessFine(r.sess[j], r.sink[j])
  BY <1>3, <1>4 DEF Good
<1>6. Numbered(r.sess, r.started)
  <2>1. ASSUME NEW j \in Ids PROVE j > n <=> r.sess[j].at = "unused"
    <3>0. j \in Nat
      BY DEF Ids, Outputs!SessionIds
    <3>1. CASE j = n
      BY <1>3, <1>12, <3>0, <3>1
    <3>2. CASE j # n
      <4>1. j > m.started <=> m.sess[j].at = "unused"
        BY DEF Good, Numbered
      <4>2. j > n <=> j > m.started
        BY <1>0, <3>0, <3>2 DEF n, Upcoming
      <4> QED
        BY <1>3, <3>2, <4>1, <4>2
    <3> QED
      BY <3>1, <3>2
  <2> QED
    BY <1>0, <1>2, <2>1 DEF Numbered
<1>7. OneLive(r.live, r.sess, r.started)
  <2>1. \A d \in Conns : r.live[d] = IF d = c THEN n ELSE m.live[d]
    BY <1>2 DEF Managed
  <2>2. \A d \in Conns : m.live[d] # 0 => m.live[d] # n
    BY <1>11 DEF Good, OneLive
  <2>3. ASSUME NEW d \in Conns, r.live[d] # 0
        PROVE  r.live[d] \in Ids /\ r.sess[r.live[d]].at = "live" /\ r.sess[r.live[d]].conn = d
    <3>1. CASE d = c
      BY <1>0, <1>3, <1>12, <2>1, <3>1
    <3>2. CASE d # c
      <4>1. r.live[d] = m.live[d] /\ m.live[d] # n
        BY <2>1, <2>2, <2>3, <3>2
      <4> QED
        BY <1>3, <2>3, <4>1 DEF Good, OneLive
    <3> QED
      BY <3>1, <3>2
  <2>4. ASSUME NEW j \in Ids, r.sess[j].at = "live" PROVE r.live[r.sess[j].conn] = j
    <3>1. CASE j = n
      BY <1>3, <1>12, <2>1, <3>1
    <3>2. CASE j # n
      <4>1. r.sess[j] = m.sess[j] /\ m.live[m.sess[j].conn] = j /\ m.sess[j].conn \in Conns /\ j # 0
        BY <1>3, <2>4, <3>2 DEF Good, OneLive, SessFine, SessTyped, Ids, Outputs!SessionIds
      <4> QED
        BY <2>1, <4>1
    <3> QED
      BY <3>1, <3>2
  <2>5. ASSUME NEW d \in Conns, NEW j \in Ids, r.live[d] # 0, j > r.live[d], j <= r.started
        PROVE  r.sess[j].conn # d
    <3>0. j \in Nat /\ m.started \in Nat
      BY <1>0 DEF Ids, Outputs!SessionIds
    <3>1. d # c
      BY <1>0, <1>2, <2>1, <2>5, <3>0
    <3>2. CASE j = n
      BY <1>3, <1>12, <3>1, <3>2
    <3>3. CASE j # n
      <4>1. j <= m.started
        BY <1>2, <2>5, <3>0, <3>3 DEF n, Upcoming
      <4> QED
        BY <1>3, <2>1, <2>5, <3>1, <3>3, <4>1 DEF Good, OneLive
    <3> QED
      BY <3>2, <3>3
  <2> QED
    BY <2>3, <2>4, <2>5 DEF OneLive
<1>8. OneTorn(r.sess)
  BY <1>3, <1>11, <1>12 DEF Good, OneTorn, Torn
<1>9. Waits(r.retired, "retired", RetireMax, r.sess) /\ Waits(r.overflow, "overflow", OverflowMax, r.sess)
  <2>1. \A j \in Ids : (m.sess[j].at = "retired" <=> r.sess[j].at = "retired")
                        /\ (m.sess[j].at = "overflow" <=> r.sess[j].at = "overflow")
    BY <1>3, <1>11, <1>12
  <2>2. Waits(m.retired, "retired", RetireMax, m.sess) /\ Waits(m.overflow, "overflow", OverflowMax, m.sess)
    BY DEF Good
  <2>3. Waits(m.retired, "retired", RetireMax, r.sess)
    BY <2>1, <2>2, WaitsSame
  <2>4. Waits(m.overflow, "overflow", OverflowMax, r.sess)
    BY <2>1, <2>2, WaitsSame
  <2> QED
    BY <1>2, <2>3, <2>4
<1>10. DirsKept(r.sess, r.sink)
  <2>1. ASSUME NEW j \in Ids, NEW k \in OutputIds, r.sess[j].at = "live", r.sink[j][k].dir = "removed"
        PROVE  Newer(r.sess, j)
    <3>1. j # n
      BY <1>3, <2>1 DEF Outputs!NewSink
    <3>2. Newer(m.sess, j) /\ m.sess[j].stream \in Streams
      BY <1>3, <2>1, <3>1 DEF Good, DirsKept, SessFine, SessTyped
    <3>3. PICK l \in Ids : l > j /\ m.sess[l].stream = m.sess[j].stream /\ m.sess[l].conn # m.sess[j].conn
      BY <3>2 DEF Newer
    <3>4. l # n
      BY <1>0, <1>11, <3>2, <3>3
    <3> QED
      BY <1>3, <3>1, <3>3, <3>4 DEF Newer
  <2> QED
    BY <2>1 DEF DirsKept
<1> QED
  BY <1>0, <1>2, <1>3, <1>12, <1>5, <1>6, <1>7, <1>8, <1>9, <1>10 DEF Good, r, n

\* One session changes, in place.
Changes(m, r, i) ==
    /\ r.live = m.live /\ r.started = m.started /\ r.retired = m.retired /\ r.overflow = m.overflow
    /\ \A j \in Ids : j # i => r.sess[j] = m.sess[j] /\ r.sink[j] = m.sink[j]
    /\ r.sess[i].at = m.sess[i].at /\ r.sess[i].conn = m.sess[i].conn /\ r.sess[i].stream = m.sess[i].stream
    /\ \A k \in OutputIds : r.sink[i][k].dir = "removed" => m.sink[i][k].dir = "removed"

\* A change in place keeps the record good.
LEMMA OneChanges ==
    ASSUME NEW m, Good(m), NEW r, Managed(r), NEW i \in Ids, Changes(m, r, i), SessFine(r.sess[i], r.sink[i])
    PROVE  Good(r)
<1> USE DEF Changes
<1>1. \A j \in Ids : /\ r.sess[j].at = m.sess[j].at /\ r.sess[j].conn = m.sess[j].conn
                      /\ r.sess[j].stream = m.sess[j].stream
  OBVIOUS
<1>2. \A j \in Ids : SessFine(r.sess[j], r.sink[j])
  BY DEF Good
<1>3. Numbered(r.sess, r.started) /\ OneTorn(r.sess)
  BY <1>1 DEF Good, Numbered, OneTorn
<1>4. OneLive(r.live, r.sess, r.started)
  BY <1>1 DEF Good, OneLive
<1>5. Waits(r.retired, "retired", RetireMax, r.sess)
  <2>1. Waits(m.retired, "retired", RetireMax, m.sess)
    BY DEF Good
  <2> QED
    BY <1>1, <2>1, WaitsSame
<1>6. Waits(r.overflow, "overflow", OverflowMax, r.sess)
  <2>1. Waits(m.overflow, "overflow", OverflowMax, m.sess)
    BY DEF Good
  <2> QED
    BY <1>1, <2>1, WaitsSame
<1>7. DirsKept(r.sess, r.sink)
  <2>1. \A j \in Ids : \A k \in OutputIds : r.sink[j][k].dir = "removed" => m.sink[j][k].dir = "removed"
    OBVIOUS
  <2>2. \A j \in Ids : Newer(m.sess, j) => Newer(r.sess, j)
    BY <1>1 DEF Newer
  <2> QED
    BY <1>1, <2>1, <2>2 DEF Good, DirsKept
<1> QED
  BY <1>2, <1>3, <1>4, <1>5, <1>6, <1>7 DEF Good

\* Only the live session of c has changed.
Only(m, r, c) ==
    \A d \in Conns : d # c => /\ r.live[d] = m.live[d]
                              /\ m.live[d] # 0 => r.sess[m.live[d]] = m.sess[m.live[d]]
\* The live session of c, if of stream s, is of the publish g or was merged into.
Suits(r, c, s, g) ==
    r.live[c] # 0 /\ r.sess[r.live[c]].stream = s =>
        r.sess[r.live[c]].generation = g \/ r.sess[r.live[c]].merged
\* The live session of c is of stream s and publish g.
Begun(m, c, s, g) ==
    m.live[c] # 0 /\ m.sess[m.live[c]].stream = s /\ m.sess[m.live[c]].generation = g

\* The session of a connection is retired, if it has one.
LEMMA RetireOldGood ==
    ASSUME NEW m, Good(m), NEW c \in Conns
    PROVE  LET r == Outputs!RetireOld(m, c) IN
           Good(r) /\ r.started = m.started /\ r.live[c] = 0 /\ Only(m, r, c)
<1>1. CASE m.live[c] = 0
  BY <1>1 DEF Outputs!RetireOld, Only
<1>2. CASE m.live[c] # 0
  <2> DEFINE r == Outputs!retire(m, m.live[c])
  <2>0. Outputs!RetireOld(m, c) = r
    BY <1>2 DEF Outputs!RetireOld
  <2>1. /\ Good(r) /\ r.started = m.started /\ r.live = [m.live EXCEPT ![c] = 0]
        /\ \A j \in Ids : j # m.live[c] => r.sess[j] = m.sess[j]
    BY <1>2, RetireGood
  <2> HIDE DEF r
  <2>2. DOMAIN m.live = Conns
    BY DEF Good, Managed
  <2>3. \A d \in Conns : d # c /\ m.live[d] # 0 => m.live[d] \in Ids /\ m.live[d] # m.live[c]
    BY <1>2 DEF Good, OneLive
  <2>4. Only(m, r, c)
    BY <2>1, <2>2, <2>3 DEF Only
  <2> QED
    BY <2>0, <2>1, <2>2, <2>4
<1> QED
  BY <1>1, <1>2

\* It is replaced by a new one, if the row is found.
LEMMA BeginGood ==
    ASSUME NEW m, Good(m), NEW c \in Conns, Room(m), NEW s \in Streams, NEW g \in Nat,
           NEW found, NEW marks
    PROVE  LET r == Outputs!start_session(Outputs!RetireOld(m, c), c, s, g, found, marks) IN
           /\ Good(r) /\ Only(m, r, c) /\ Suits(r, c, s, g) /\ r.started \in {m.started, m.started + 1}
           /\ found => Begun(r, c, s, g) /\ r.sess[r.live[c]].last = <<>>
           /\ ~found => r.live[c] = 0 /\ r.started = m.started
<1> DEFINE q == Outputs!RetireOld(m, c)
           r == Outputs!start_session(q, c, s, g, found, marks)
<1>1. Good(q) /\ q.started = m.started /\ q.live[c] = 0 /\ Only(m, q, c)
  BY RetireOldGood
<1> HIDE DEF q
<1>2. CASE ~found
  <2>1. r = q
    BY <1>2 DEF Outputs!start_session
  <2> QED
    BY <1>1, <1>2, <2>1 DEF Suits, q
<1>3. CASE found
  <2> DEFINE x == Begin(q, c, s, g, marks)
             n == Upcoming(q)
  <2>1. /\ Good(x) /\ x.started = n /\ n \in Ids /\ x.live = [q.live EXCEPT ![c] = n]
        /\ x.sess[n].stream = s /\ x.sess[n].generation = g /\ x.sess[n].conn = c /\ x.sess[n].last = <<>>
        /\ \A j \in Ids : j # n => x.sess[j] = q.sess[j]
    <3>1. Good(q) /\ q.live[c] = 0 /\ Room(q)
      BY <1>1 DEF Room
    <3> QED
      BY <3>1, StartGood
  <2> HIDE DEF x, n
  <2>2. DOMAIN q.live = Conns
    BY <1>1 DEF Good, Managed
  <2>3. x.live[c] = n /\ n # 0
    BY <2>1, <2>2 DEF Ids, Outputs!SessionIds
  <2>4. \A d \in Conns : q.live[d] # 0 => q.live[d] \in Ids /\ q.live[d] # n
    <3> TAKE d \in Conns
    <3>1. SUFFICES ASSUME q.live[d] # 0 PROVE q.live[d] \in Ids /\ q.live[d] # n
      OBVIOUS
    <3>2. q.live[d] \in Ids /\ q.sess[q.live[d]].at = "live" /\ q.started \in Nat
      BY <1>1, <3>1 DEF Good, OneLive, Numbered
    <3>3. ~(q.live[d] > q.started)
      BY <1>1, <3>2 DEF Good, Numbered
    <3> QED
      BY <3>2, <3>3 DEF n, Upcoming
  <2>5. Only(m, x, c)
    <3> SUFFICES ASSUME NEW d \in Conns, d # c
                 PROVE  x.live[d] = m.live[d] /\ (m.live[d] # 0 => x.sess[m.live[d]] = m.sess[m.live[d]])
      BY DEF Only
    <3>1. x.live[d] = q.live[d] /\ q.live[d] = m.live[d]
      BY <1>1, <2>1, <2>2 DEF Only
    <3>2. m.live[d] # 0 => q.sess[m.live[d]] = m.sess[m.live[d]]
      BY <1>1 DEF Only
    <3>3. m.live[d] # 0 => x.sess[m.live[d]] = q.sess[m.live[d]]
      BY <2>1, <2>4, <3>1
    <3> QED
      BY <3>1, <3>2, <3>3
  <2>6. Begun(x, c, s, g) /\ Suits(x, c, s, g) /\ x.sess[x.live[c]].last = <<>>
    BY <2>1, <2>3 DEF Begun, Suits
  <2>7. r = x
    BY <1>3 DEF x, Begin, Outputs!start_session
  <2>8. x.started = m.started + 1
    BY <1>1, <2>1 DEF n, Upcoming
  <2> QED
    BY <1>3, <2>1, <2>5, <2>6, <2>7, <2>8 DEF q
<1> QED
  BY <1>2, <1>3

\* Only the parts of a session's record that its outputs do not depend on.
LEMMA SinkStays ==
    ASSUME NEW e, NEW f, NEW o, NEW k, SinkFine(e, o, k),
           f.at = e.at, f.step = e.step, f.complete = e.complete, f.stream = e.stream,
           f.merged \/ (f.generation = e.generation /\ (e.merged => f.merged))
    PROVE  SinkFine(f, o, k)
BY DEF SinkFine

\* try_send: an output takes tags of its own session only.
LEMMA SendFine ==
    ASSUME NEW e, e.at = "live", NEW o, NEW k, SinkFine(e, o, k), NEW t \in Tag,
           t.stream = e.stream, t.generation = e.generation \/ e.merged
    PROVE  LET p == Outputs!try_send(o, t) IN SinkFine(e, p, k) /\ p.dir = o.dir
<1> DEFINE p == Outputs!try_send(o, t)
<1>0. SinkTyped(o)
  BY DEF SinkFine
<1>1. CASE ~o.open \/ o.failed
  <2>1. p = [o EXCEPT !.open = FALSE]
    BY <1>1 DEF Outputs!try_send
  <2>2. SinkTyped(p) /\ p.worker = o.worker /\ p.child = o.child /\ p.lost = o.lost /\ p.queue = o.queue
        /\ p.dir = o.dir /\ p.failed = o.failed
    BY <1>0, <2>1 DEF SinkTyped
  <2> HIDE DEF p
  <2> QED
    BY <2>2 DEF SinkFine, Torn, p
<1>2. CASE ~(~o.open \/ o.failed) /\ (Len(o.queue) >= SinkQueueMax \/ o.worker = "done")
  <2>1. p = Outputs!Disabled(o)
    BY <1>2 DEF Outputs!try_send
  <2>2. /\ SinkTyped(p) /\ p.failed /\ p.worker = o.worker /\ p.child = o.child /\ p.lost = o.lost
        /\ p.queue = o.queue /\ p.dir = o.dir
    BY <1>0, <2>1, DisabledFine
  <2> HIDE DEF p
  <2> QED
    BY <2>2 DEF SinkFine, Torn, p
<1>3. CASE ~(~o.open \/ o.failed) /\ ~(Len(o.queue) >= SinkQueueMax \/ o.worker = "done")
  <2>1. p = [o EXCEPT !.queue = Append(@, t)]
    BY <1>3 DEF Outputs!try_send
  <2>2. /\ {"open", "failed", "queue", "worker", "child", "dir", "lost"} \subseteq DOMAIN p
        /\ p.worker = o.worker /\ p.child = o.child /\ p.lost = o.lost /\ p.queue = Append(o.queue, t)
        /\ p.dir = o.dir /\ p.failed = o.failed
    BY <1>0, <2>1 DEF SinkTyped
  <2> HIDE DEF p
  <2>3. o.queue \in Seq(Tag) /\ Len(o.queue) \in Nat /\ SinkQueueMax \in Nat
    BY <1>0, OutputsAssumption DEF SinkTyped
  <2>4. /\ p.queue \in Seq(Tag) /\ Len(p.queue) = Len(o.queue) + 1 /\ p.queue[Len(o.queue) + 1] = t
        /\ \A n \in 1 .. Len(o.queue) : p.queue[n] = o.queue[n]
    BY <2>2, <2>3
  <2>5. SinkTyped(p)
    BY <1>0, <1>3, <2>2, <2>3, <2>4 DEF SinkTyped
  <2>6. ASSUME NEW n \in DOMAIN p.queue
        PROVE  p.queue[n].stream = e.stream /\ (p.queue[n].generation = e.generation \/ e.merged)
    <3>1. n \in 1 .. Len(o.queue) \/ n = Len(o.queue) + 1
      BY <2>3, <2>4, <2>6
    <3>2. DOMAIN o.queue = 1 .. Len(o.queue)
      BY <2>3
    <3> QED
      BY <2>4, <3>1, <3>2 DEF SinkFine
  <2> QED
    BY <2>2, <2>5, <2>6 DEF SinkFine, Torn, p
<1> QED
  BY <1>1, <1>2, <1>3

\* ensure_publisher, where a republish is coalesced.
LEMMA MergeGood ==
    ASSUME NEW m, Good(m), NEW c \in Conns, m.live[c] # 0, NEW g \in Nat
    PROVE  LET r == [m EXCEPT !.sess[m.live[c]].generation = g, !.sess[m.live[c]].merged = TRUE] IN
           /\ Good(r) /\ Only(m, r, c) /\ r.live = m.live /\ r.started = m.started
           /\ r.sess[r.live[c]].merged
<1> DEFINE i == m.live[c]
           r == [m EXCEPT !.sess[i].generation = g, !.sess[i].merged = TRUE]
<1>0. i \in Ids /\ m.sess[i].at = "live" /\ m.sess[i].conn = c /\ Managed(m) /\ SessFine(m.sess[i], m.sink[i])
  BY DEF Good, OneLive
<1>4. \A d \in Conns : d # c /\ m.live[d] # 0 => m.live[d] \in Ids /\ m.live[d] # i
  BY DEF Good, OneLive
<1> HIDE DEF i
<1>1. /\ Managed(r) /\ r.live = m.live /\ r.started = m.started /\ r.retired = m.retired
      /\ r.overflow = m.overflow /\ r.sink = m.sink
      /\ r.sess = [m.sess EXCEPT ![i].generation = g, ![i].merged = TRUE]
  BY <1>0 DEF Managed
<1>2. /\ \A j \in Ids : j # i => r.sess[j] = m.sess[j] /\ r.sink[j] = m.sink[j]
      /\ r.sess[i] = [m.sess[i] EXCEPT !.generation = g, !.merged = TRUE]
  BY <1>0, <1>1 DEF Managed
<1> HIDE DEF r
<1>3. /\ SessTyped(r.sess[i]) /\ r.sess[i].merged /\ r.sess[i].at = m.sess[i].at /\ r.sess[i].conn = m.sess[i].conn
      /\ r.sess[i].stream = m.sess[i].stream /\ r.sess[i].step = m.sess[i].step
      /\ r.sess[i].complete = m.sess[i].complete
  <2>1. SessTyped(m.sess[i])
    BY <1>0 DEF SessFine
  <2>2. /\ {"at", "conn", "stream", "generation", "last", "fresh", "merged", "step", "complete", "done"}
               \subseteq DOMAIN r.sess[i]
        /\ r.sess[i].merged /\ r.sess[i].at = m.sess[i].at /\ r.sess[i].conn = m.sess[i].conn
        /\ r.sess[i].stream = m.sess[i].stream /\ r.sess[i].step = m.sess[i].step
        /\ r.sess[i].complete = m.sess[i].complete /\ r.sess[i].done = m.sess[i].done
    BY <1>2, <2>1 DEF SessTyped
  <2> QED
    BY <2>1, <2>2 DEF SessTyped
<1>5. SessFine(r.sess[i], r.sink[i])
  <2>1. \A k \in OutputIds : SinkFine(r.sess[i], m.sink[i][k], k)
    BY <1>0, <1>3, SinkStays DEF SessFine
  <2> QED
    BY <1>0, <1>1, <1>3, <2>1 DEF SessFine
<1>6. Good(r)
  <2>1. \A k \in OutputIds : r.sink[i][k].dir = "removed" => m.sink[i][k].dir = "removed"
    BY <1>1
  <2>2. Changes(m, r, i)
    BY <1>1, <1>2, <1>3, <2>1 DEF Changes
  <2> QED
    BY <1>0, <1>1, <1>5, <2>2, OneChanges
<1>7. Only(m, r, c)
  BY <1>1, <1>2, <1>4 DEF Only
<1> QED
  BY <1>1, <1>3, <1>6, <1>7 DEF r, i

\* ensure_publisher keeps the record good, and what is live suits the publish.
LEMMA EnsureGood ==
    ASSUME NEW m, Good(m), NEW c \in Conns, NEW s \in Streams, NEW g \in Nat, NEW found,
           Room(m) \/ Begun(m, c, s, g)
    PROVE  LET r == Outputs!ensure_publisher(m, c, s, g, found) IN
           Good(r) /\ Only(m, r, c) /\ Suits(r, c, s, g)
<1> DEFINE r == Outputs!ensure_publisher(m, c, s, g, found)
           was == m.sess[m.live[c]]
           holds == m.live[c] # 0
           keeps == holds /\ was.stream = s /\ was.generation = g
           joins == holds /\ was.stream = s /\ "restart" \in was.fresh
           stays == holds /\ was.stream # s /\ "switch" \in was.fresh
<1>0. Only(m, m, c)
  BY DEF Only
<1>1. CASE keeps
  <2>1. r = m
    BY <1>1 DEF Outputs!ensure_publisher
  <2> QED
    BY <1>0, <1>1, <2>1 DEF Suits
<1>2. CASE ~keeps /\ joins
  <2> DEFINE x == [m EXCEPT !.sess[m.live[c]].generation = g, !.sess[m.live[c]].merged = TRUE]
  <2>1. r = x
    BY <1>2 DEF Outputs!ensure_publisher
  <2>2. Good(x) /\ Only(m, x, c) /\ x.sess[x.live[c]].merged
    BY <1>2, MergeGood
  <2> HIDE DEF x
  <2> QED
    BY <2>1, <2>2 DEF Suits
<1>3. CASE ~keeps /\ ~joins /\ stays
  <2>1. r = m
    BY <1>3 DEF Outputs!ensure_publisher
  <2> QED
    BY <1>0, <1>3, <2>1 DEF Suits
<1>4. CASE ~keeps /\ ~joins /\ ~stays
  <2> DEFINE marks == {"restart"} \cup IF Outputs!Switches(m, c, s) THEN {"switch"} ELSE {}
             x == Outputs!start_session(Outputs!RetireOld(m, c), c, s, g, found, marks)
  <2>1. r = x
    BY <1>4 DEF Outputs!ensure_publisher
  <2>2. Room(m)
    BY <1>4 DEF Begun
  <2> HIDE DEF marks
  <2>3. Good(x) /\ Only(m, x, c) /\ Suits(x, c, s, g)
    BY <2>2, BeginGood
  <2> QED
    BY <2>1, <2>3
<1> QED
  BY <1>1, <1>2, <1>3, <1>4

\* handle_frame has started at most one session, and only one of the frame's own publish.
Followed(m, q, c, s, g) ==
    /\ Good(q) /\ Only(m, q, c) /\ Suits(q, c, s, g)
    /\ q.started = m.started \/ (q.started = m.started + 1 /\ Begun(q, c, s, g))

\* A frame starts a session of its own publish when the route or the timestamp
\* says so, and not twice: the second start would need the timestamp of a frame
\* before it.
LEMMA FollowGood ==
    ASSUME NEW m, Good(m), NEW c \in Conns, NEW s \in Streams, NEW g \in Nat, NEW found, NEW ts,
           Room(m), Suits(m, c, s, g)
    PROVE  Followed(m, Outputs!Restart(Outputs!Follow(m, c, s, g, found), c, s, g, ts, found), c, s, g)
<1> DEFINE x == Outputs!Follow(m, c, s, g, found)
           q == Outputs!Restart(x, c, s, g, ts, found)
<1>1. CASE m.live[c] # 0 /\ ~Outputs!Switches(m, c, s)
  <2>1. x = m
    BY <1>1 DEF Outputs!Follow
  <2> HIDE DEF x
  <2>2. CASE m.live[c] # 0 /\ Outputs!TimestampReset(m.sess[m.live[c]], ts)
    <3> DEFINE marks == {"restart"} \cup (m.sess[m.live[c]].fresh \cap {"switch"})
               y == Outputs!start_session(Outputs!RetireOld(m, c), c, s, g, found, marks)
    <3>1. q = y
      BY <2>1, <2>2 DEF Outputs!Restart
    <3> HIDE DEF marks
    <3>2. /\ Good(y) /\ Only(m, y, c) /\ Suits(y, c, s, g) /\ y.started \in {m.started, m.started + 1}
          /\ found => Begun(y, c, s, g)
          /\ ~found => y.started = m.started
      BY BeginGood
    <3> HIDE DEF y
    <3>3. Followed(m, y, c, s, g)
      BY <3>2 DEF Followed
    <3> QED
      BY <3>1, <3>3 DEF x
  <2>3. CASE ~(m.live[c] # 0 /\ Outputs!TimestampReset(m.sess[m.live[c]], ts))
    <3>1. q = m
      BY <2>1, <2>3 DEF Outputs!Restart
    <3>2. Followed(m, m, c, s, g)
      BY DEF Followed, Only
    <3> QED
      BY <3>1, <3>2 DEF x
  <2> QED
    BY <2>2, <2>3
<1>2. CASE ~(m.live[c] # 0 /\ ~Outputs!Switches(m, c, s))
  <2> DEFINE marks == IF m.live[c] # 0 THEN {"switch"} ELSE {}
             y == Outputs!start_session(Outputs!RetireOld(m, c), c, s, g, found, marks)
  <2>1. x = y
    BY <1>2 DEF Outputs!Follow
  <2> HIDE DEF marks
  <2>2. /\ Good(y) /\ Only(m, y, c) /\ Suits(y, c, s, g) /\ y.started \in {m.started, m.started + 1}
        /\ found => Begun(y, c, s, g) /\ y.sess[y.live[c]].last = <<>>
        /\ ~found => y.live[c] = 0 /\ y.started = m.started
    BY BeginGood
  <2> HIDE DEF x, y
  <2>3. ~(y.live[c] # 0 /\ Outputs!TimestampReset(y.sess[y.live[c]], ts))
    BY <2>2 DEF Outputs!TimestampReset
  <2>4. q = y
    BY <2>1, <2>3 DEF Outputs!Restart
  <2>5. Followed(m, y, c, s, g)
    BY <2>2 DEF Followed
  <2> QED
    BY <2>4, <2>5 DEF x
<1> QED
  BY <1>1, <1>2

\* The frame is offered to every output of the live session.
Offered(q, c, ts, t) ==
    [q EXCEPT !.sess[q.live[c]].last = <<ts>>,
              !.sink[q.live[c]] = [k \in OutputIds |-> Outputs!try_send(@[k], t)]]

\* The frame is offered to every output of its own session.
LEMMA OfferGood ==
    ASSUME NEW m, NEW q, NEW c \in Conns, NEW s \in Streams, NEW g \in Nat, NEW ts, Followed(m, q, c, s, g),
           q.live[c] # 0, q.sess[q.live[c]].stream = s, NEW t \in Tag, t.stream = s, t.generation = g
    PROVE  Followed(m, Offered(q, c, ts, t), c, s, g)
<1> DEFINE i == q.live[c]
           r == [q EXCEPT !.sess[i].last = <<ts>>,
                          !.sink[i] = [k \in OutputIds |-> Outputs!try_send(@[k], t)]]
<1>0. /\ Good(q) /\ i \in Ids /\ q.sess[i].at = "live" /\ q.sess[i].conn = c /\ Managed(q)
      /\ SessFine(q.sess[i], q.sink[i]) /\ (q.sess[i].generation = g \/ q.sess[i].merged)
  BY DEF Followed, Good, OneLive, Suits
<1>4. \A d \in Conns : d # c /\ q.live[d] # 0 => q.live[d] \in Ids /\ q.live[d] # i
  BY DEF Followed, Good, OneLive
<1> HIDE DEF i
<1>1. /\ Managed(r) /\ r.live = q.live /\ r.started = q.started /\ r.retired = q.retired
      /\ r.overflow = q.overflow /\ r.sess = [q.sess EXCEPT ![i].last = <<ts>>]
      /\ r.sink = [q.sink EXCEPT ![i] = [k \in OutputIds |-> Outputs!try_send(@[k], t)]]
  BY <1>0 DEF Managed
<1>2. /\ \A j \in Ids : j # i => r.sess[j] = q.sess[j] /\ r.sink[j] = q.sink[j]
      /\ r.sess[i] = [q.sess[i] EXCEPT !.last = <<ts>>]
      /\ r.sink[i] = [k \in OutputIds |-> Outputs!try_send(q.sink[i][k], t)]
  BY <1>0, <1>1 DEF Managed
<1> HIDE DEF r
<1>3. /\ SessTyped(r.sess[i]) /\ r.sess[i].at = q.sess[i].at /\ r.sess[i].conn = q.sess[i].conn
      /\ r.sess[i].stream = q.sess[i].stream /\ r.sess[i].step = q.sess[i].step
      /\ r.sess[i].complete = q.sess[i].complete /\ r.sess[i].merged = q.sess[i].merged
      /\ r.sess[i].generation = q.sess[i].generation
  <2>1. SessTyped(q.sess[i])
    BY <1>0 DEF SessFine
  <2>2. /\ {"at", "conn", "stream", "generation", "last", "fresh", "merged", "step", "complete", "done"}
               \subseteq DOMAIN r.sess[i]
        /\ r.sess[i].at = q.sess[i].at /\ r.sess[i].conn = q.sess[i].conn
        /\ r.sess[i].stream = q.sess[i].stream /\ r.sess[i].step = q.sess[i].step
        /\ r.sess[i].complete = q.sess[i].complete /\ r.sess[i].merged = q.sess[i].merged
        /\ r.sess[i].generation = q.sess[i].generation /\ r.sess[i].done = q.sess[i].done
    BY <1>2, <2>1 DEF SessTyped
  <2> QED
    BY <2>1, <2>2 DEF SessTyped
<1>5. \A k \in OutputIds : /\ SinkFine(r.sess[i], Outputs!try_send(q.sink[i][k], t), k)
                        /\ Outputs!try_send(q.sink[i][k], t).dir = q.sink[i][k].dir
  <2> TAKE k \in OutputIds
  <2>1. SinkFine(q.sess[i], q.sink[i][k], k)
    BY <1>0 DEF SessFine
  <2>2. SinkFine(r.sess[i], q.sink[i][k], k)
    BY <1>3, <2>1, SinkStays
  <2>3. /\ r.sess[i].at = "live" /\ t.stream = r.sess[i].stream
        /\ t.generation = r.sess[i].generation \/ r.sess[i].merged
    BY <1>0, <1>3 DEF i
  <2> QED
    BY <2>2, <2>3, SendFine
<1>6. SessFine(r.sess[i], r.sink[i])
  BY <1>2, <1>3, <1>5 DEF SessFine
<1>7. Good(r)
  <2>1. Changes(q, r, i)
    BY <1>1, <1>2, <1>3, <1>5 DEF Changes
  <2> QED
    BY <1>0, <1>1, <1>6, <2>1, OneChanges
<1>8. Only(m, r, c)
  BY <1>1, <1>2, <1>4 DEF Followed, Only
<1>9. Suits(r, c, s, g) /\ (Begun(q, c, s, g) => Begun(r, c, s, g))
  BY <1>0, <1>1, <1>3 DEF Suits, Begun, i
<1> QED
  BY <1>1, <1>7, <1>8, <1>9 DEF Followed, Offered, r, i

\* handle_frame keeps the record good.
LEMMA HandleGood ==
    ASSUME NEW m, Good(m), NEW c \in Conns, NEW s \in Streams, NEW g \in Nat, NEW found, NEW ts,
           Room(m), Suits(m, c, s, g), NEW t \in Tag, t.stream = s, t.generation = g
    PROVE  Followed(m, Outputs!handle_frame(m, c, t, s, g, ts, found), c, s, g)
<1> DEFINE q == Outputs!Restart(Outputs!Follow(m, c, s, g, found), c, s, g, ts, found)
           i == q.live[c]
           r == Offered(q, c, ts, t)
           h == Outputs!handle_frame(m, c, t, s, g, ts, found)
<1>1. Followed(m, q, c, s, g)
  BY FollowGood
<1>2. h = IF i = 0 \/ q.sess[i].stream # s THEN q ELSE r
  BY DEF Outputs!handle_frame, Outputs!Outputs, OutputIds, Offered
<1> HIDE DEF q, h
<1>3. CASE i = 0 \/ q.sess[i].stream # s
  BY <1>1, <1>2, <1>3 DEF h
<1>4. CASE ~(i = 0 \/ q.sess[i].stream # s)
  <2>1. Followed(m, r, c, s, g)
    BY <1>1, <1>4, OfferGood
  <2> QED
    BY <1>2, <1>4, <2>1 DEF h
<1> QED
  BY <1>3, <1>4

\* The invariant of the outputs: a good record, and the live session of every
\* publisher suits its publish.
OutputsInv ==
    /\ Good(Outputs!M)
    /\ publishing \in [Conns -> Streams \cup {"none"}] /\ generation \in [Conns -> Nat]
    /\ \A c \in Conns : publishing[c] # "none" => Suits(Outputs!M, c, publishing[c], generation[c])

\* The six variables of the manager have the values of a record.
Same(m, r) ==
    /\ Managed(r) /\ r.live = m.live /\ r.sess = m.sess /\ r.sink = m.sink
    /\ r.retired = m.retired /\ r.overflow = m.overflow /\ r.started = m.started

\* The record is all that counts.
LEMMA SameGood ==
    ASSUME NEW m, NEW r, Same(m, r)
    PROVE  /\ Good(m) => Good(r)
           /\ \A c, s, g : Suits(m, c, s, g) => Suits(r, c, s, g)
BY DEF Same, Good, Suits

\* Apply gives the variables the values of the record.
LEMMA Applied ==
    ASSUME NEW m, Good(m), Outputs!Apply(m)
    PROVE  Same(m, Outputs!M')
<1> DEFINE r == Outputs!M'
<1>1. /\ r.live = m.live /\ r.sess = m.sess /\ r.sink = m.sink
      /\ r.retired = m.retired /\ r.overflow = m.overflow /\ r.started = m.started
      /\ {"live", "sess", "sink", "retired", "overflow", "started"} \subseteq DOMAIN r
  BY DEF Outputs!Apply, Outputs!M
<1> HIDE DEF r
<1> QED
  BY <1>1 DEF Same, Managed, Good, r

\* A step of the poll thread for one connection.
LEMMA PollStep ==
    ASSUME OutputsInv, NEW c \in Conns, NEW m, Good(m), Only(Outputs!M, m, c), Outputs!Apply(m),
           NEW s \in Streams \cup {"none"}, NEW g \in Nat, s # "none" => Suits(m, c, s, g),
           publishing' = [publishing EXCEPT ![c] = s], generation' = [generation EXCEPT ![c] = g]
    PROVE  OutputsInv'
<1> DEFINE r == Outputs!M'
           M == Outputs!M
<1>0. Same(m, r)
  BY Applied
<1>1. Good(r)
  BY <1>0, SameGood
<1>2. /\ publishing' \in [Conns -> Streams \cup {"none"}] /\ generation' \in [Conns -> Nat]
      /\ \A d \in Conns : /\ publishing'[d] = IF d = c THEN s ELSE publishing[d]
                          /\ generation'[d] = IF d = c THEN g ELSE generation[d]
  BY DEF OutputsInv
<1> HIDE DEF r, M
<1>3. ASSUME NEW d \in Conns, publishing'[d] # "none" PROVE Suits(r, d, publishing'[d], generation'[d])
  <2>1. CASE d = c
    <3>1. Suits(m, c, s, g) /\ publishing'[d] = s /\ generation'[d] = g
      BY <1>2, <1>3, <2>1
    <3> QED
      BY <1>0, <2>1, <3>1, SameGood
  <2>2. CASE d # c
    <3>1. publishing'[d] = publishing[d] /\ generation'[d] = generation[d]
      BY <1>2, <2>2
    <3>2. Suits(M, d, publishing[d], generation[d])
      BY <1>3, <3>1 DEF OutputsInv, M
    <3>3. m.live[d] = M.live[d] /\ (M.live[d] # 0 => m.sess[M.live[d]] = M.sess[M.live[d]])
      BY <2>2 DEF Only, M
    <3>4. Suits(m, d, publishing[d], generation[d])
      BY <3>2, <3>3 DEF Suits
    <3> QED
      BY <1>0, <3>1, <3>4, SameGood
  <2> QED
    BY <2>1, <2>2
<1> QED
  BY <1>1, <1>2, <1>3 DEF OutputsInv, r

\* What a step of the poll thread starts from.
LEMMA Holds ==
    ASSUME OutputsInv, NEW c \in Conns
    PROVE  /\ Good(Outputs!M) /\ publishing[c] \in Streams \cup {"none"} /\ generation[c] \in Nat
           /\ publishing = [publishing EXCEPT ![c] = publishing[c]]
           /\ generation = [generation EXCEPT ![c] = generation[c]]
           /\ publishing[c] # "none" => Suits(Outputs!M, c, publishing[c], generation[c])
           /\ Outputs!Running => Room(Outputs!M)
BY DEF OutputsInv, Outputs!Running, Room, Outputs!M

\* A tick with a frame, in which the publisher may also have moved.
LEMMA FrameKeeps ==
    ASSUME OutputsInv, NEW c \in Conns, NEW ts, NEW found, Outputs!TickFrame(c, ts, found)
    PROVE  OutputsInv'
<1> DEFINE s == publishing[c]
           g == generation[c]
           f == [stream |-> s, generation |-> g]
           h == Outputs!handle_frame(Outputs!M, c, f, s, g, ts, found)
           M == Outputs!M
<1>0. s \in Streams /\ g \in Nat /\ Good(M) /\ Suits(M, c, s, g) /\ Room(M) /\ f \in Tag /\ f.stream = s /\ f.generation = g
  BY Holds DEF Outputs!TickFrame, Outputs!None, Tag
<1>1. Followed(M, h, c, s, g)
  BY <1>0, HandleGood
<1>2. generation' = [generation EXCEPT ![c] = g]
  BY Holds DEF Outputs!TickFrame
<1>3. \/ UNCHANGED <<publishing, moved>> /\ Outputs!Apply(Outputs!ensure_publisher(h, c, s, g, found))
      \/ \E t \in Streams \ {s} :
             /\ started + 2 <= MaxSessions
             /\ publishing' = [publishing EXCEPT ![c] = t]
             /\ Outputs!Apply(Outputs!ensure_publisher(h, c, t, g, found))
  BY DEF Outputs!TickFrame
<1>4. M.started = started /\ started \in Nat /\ MaxSessions \in Nat
  BY <1>0, OutputsAssumption DEF Good, Numbered, Outputs!M
<1> HIDE DEF h, s, g, M, f
<1>5. Good(h) /\ Only(M, h, c)
  BY <1>1 DEF Followed
<1>6. CASE UNCHANGED <<publishing, moved>> /\ Outputs!Apply(Outputs!ensure_publisher(h, c, s, g, found))
  <2> DEFINE r == Outputs!ensure_publisher(h, c, s, g, found)
  <2>1. Room(h) \/ Begun(h, c, s, g)
    BY <1>0, <1>1 DEF Followed, Room
  <2>2. Good(r) /\ Only(h, r, c) /\ Suits(r, c, s, g)
    BY <1>0, <1>5, <2>1, EnsureGood
  <2> HIDE DEF r
  <2>3. Only(M, r, c)
    BY <1>5, <2>2 DEF Only
  <2>4. publishing' = [publishing EXCEPT ![c] = s]
    BY <1>6, Holds DEF s
  <2>5. Outputs!Apply(r)
    BY <1>6 DEF r
  <2> QED
    BY <1>0, <1>2, <2>2, <2>3, <2>4, <2>5, PollStep DEF M
<1>7. ASSUME NEW t \in Streams, started + 2 <= MaxSessions, publishing' = [publishing EXCEPT ![c] = t],
             Outputs!Apply(Outputs!ensure_publisher(h, c, t, g, found))
      PROVE  OutputsInv'
  <2> DEFINE r == Outputs!ensure_publisher(h, c, t, g, found)
  <2>1. Room(h)
    BY <1>1, <1>4, <1>7 DEF Followed, Room
  <2>2. Good(r) /\ Only(h, r, c) /\ Suits(r, c, t, g)
    BY <1>0, <1>5, <2>1, EnsureGood
  <2>5. Outputs!Apply(r)
    BY <1>7 DEF r
  <2> HIDE DEF r
  <2>3. Only(M, r, c)
    BY <1>5, <2>2 DEF Only
  <2> QED
    BY <1>0, <1>2, <1>7, <2>2, <2>3, <2>5, PollStep DEF M
<1> QED
  BY <1>3, <1>6, <1>7

\* A tick that only calls ensure_publisher.
LEMMA EnsureKeeps ==
    ASSUME OutputsInv, NEW c \in Conns, NEW found, NEW s \in Streams, NEW g \in Nat, Outputs!Running,
           Outputs!Apply(Outputs!ensure_publisher(Outputs!M, c, s, g, found)),
           publishing' = [publishing EXCEPT ![c] = s], generation' = [generation EXCEPT ![c] = g]
    PROVE  OutputsInv'
<1> DEFINE M == Outputs!M
           r == Outputs!ensure_publisher(M, c, s, g, found)
<1>1. Good(M) /\ Room(M)
  BY Holds
<1>2. Good(r) /\ Only(M, r, c) /\ Suits(r, c, s, g)
  BY <1>1, EnsureGood
<1>3. Outputs!Apply(r)
  OBVIOUS
<1> HIDE DEF r
<1> QED
  BY <1>2, <1>3, PollStep

\* The ticks without a frame.
LEMMA TicksKeep ==
    ASSUME OutputsInv, NEW c \in Conns, NEW s \in Streams, NEW found,
           Outputs!StreamMoves(c, s, found) \/ Outputs!PublishApplied(c, s, found) \/ Outputs!TickIdle(c)
    PROVE  OutputsInv'
<1>1. CASE Outputs!StreamMoves(c, s, found)
  <2>1. /\ Outputs!Running /\ Outputs!Apply(Outputs!ensure_publisher(Outputs!M, c, s, generation[c], found))
        /\ publishing' = [publishing EXCEPT ![c] = s] /\ generation' = [generation EXCEPT ![c] = generation[c]]
        /\ generation[c] \in Nat
    BY <1>1, Holds DEF Outputs!StreamMoves
  <2> QED
    BY <2>1, EnsureKeeps
<1>2. CASE Outputs!PublishApplied(c, s, found)
  <2>1. /\ Outputs!Running /\ Outputs!Apply(Outputs!ensure_publisher(Outputs!M, c, s, generation[c] + 1, found))
        /\ publishing' = [publishing EXCEPT ![c] = s] /\ generation' = [generation EXCEPT ![c] = generation[c] + 1]
        /\ generation[c] + 1 \in Nat
    BY <1>2, Holds DEF Outputs!PublishApplied
  <2> QED
    BY <2>1, EnsureKeeps
<1>3. CASE Outputs!TickIdle(c)
  <2>1. /\ Outputs!Running
        /\ Outputs!Apply(Outputs!ensure_publisher(Outputs!M, c, publishing[c], generation[c], TRUE))
        /\ publishing' = [publishing EXCEPT ![c] = publishing[c]]
        /\ generation' = [generation EXCEPT ![c] = generation[c]]
        /\ generation[c] \in Nat /\ publishing[c] \in Streams
    BY <1>3, Holds DEF Outputs!TickIdle, Outputs!None
  <2> QED
    BY <2>1, EnsureKeeps
<1> QED
  BY <1>1, <1>2, <1>3

\* A publish ends.
LEMMA RetainKeeps ==
    ASSUME OutputsInv, NEW c \in Conns, Outputs!RetainPublishers(c) \/ Outputs!Unpublish(c)
    PROVE  OutputsInv'
<1> DEFINE M == Outputs!M
<1>1. CASE Outputs!RetainPublishers(c)
  <2> DEFINE r == Outputs!RetireOld(M, c)
  <2>1. /\ Outputs!Apply(r) /\ publishing' = [publishing EXCEPT ![c] = "none"]
        /\ generation' = [generation EXCEPT ![c] = generation[c]] /\ generation[c] \in Nat
    BY <1>1, Holds DEF Outputs!RetainPublishers, Outputs!RetireOld, Outputs!None, Outputs!M
  <2>2. Good(r) /\ Only(M, r, c)
    BY Holds, RetireOldGood
  <2> HIDE DEF r
  <2> QED
    BY <2>1, <2>2, PollStep
<1>2. CASE Outputs!Unpublish(c)
  <2>1. /\ Outputs!Apply(M) /\ publishing' = [publishing EXCEPT ![c] = "none"]
        /\ generation' = [generation EXCEPT ![c] = generation[c]] /\ generation[c] \in Nat
    BY <1>2, Holds DEF Outputs!Unpublish, Outputs!None, Outputs!M, Outputs!Apply
  <2>2. Good(M) /\ Only(M, M, c)
    BY Holds DEF Only
  <2> QED
    BY <2>1, <2>2, PollStep
<1> QED
  BY <1>1, <1>2

\* A step of another thread leaves every live session to its connection.
LEMMA QuietStep ==
    ASSUME OutputsInv, Good(Outputs!M'), UNCHANGED <<publishing, generation>>,
           \A d \in Conns : sessionOf'[d] # 0 =>
               /\ sessionOf'[d] = sessionOf[d]
               /\ sess'[sessionOf[d]].stream = sess[sessionOf[d]].stream
               /\ sess'[sessionOf[d]].generation = sess[sessionOf[d]].generation
               /\ sess[sessionOf[d]].merged => sess'[sessionOf[d]].merged
    PROVE  OutputsInv'
<1>1. ASSUME NEW d \in Conns, publishing'[d] # "none" PROVE Suits(Outputs!M', d, publishing'[d], generation'[d])
  <2>1. Suits(Outputs!M, d, publishing[d], generation[d])
    BY <1>1 DEF OutputsInv
  <2> QED
    BY <2>1 DEF Suits, Outputs!M
<1> QED
  BY <1>1 DEF OutputsInv

\* A session changes hands: it is not live afterwards.
Moves(m, r, i) ==
    /\ r.started = m.started
    /\ \A j \in Ids : j # i => r.sess[j] = m.sess[j] /\ r.sink[j] = m.sink[j]
    /\ r.sess[i].conn = m.sess[i].conn /\ r.sess[i].stream = m.sess[i].stream
    /\ m.sess[i].at # "unused" /\ r.sess[i].at \notin {"unused", "live"}
    /\ \A d \in Conns : r.live[d] = IF m.live[d] = i THEN 0 ELSE m.live[d]

\* A change of hands keeps the record good, given the queues and the threads.
LEMMA MoveGood ==
    ASSUME NEW m, Good(m), NEW r, Managed(r), NEW i \in Ids, Moves(m, r, i), SessFine(r.sess[i], r.sink[i]),
           OneTorn(r.sess), Waits(r.retired, "retired", RetireMax, r.sess),
           Waits(r.overflow, "overflow", OverflowMax, r.sess)
    PROVE  Good(r)
<1>1. \A j \in Ids : SessFine(r.sess[j], r.sink[j])
  BY DEF Good, Moves
<1>2. Numbered(r.sess, r.started)
  BY DEF Good, Moves, Numbered
<1>3. OneLive(r.live, r.sess, r.started)
  <2>0. \A j \in Ids : r.sess[j].conn = m.sess[j].conn
    BY DEF Moves
  <2>1. ASSUME NEW d \in Conns, r.live[d] # 0
        PROVE  r.live[d] \in Ids /\ r.sess[r.live[d]].at = "live" /\ r.sess[r.live[d]].conn = d
    <3>1. r.live[d] = m.live[d] /\ m.live[d] # i /\ m.live[d] # 0
      BY <2>1 DEF Moves
    <3> QED
      BY <3>1 DEF Good, OneLive, Moves
  <2>2. ASSUME NEW j \in Ids, r.sess[j].at = "live" PROVE r.live[r.sess[j].conn] = j
    <3>1. j # i /\ r.sess[j] = m.sess[j]
      BY <2>2 DEF Moves
    <3>2. m.live[m.sess[j].conn] = j /\ m.sess[j].conn \in Conns
      BY <2>2, <3>1 DEF Good, OneLive, SessFine, SessTyped
    <3> QED
      BY <3>1, <3>2 DEF Moves
  <2>3. ASSUME NEW d \in Conns, NEW j \in Ids, r.live[d] # 0, j > r.live[d], j <= r.started
        PROVE  r.sess[j].conn # d
    <3>1. r.live[d] = m.live[d] /\ r.started = m.started
      BY <2>3 DEF Moves
    <3> QED
      BY <2>0, <2>3, <3>1 DEF Good, OneLive
  <2> QED
    BY <2>1, <2>2, <2>3 DEF OneLive
<1>4. DirsKept(r.sess, r.sink)
  <2>1. ASSUME NEW j \in Ids, NEW k \in OutputIds, r.sess[j].at = "live", r.sink[j][k].dir = "removed"
        PROVE  Newer(r.sess, j)
    <3>1. j # i /\ r.sess[j] = m.sess[j] /\ r.sink[j] = m.sink[j]
      BY <2>1 DEF Moves
    <3>2. Newer(m.sess, j)
      BY <2>1, <3>1 DEF Good, DirsKept
    <3>3. \A l \in Ids : r.sess[l].stream = m.sess[l].stream /\ r.sess[l].conn = m.sess[l].conn
      BY DEF Moves
    <3> QED
      BY <3>2, <3>3 DEF Newer
  <2> QED
    BY <2>1 DEF DirsKept
<1> QED
  BY <1>1, <1>2, <1>3, <1>4 DEF Good

\* SinkSender::stop has dropped the sender of one output, if there is one.
OneClosed(os, ps, n) == ps = IF n \in OutputIds THEN [os EXCEPT ![n].open = FALSE] ELSE os

\* Closing a sender changes nothing else of the outputs.
LEMMA ClosedDoes ==
    ASSUME NEW os, NEW ps, NEW n, DOMAIN os = OutputIds, OneClosed(os, ps, n),
           \A k \in OutputIds : SinkTyped(os[k])
    PROVE  /\ DOMAIN ps = OutputIds
           /\ \A k \in OutputIds :
                  /\ SinkTyped(ps[k]) /\ ps[k].worker = os[k].worker /\ ps[k].child = os[k].child
                  /\ ps[k].lost = os[k].lost /\ ps[k].queue = os[k].queue /\ ps[k].failed = os[k].failed
                  /\ ps[k].dir = os[k].dir
<1>1. DOMAIN ps = OutputIds
  BY DEF OneClosed
<1>2. ASSUME NEW k \in OutputIds
      PROVE  /\ SinkTyped(ps[k]) /\ ps[k].worker = os[k].worker /\ ps[k].child = os[k].child
             /\ ps[k].lost = os[k].lost /\ ps[k].queue = os[k].queue /\ ps[k].failed = os[k].failed
             /\ ps[k].dir = os[k].dir
  <2>1. ps[k] = os[k] \/ ps[k] = [os[k] EXCEPT !.open = FALSE]
    BY DEF OneClosed
  <2>2. {"open", "failed", "queue", "worker", "child", "dir", "lost"} \subseteq DOMAIN os[k]
    BY DEF SinkTyped
  <2>3. /\ {"open", "failed", "queue", "worker", "child", "dir", "lost"} \subseteq DOMAIN ps[k]
        /\ ps[k].worker = os[k].worker /\ ps[k].child = os[k].child
        /\ ps[k].lost = os[k].lost /\ ps[k].queue = os[k].queue /\ ps[k].failed = os[k].failed
        /\ ps[k].dir = os[k].dir
    BY <2>1, <2>2
  <2> QED
    BY <2>3 DEF SinkTyped
<1> QED
  BY <1>1, <1>2

\* A session leaves a queue, or the poll thread, for the thread that stops it.
LEMMA TakenFine ==
    ASSUME NEW e, NEW os, SessFine(e, os), e.step = 1, NEW f, NEW ps, OneClosed(os, ps, 1),
           NEW place \in Torn, Leaves(e, f, place)
    PROVE  SessFine(f, ps)
<1>1. DOMAIN os = OutputIds /\ SessTyped(e) /\ SessTyped(f) /\ \A k \in OutputIds : SinkFine(e, os[k], k) /\ SinkTyped(os[k])
  BY DEF SessFine, SinkFine, Leaves
<1>2. /\ DOMAIN ps = OutputIds
      /\ \A k \in OutputIds :
             /\ SinkTyped(ps[k]) /\ ps[k].worker = os[k].worker /\ ps[k].child = os[k].child
             /\ ps[k].lost = os[k].lost /\ ps[k].queue = os[k].queue /\ ps[k].failed = os[k].failed
  BY <1>1, ClosedDoes
<1>3. place \in {"retired", "overflow", "reaping", "aborting", "stopping", "dropped"} /\ place # "dropped"
  BY DEF Torn
<1>4. \A k \in OutputIds : SinkFine(f, ps[k], k)
  BY <1>1, <1>2, <1>3, SinkLeaves
<1> QED
  BY <1>1, <1>2, <1>4 DEF SessFine

\* The step closes the sender of output n of session i.
Closing(i, n) == OneClosed(sink[i], sink'[i], n) /\ \A j \in Ids : j # i => sink'[j] = sink[j]

\* Which is what Closed does.
LEMMA ClosedIs ==
    ASSUME DOMAIN sink = Ids, NEW i \in Ids, NEW n, Outputs!Closed(sink, i, n)
    PROVE  Closing(i, n) /\ DOMAIN sink' = Ids
BY DEF Outputs!Closed, Closing, OneClosed, Outputs!Outputs, OutputIds

\* The reaper or the overflow worker takes the next session.
LEMMA HeadTaken ==
    ASSUME Good(Outputs!M), NEW q, NEW max \in Nat, NEW from \in {"retired", "overflow"}, NEW to \in Torn,
           Waits(q, from, max, sess), q # <<>>, Outputs!Idle(to),
           sess' = [sess EXCEPT ![Head(q)].at = to], Outputs!Closed(sink, Head(q), 1),
           UNCHANGED <<sessionOf, started>>
    PROVE  LET i == Head(q) IN
           /\ i \in Ids /\ Moves(Outputs!M, Outputs!M', i) /\ Managed(Outputs!M') /\ SessFine(sess'[i], sink'[i])
           /\ OneTorn(sess') /\ sess[i].at = from /\ sess'[i].at = to /\ Waits(Tail(q), from, max, sess')
           /\ \A j \in Ids : j # i => sess'[j] = sess[j]
<1> DEFINE i == Head(q)
<1>0. i \in Ids /\ sess[i].at = from
  <2>1. Len(q) \in Nat /\ Len(q) > 0 /\ Head(q) = q[1] /\ 1 \in 1 .. Len(q) /\ q \in Seq(Ids)
    BY HeadTailProperties DEF Waits
  <2> QED
    BY <2>1 DEF Waits
<1> HIDE DEF i
<1>1. DOMAIN sess = Ids /\ DOMAIN sink = Ids /\ DOMAIN sessionOf = Conns /\ SessFine(sess[i], sink[i])
  BY <1>0 DEF Good, Managed, Outputs!M
<1>2. sess'[i] = [sess[i] EXCEPT !.at = to] /\ DOMAIN sess' = Ids /\ \A j \in Ids : j # i => sess'[j] = sess[j]
  BY <1>0, <1>1 DEF i
<1>3. Closing(i, 1) /\ DOMAIN sink' = Ids
  BY <1>0, <1>1, ClosedIs DEF i
<1>4. SessTyped(sess[i]) /\ sess[i].step = 1
  BY <1>0, <1>1 DEF SessFine, SessTyped
<1>5. Leaves(sess[i], sess'[i], to)
  <2>1. /\ {"at", "conn", "stream", "generation", "last", "fresh", "merged", "step", "complete", "done"}
               \subseteq DOMAIN sess'[i]
        /\ sess'[i].at = to /\ sess'[i].conn = sess[i].conn /\ sess'[i].stream = sess[i].stream
        /\ sess'[i].generation = sess[i].generation /\ sess'[i].merged = sess[i].merged
        /\ sess'[i].step = sess[i].step /\ sess'[i].complete = sess[i].complete /\ sess'[i].done = sess[i].done
    BY <1>2, <1>4 DEF SessTyped
  <2> QED
    BY <1>0, <1>4, <2>1 DEF Leaves, SessTyped, Places, Torn
<1>6. SessFine(sess'[i], sink'[i])
  BY <1>1, <1>3, <1>4, <1>5, TakenFine DEF Closing
<1>7. OneTorn(sess')
  <2>1. \A j \in Ids : sess[j].at # to
    BY DEF Outputs!Idle, Ids
  <2>2. OneTorn(sess)
    BY DEF Good, Outputs!M
  <2>3. sess'[i].at = to
    BY <1>5 DEF Leaves
  <2> QED
    BY <1>0, <1>2, <2>1, <2>2, <2>3 DEF OneTorn
<1>8. \A d \in Conns : sessionOf[d] # i
  <2>1. i # 0
    BY <1>0 DEF Ids, Outputs!SessionIds
  <2> QED
    BY <1>0, <2>1 DEF Good, OneLive, Outputs!M
<1>9. Moves(Outputs!M, Outputs!M', i)
  BY <1>0, <1>2, <1>3, <1>5, <1>8 DEF Moves, Leaves, Closing, Outputs!M, Torn
<1>10. Managed(Outputs!M')
  BY <1>1, <1>2, <1>3 DEF Managed, Outputs!M
<1>11. Waits(Tail(q), from, max, sess')
  <2>1. sess'[Head(q)].at # from /\ \A j \in Ids : j # Head(q) => sess'[j].at = sess[j].at
    BY <1>2, <1>5 DEF Leaves, Torn, i
  <2>2. Waits(q, from, max, sess) /\ q # <<>>
    OBVIOUS
  <2>3. Waits(Tail(q), from, max, sess') /\ Head(q) \in Ids /\ sess[Head(q)].at = from
    BY ONLY <2>1, <2>2, max \in Nat, WaitsLess
  <2> QED
    BY <2>3
<1> QED
  BY <1>0, <1>2, <1>5, <1>6, <1>7, <1>9, <1>10, <1>11 DEF i, Leaves

\* The reaper and the overflow worker keep the invariant.
LEMMA TakesKeep ==
    ASSUME OutputsInv, Outputs!ReaperTakes \/ Outputs!OverflowTakes
    PROVE  OutputsInv'
<1>0. /\ Good(Outputs!M) /\ RetireMax \in Nat /\ OverflowMax \in Nat
      /\ Waits(retired, "retired", RetireMax, sess) /\ Waits(overflow, "overflow", OverflowMax, sess)
  BY OutputsAssumption DEF OutputsInv, Good, Outputs!M
<1>1. CASE Outputs!ReaperTakes
  <2> DEFINE i == Head(retired)
  <2>0. /\ retired # <<>> /\ Outputs!Idle("reaping") /\ sess' = [sess EXCEPT ![Head(retired)].at = "reaping"]
        /\ Outputs!Closed(sink, Head(retired), 1) /\ UNCHANGED <<sessionOf, started>>
        /\ "reaping" \in Torn /\ retired' = Tail(retired) /\ overflow' = overflow
        /\ UNCHANGED <<publishing, generation>>
    BY <1>1 DEF Outputs!ReaperTakes, Torn
  <2>1. /\ i \in Ids /\ Moves(Outputs!M, Outputs!M', i) /\ Managed(Outputs!M') /\ SessFine(sess'[i], sink'[i])
        /\ OneTorn(sess') /\ sess[i].at = "retired" /\ sess'[i].at = "reaping"
        /\ Waits(Tail(retired), "retired", RetireMax, sess')
        /\ \A j \in Ids : j # i => sess'[j] = sess[j]
    BY <1>0, <2>0, HeadTaken
  <2> HIDE DEF i
  <2>2. Waits(overflow', "overflow", OverflowMax, sess')
    <3>1. \A j \in Ids : sess[j].at = "overflow" <=> sess'[j].at = "overflow"
      BY <2>1
    <3> QED
      BY <1>0, <2>0, <3>1, WaitsSame
  <2>3. Good(Outputs!M')
    BY <1>0, <2>0, <2>1, <2>2, MoveGood DEF Outputs!M
  <2>4. \A d \in Conns : sessionOf'[d] # 0 => sessionOf'[d] = sessionOf[d] /\ sess'[sessionOf[d]] = sess[sessionOf[d]]
    BY <1>0, <2>0, <2>1 DEF Good, OneLive, Outputs!M
  <2> QED
    BY <2>0, <2>3, <2>4, QuietStep
<1>2. CASE Outputs!OverflowTakes
  <2> DEFINE i == Head(overflow)
  <2>0. /\ overflow # <<>> /\ Outputs!Idle("aborting") /\ sess' = [sess EXCEPT ![Head(overflow)].at = "aborting"]
        /\ Outputs!Closed(sink, Head(overflow), 1) /\ UNCHANGED <<sessionOf, started>>
        /\ "aborting" \in Torn /\ overflow' = Tail(overflow) /\ retired' = retired
        /\ UNCHANGED <<publishing, generation>>
    BY <1>2 DEF Outputs!OverflowTakes, Torn
  <2>1. /\ i \in Ids /\ Moves(Outputs!M, Outputs!M', i) /\ Managed(Outputs!M') /\ SessFine(sess'[i], sink'[i])
        /\ OneTorn(sess') /\ sess[i].at = "overflow" /\ sess'[i].at = "aborting"
        /\ Waits(Tail(overflow), "overflow", OverflowMax, sess')
        /\ \A j \in Ids : j # i => sess'[j] = sess[j]
    BY <1>0, <2>0, HeadTaken
  <2> HIDE DEF i
  <2>2. Waits(retired', "retired", RetireMax, sess')
    <3>1. \A j \in Ids : sess[j].at = "retired" <=> sess'[j].at = "retired"
      BY <2>1
    <3> QED
      BY <1>0, <2>0, <3>1, WaitsSame
  <2>3. Good(Outputs!M')
    BY <1>0, <2>0, <2>1, <2>2, MoveGood DEF Outputs!M
  <2>4. \A d \in Conns : sessionOf'[d] # 0 => sessionOf'[d] = sessionOf[d] /\ sess'[sessionOf[d]] = sess[sessionOf[d]]
    BY <1>0, <2>0, <2>1 DEF Good, OneLive, Outputs!M
  <2> QED
    BY <2>0, <2>3, <2>4, QuietStep
<1> QED
  BY <1>1, <1>2

\* What the invariant says of the variables themselves.
LEMMA Shapes ==
    ASSUME OutputsInv
    PROVE  /\ Good(Outputs!M) /\ DOMAIN sess = Ids /\ DOMAIN sink = Ids /\ DOMAIN sessionOf = Conns
           /\ \A i \in Ids : SessFine(sess[i], sink[i]) /\ SessTyped(sess[i]) /\ DOMAIN sink[i] = OutputIds
           /\ \A i \in Ids : \A k \in OutputIds : SinkFine(sess[i], sink[i][k], k) /\ SinkTyped(sink[i][k])
           /\ OneTorn(sess) /\ OneLive(sessionOf, sess, started) /\ DirsKept(sess, sink)
           /\ Waits(retired, "retired", RetireMax, sess) /\ Waits(overflow, "overflow", OverflowMax, sess)
           /\ Numbered(sess, started)
<1>1. Good(Outputs!M) /\ DOMAIN sess = Ids /\ DOMAIN sink = Ids /\ DOMAIN sessionOf = Conns
  BY DEF OutputsInv, Good, Managed, Outputs!M
<1>2. \A i \in Ids : SessFine(sess[i], sink[i])
  BY DEF OutputsInv, Good, Outputs!M
<1>3. /\ \A i \in Ids : SessTyped(sess[i]) /\ DOMAIN sink[i] = OutputIds
      /\ \A i \in Ids : \A k \in OutputIds : SinkFine(sess[i], sink[i][k], k)
  BY <1>2 DEF SessFine
<1>4. \A i \in Ids : \A k \in OutputIds : SinkTyped(sink[i][k])
  BY <1>3 DEF SinkFine
<1>5. /\ OneTorn(sess) /\ OneLive(sessionOf, sess, started) /\ DirsKept(sess, sink)
      /\ Waits(retired, "retired", RetireMax, sess) /\ Waits(overflow, "overflow", OverflowMax, sess)
      /\ Numbered(sess, started)
  BY DEF OutputsInv, Good, Outputs!M
<1> QED
  BY <1>1, <1>2, <1>3, <1>4, <1>5

\* stop_all keeps it.
LEMMA StopKeeps ==
    ASSUME OutputsInv, NEW c \in Conns, Outputs!StopAll(c)
    PROVE  OutputsInv'
<1> DEFINE i == sessionOf[c]
           e == sess[i]
<1>0. /\ i # 0 /\ Outputs!Idle("stopping") /\ sessionOf' = [sessionOf EXCEPT ![c] = 0]
      /\ sess' = [sess EXCEPT ![i].at = "stopping", ![i].fresh = {}, ![i].last = <<>>]
      /\ Outputs!Closed(sink, i, 1) /\ UNCHANGED <<publishing, generation, retired, overflow, started>>
  BY DEF Outputs!StopAll
<1>1. i \in Ids /\ e.at = "live" /\ e.conn = c /\ SessTyped(e) /\ SessFine(e, sink[i])
  BY <1>0, Shapes DEF OneLive
<1>2. \A d \in Conns : d # c => sessionOf[d] # i
  <2>1. OneLive(sessionOf, sess, started)
    BY Shapes
  <2> QED
    BY <1>0, <1>1, <2>1 DEF OneLive
<1> HIDE DEF i
<1>3. /\ sess'[i] = [e EXCEPT !.at = "stopping", !.fresh = {}, !.last = <<>>] /\ DOMAIN sess' = Ids
      /\ \A j \in Ids : j # i => sess'[j] = sess[j]
  BY <1>0, <1>1, Shapes
<1> HIDE DEF e
<1>4. Closing(i, 1) /\ DOMAIN sink' = Ids
  BY <1>0, <1>1, Shapes, ClosedIs
<1>5. e.step = 1
  BY <1>1 DEF SessTyped
<1>6. Leaves(e, sess'[i], "stopping")
  <2>1. /\ {"at", "conn", "stream", "generation", "last", "fresh", "merged", "step", "complete", "done"}
               \subseteq DOMAIN sess'[i]
        /\ sess'[i].at = "stopping" /\ sess'[i].conn = e.conn /\ sess'[i].stream = e.stream
        /\ sess'[i].generation = e.generation /\ sess'[i].merged = e.merged
        /\ sess'[i].step = e.step /\ sess'[i].complete = e.complete /\ sess'[i].done = e.done
    BY <1>1, <1>3 DEF SessTyped
  <2> QED
    BY <1>1, <1>5, <2>1 DEF Leaves, SessTyped, Places, Torn
<1>7. SessFine(sess'[i], sink'[i])
  BY <1>1, <1>4, <1>5, <1>6, TakenFine DEF Closing, Torn, e
<1>8. OneTorn(sess')
  <2>1. \A j \in Ids : sess[j].at # "stopping"
    BY <1>0 DEF Outputs!Idle, Ids
  <2>2. OneTorn(sess)
    BY Shapes
  <2>3. sess'[i].at = "stopping"
    BY <1>6 DEF Leaves
  <2>4. i \in Ids /\ \A j \in Ids : j # i => sess'[j].at = sess[j].at /\ sess'[j].at # "stopping"
    BY <1>1, <1>3, <2>1
  <2> QED
    BY <2>2, <2>3, <2>4 DEF OneTorn
<1>9. Moves(Outputs!M, Outputs!M', i)
  <2>1. \A d \in Conns : sessionOf'[d] = IF sessionOf[d] = i THEN 0 ELSE sessionOf[d]
    BY <1>0, <1>2, Shapes DEF i
  <2> QED
    BY <1>0, <1>1, <1>3, <1>4, <1>6, <2>1 DEF Moves, Leaves, Closing, Outputs!M, e
<1>10. Managed(Outputs!M')
  BY <1>0, <1>3, <1>4, Shapes DEF Managed, Outputs!M
<1>11. Waits(retired', "retired", RetireMax, sess') /\ Waits(overflow', "overflow", OverflowMax, sess')
  <2>1. \A j \in Ids : sess[j].at = "retired" <=> sess'[j].at = "retired"
    BY <1>1, <1>3, <1>6 DEF Leaves, e
  <2>2. \A j \in Ids : sess[j].at = "overflow" <=> sess'[j].at = "overflow"
    BY <1>1, <1>3, <1>6 DEF Leaves, e
  <2>3. Waits(retired, "retired", RetireMax, sess')
    BY <2>1, Shapes, WaitsSame
  <2>4. Waits(overflow, "overflow", OverflowMax, sess')
    BY <2>2, Shapes, WaitsSame
  <2> QED
    BY <1>0, <2>3, <2>4
<1>12. Good(Outputs!M')
  <2>1. Good(Outputs!M)
    BY Shapes
  <2> QED
    BY <1>1, <1>7, <1>8, <1>9, <1>10, <1>11, <2>1, MoveGood DEF Outputs!M
<1>13. \A d \in Conns : sessionOf'[d] # 0 => sessionOf'[d] = sessionOf[d] /\ sess'[sessionOf[d]] = sess[sessionOf[d]]
  BY <1>0, <1>2, <1>3, Shapes DEF OneLive
<1> QED
  BY <1>0, <1>12, <1>13, QuietStep

\* A step that changes one session in place, or only its outputs.
LEMMA InPlace ==
    ASSUME OutputsInv, NEW i \in Ids, UNCHANGED <<publishing, generation, sessionOf, started, retired, overflow>>,
           DOMAIN sess' = Ids, DOMAIN sink' = Ids,
           \A j \in Ids : j # i => sess'[j] = sess[j] /\ sink'[j] = sink[j],
           SessFine(sess'[i], sink'[i]),
           sess'[i].at = sess[i].at, sess'[i].conn = sess[i].conn, sess'[i].stream = sess[i].stream,
           sess'[i].generation = sess[i].generation, sess'[i].merged = sess[i].merged,
           \A k \in OutputIds : sink'[i][k].dir = "removed" => sink[i][k].dir = "removed"
    PROVE  OutputsInv'
<1>1. Managed(Outputs!M') /\ Changes(Outputs!M, Outputs!M', i)
  BY Shapes DEF Managed, Changes, Outputs!M
<1>2. Good(Outputs!M')
  <2>1. Good(Outputs!M)
    BY Shapes
  <2> QED
    BY <1>1, <2>1, OneChanges DEF Outputs!M
<1>3. \A d \in Conns : sessionOf[d] # 0 => sessionOf[d] \in Ids
  BY Shapes DEF OneLive
<1> QED
  BY <1>2, <1>3, QuietStep

\* The end of a debounce window keeps it.
LEMMA WindowKeeps ==
    ASSUME OutputsInv, NEW c \in Conns, NEW mark, Outputs!WindowElapses(c, mark)
    PROVE  OutputsInv'
<1> DEFINE i == sessionOf[c]
           e == sess[i]
<1>0. /\ i # 0 /\ sess' = [sess EXCEPT ![i].fresh = @ \ {mark}] /\ sink' = sink
      /\ UNCHANGED <<publishing, generation, sessionOf, started, retired, overflow>>
  BY DEF Outputs!WindowElapses
<1>1. i \in Ids /\ SessTyped(e) /\ SessFine(e, sink[i]) /\ DOMAIN sink[i] = OutputIds
      /\ \A k \in OutputIds : SinkFine(e, sink[i][k], k)
  BY <1>0, Shapes DEF OneLive
<1> HIDE DEF i
<1>3. /\ sess'[i] = [e EXCEPT !.fresh = @ \ {mark}] /\ DOMAIN sess' = Ids
      /\ \A j \in Ids : j # i => sess'[j] = sess[j]
  BY <1>0, <1>1, Shapes
<1> HIDE DEF e
<1>4. /\ {"at", "conn", "stream", "generation", "last", "fresh", "merged", "step", "complete", "done"}
             \subseteq DOMAIN sess'[i]
      /\ sess'[i].at = e.at /\ sess'[i].conn = e.conn /\ sess'[i].stream = e.stream
      /\ sess'[i].generation = e.generation /\ sess'[i].merged = e.merged
      /\ sess'[i].step = e.step /\ sess'[i].complete = e.complete /\ sess'[i].done = e.done
  BY <1>1, <1>3 DEF SessTyped
<1>5. SessTyped(sess'[i])
  BY <1>1, <1>4 DEF SessTyped
<1>6. \A k \in OutputIds : SinkFine(sess'[i], sink[i][k], k)
  BY <1>1, <1>4, SinkStays
<1>7. SessFine(sess'[i], sink'[i])
  BY <1>0, <1>1, <1>5, <1>6 DEF SessFine
<1>8. DOMAIN sink' = Ids
  BY <1>0, Shapes
<1> QED
  BY <1>0, <1>1, <1>3, <1>4, <1>7, <1>8, InPlace DEF e

\* stop goes on to the next output: what it leaves behind has ended or has failed.
LEMMA NextStopFine ==
    ASSUME NEW e, SessTyped(e), NEW f, SessTyped(f), e.at \in Torn, f.at = e.at, f.stream = e.stream,
           f.generation = e.generation, f.merged = e.merged, NEW k \in OutputIds, e.step = k, f.step = k + 1,
           f.complete => e.complete,
           NEW n \in OutputIds, NEW o, SinkFine(e, o, n), NEW p, SinkTyped(p),
           p.worker = o.worker, p.child = o.child, p.lost = o.lost, p.queue = o.queue,
           o.failed => p.failed,
           n = k => (p.worker = "done" \/ p.failed) /\ (f.complete => p.worker = "done")
    PROVE  SinkFine(f, p, n)
<1>0. k \in Nat /\ n \in Nat
  BY OutputsAssumption DEF OutputIds
<1>1. n < f.step => n < e.step \/ n = k
  BY <1>0
<1>2. n < f.step => (p.worker = "done" \/ p.failed) /\ (f.complete => p.worker = "done")
  BY <1>1 DEF SinkFine
<1>3. f.at # "dropped"
  BY DEF Torn
<1> QED
  BY <1>2, <1>3 DEF SinkFine

\* stop goes on when a worker has ended or has run out of time.
LEMMA StepsKeep ==
    ASSUME OutputsInv, NEW i \in Ids, NEW k \in OutputIds, Outputs!SinkStopped(i, k) \/ Outputs!SinkTimesOut(i, k)
    PROVE  OutputsInv'
<1> DEFINE e == sess[i]
           os == sink[i]
<1>1. /\ SessTyped(e) /\ DOMAIN os = OutputIds /\ \A n \in OutputIds : SinkFine(e, os[n], n) /\ SinkTyped(os[n])
      /\ DOMAIN sess = Ids /\ DOMAIN sink = Ids
  BY Shapes
<1>2. /\ e.at \in Torn /\ e.step = k /\ UNCHANGED <<publishing, generation, sessionOf, started, retired, overflow>>
      /\ \/ os[k].worker = "done" /\ sess' = [sess EXCEPT ![i].step = k + 1]
         \/ sess' = [sess EXCEPT ![i].step = k + 1, ![i].complete = FALSE]
  BY DEF Outputs!SinkStopped, Outputs!SinkTimesOut, Outputs!TornDown, Torn
<1>3. /\ DOMAIN sess' = Ids /\ \A j \in Ids : j # i => sess'[j] = sess[j]
      /\ \/ os[k].worker = "done" /\ sess'[i] = [e EXCEPT !.step = k + 1]
         \/ sess'[i] = [e EXCEPT !.step = k + 1, !.complete = FALSE]
  BY <1>1, <1>2
<1> HIDE DEF e
<1>4. /\ {"at", "conn", "stream", "generation", "last", "fresh", "merged", "step", "complete", "done"}
             \subseteq DOMAIN sess'[i]
      /\ sess'[i].at = e.at /\ sess'[i].conn = e.conn /\ sess'[i].stream = e.stream
      /\ sess'[i].generation = e.generation /\ sess'[i].merged = e.merged
      /\ sess'[i].step = k + 1 /\ sess'[i].done = e.done
      /\ sess'[i].complete => e.complete
      /\ sess'[i].complete => os[k].worker = "done"
  BY <1>1, <1>3 DEF SessTyped
<1>5. SessTyped(sess'[i])
  <2>1. k \in 1 .. Len(Sinks) /\ Len(Sinks) \in Nat
    BY OutputsAssumption DEF OutputIds
  <2>2. k + 1 \in 1 .. Len(Sinks) + 1
    BY <2>1
  <2>3. e.at \notin {"unused", "live", "retired", "overflow", "dropped", "gone"} /\ e.done # "sent"
    BY <1>1, <1>2 DEF SessTyped, Torn
  <2> QED
    BY <1>1, <1>4, <2>2, <2>3 DEF SessTyped
<1>6. CASE Outputs!SinkStopped(i, k)
  <2>1. os[k].worker = "done" /\ Closing(i, k + 1) /\ DOMAIN sink' = Ids
    <3>1. os[k].worker = "done" /\ Outputs!Closed(sink, i, k + 1)
      BY <1>6 DEF Outputs!SinkStopped
    <3> QED
      BY <1>1, <3>1, ClosedIs
  <2>2. OneClosed(os, sink'[i], k + 1) /\ \A j \in Ids : j # i => sink'[j] = sink[j]
    BY <2>1 DEF Closing
  <2> HIDE DEF os
  <2>3. /\ DOMAIN sink'[i] = OutputIds
        /\ \A n \in OutputIds :
              /\ SinkTyped(sink'[i][n]) /\ sink'[i][n].worker = os[n].worker /\ sink'[i][n].child = os[n].child
              /\ sink'[i][n].lost = os[n].lost /\ sink'[i][n].queue = os[n].queue
              /\ sink'[i][n].failed = os[n].failed /\ sink'[i][n].dir = os[n].dir
    BY <1>1, <2>2, ClosedDoes
  <2>4. ASSUME NEW n \in OutputIds PROVE SinkFine(sess'[i], sink'[i][n], n)
    <3>1. n = k => sink'[i][n].worker = "done"
      BY <2>1, <2>3
    <3>2. SinkFine(e, os[n], n)
      BY <1>1
    <3> QED
      BY <1>1, <1>2, <1>4, <1>5, <2>3, <3>1, <3>2, NextStopFine
  <2>5. SessFine(sess'[i], sink'[i])
    BY <1>5, <2>3, <2>4 DEF SessFine
  <2>6. \A n \in OutputIds : sink'[i][n].dir = "removed" => sink[i][n].dir = "removed"
    BY <2>3 DEF os
  <2> QED
    BY <1>2, <1>3, <1>4, <2>1, <2>2, <2>5, <2>6, InPlace DEF e
<1>7. CASE Outputs!SinkTimesOut(i, k)
  <2> DEFINE ms == [os EXCEPT ![k].failed = TRUE]
  <2>1. /\ sink' = IF k + 1 \in OutputIds THEN [[sink EXCEPT ![i][k].failed = TRUE] EXCEPT ![i][k + 1].open = FALSE]
                   ELSE [sink EXCEPT ![i][k].failed = TRUE]
        /\ ~sess'[i].complete
    <3>1. sess' = [sess EXCEPT ![i].step = k + 1, ![i].complete = FALSE]
      BY <1>7 DEF Outputs!SinkTimesOut
    <3>2. ~sess'[i].complete
      BY <1>1, <3>1 DEF SessTyped, e
    <3> QED
      BY <1>7, <3>2 DEF Outputs!SinkTimesOut, Outputs!Closed, Outputs!Outputs, OutputIds
  <2>2. DOMAIN sink' = Ids /\ OneClosed(ms, sink'[i], k + 1) /\ \A j \in Ids : j # i => sink'[j] = sink[j]
    BY <1>1, <2>1 DEF OneClosed
  <2>3. /\ DOMAIN ms = OutputIds
        /\ \A n \in OutputIds :
              /\ SinkTyped(ms[n]) /\ ms[n].worker = os[n].worker /\ ms[n].child = os[n].child
              /\ ms[n].lost = os[n].lost /\ ms[n].queue = os[n].queue
              /\ (os[n].failed => ms[n].failed) /\ ms[n].dir = os[n].dir /\ (n = k => ms[n].failed)
    <3>1. ASSUME NEW n \in OutputIds
          PROVE  /\ SinkTyped(ms[n]) /\ ms[n].worker = os[n].worker /\ ms[n].child = os[n].child
                 /\ ms[n].lost = os[n].lost /\ ms[n].queue = os[n].queue
                 /\ (os[n].failed => ms[n].failed) /\ ms[n].dir = os[n].dir /\ (n = k => ms[n].failed)
      <4>1. ms[n] = IF n = k THEN [os[n] EXCEPT !.failed = TRUE] ELSE os[n]
        BY <1>1
      <4> HIDE DEF ms, os
      <4>2. {"open", "failed", "queue", "worker", "child", "dir", "lost"} \subseteq DOMAIN os[n]
        BY <1>1 DEF SinkTyped
      <4>3. /\ {"open", "failed", "queue", "worker", "child", "dir", "lost"} \subseteq DOMAIN ms[n]
            /\ ms[n].worker = os[n].worker /\ ms[n].child = os[n].child
            /\ ms[n].lost = os[n].lost /\ ms[n].queue = os[n].queue
            /\ (os[n].failed => ms[n].failed) /\ ms[n].dir = os[n].dir /\ (n = k => ms[n].failed)
        BY <4>1, <4>2
      <4> QED
        BY <1>1, <4>3 DEF SinkTyped
    <3> QED
      BY <1>1, <3>1
  <2> HIDE DEF ms, os
  <2>4. /\ DOMAIN sink'[i] = OutputIds
        /\ \A n \in OutputIds :
              /\ SinkTyped(sink'[i][n]) /\ sink'[i][n].worker = ms[n].worker /\ sink'[i][n].child = ms[n].child
              /\ sink'[i][n].lost = ms[n].lost /\ sink'[i][n].queue = ms[n].queue
              /\ sink'[i][n].failed = ms[n].failed /\ sink'[i][n].dir = ms[n].dir
    BY <2>2, <2>3, ClosedDoes
  <2>5. \A n \in OutputIds :
              /\ SinkTyped(sink'[i][n]) /\ sink'[i][n].worker = os[n].worker /\ sink'[i][n].child = os[n].child
              /\ sink'[i][n].lost = os[n].lost /\ sink'[i][n].queue = os[n].queue
              /\ (os[n].failed => sink'[i][n].failed) /\ sink'[i][n].dir = os[n].dir
              /\ (n = k => sink'[i][n].failed)
    BY <2>3, <2>4
  <2>6. ASSUME NEW n \in OutputIds PROVE SinkFine(sess'[i], sink'[i][n], n)
    <3> DEFINE p == sink'[i][n]
               o == os[n]
               f == sess'[i]
    <3>1. /\ SinkTyped(p) /\ p.worker = o.worker /\ p.child = o.child /\ p.lost = o.lost /\ p.queue = o.queue
          /\ o.failed => p.failed
          /\ n = k => p.failed
      BY <2>5
    <3>2. SinkFine(e, o, n) /\ SessTyped(e)
      BY <1>1
    <3>3. /\ SessTyped(f) /\ f.at = e.at /\ f.stream = e.stream /\ f.generation = e.generation
          /\ f.merged = e.merged /\ f.step = k + 1 /\ ~f.complete /\ e.at \in Torn /\ e.step = k
      BY <1>2, <1>4, <1>5, <2>1
    <3> HIDE DEF p, o, f
    <3>4. SinkFine(f, p, n)
      BY <3>1, <3>2, <3>3, NextStopFine
    <3> QED
      BY <3>4 DEF f, p
  <2>7. SessFine(sess'[i], sink'[i])
    BY <1>5, <2>4, <2>6 DEF SessFine
  <2>8. \A n \in OutputIds : sink'[i][n].dir = "removed" => sink[i][n].dir = "removed"
    BY <2>5 DEF os
  <2> QED
    BY <1>2, <1>3, <1>4, <2>2, <2>7, <2>8, InPlace DEF e
<1> QED
  BY <1>6, <1>7

\* teardown_hooks keeps the invariant.
LEMMA HooksKeep ==
    ASSUME OutputsInv, NEW i \in Ids, Outputs!TeardownHooks(i)
    PROVE  OutputsInv'
<1> DEFINE e == sess[i]
<1>1. /\ SessTyped(e) /\ DOMAIN sink[i] = OutputIds /\ \A n \in OutputIds : SinkFine(e, sink[i][n], n)
      /\ DOMAIN sess = Ids /\ DOMAIN sink = Ids /\ DOMAIN sessionOf = Conns /\ OneTorn(sess) /\ Good(Outputs!M)
      /\ OneLive(sessionOf, sess, started)
  BY Shapes
<1>2. /\ e.at \in Torn /\ e.step = Len(Sinks) + 1 /\ sink' = sink
      /\ UNCHANGED <<publishing, generation, sessionOf, started, retired, overflow>>
      /\ sess' = [sess EXCEPT ![i].at = "gone", ![i].done = IF e.complete THEN "sent" ELSE "suppressed"]
  BY DEF Outputs!TeardownHooks, Outputs!TornDown, Torn
<1>3. /\ DOMAIN sess' = Ids /\ \A j \in Ids : j # i => sess'[j] = sess[j]
      /\ sess'[i] = [e EXCEPT !.at = "gone", !.done = IF e.complete THEN "sent" ELSE "suppressed"]
  BY <1>1, <1>2
<1> HIDE DEF e
<1>4. /\ {"at", "conn", "stream", "generation", "last", "fresh", "merged", "step", "complete", "done"}
             \subseteq DOMAIN sess'[i]
      /\ sess'[i].at = "gone" /\ sess'[i].conn = e.conn /\ sess'[i].stream = e.stream
      /\ sess'[i].generation = e.generation /\ sess'[i].merged = e.merged
      /\ sess'[i].step = e.step /\ sess'[i].complete = e.complete
      /\ sess'[i].done = "sent" => e.complete
  BY <1>1, <1>3 DEF SessTyped
<1>5. SessTyped(sess'[i])
  <2>1. e.at # "unused"
    BY <1>2 DEF Torn
  <2> QED
    BY <1>1, <1>2, <1>4, <2>1 DEF SessTyped, Places
<1>6. \A n \in OutputIds : SinkFine(sess'[i], sink[i][n], n)
  BY <1>1, <1>2, <1>4 DEF SinkFine, Torn
<1>7. SessFine(sess'[i], sink'[i])
  BY <1>1, <1>2, <1>5, <1>6 DEF SessFine
<1>8. OneTorn(sess')
  <2>1. \A j \in Ids : j # i => sess'[j].at = sess[j].at
    BY <1>3
  <2>2. sess'[i].at \notin Torn
    BY <1>4 DEF Torn
  <2> QED
    BY <1>1, <2>1, <2>2 DEF OneTorn
<1>9. \A d \in Conns : sessionOf[d] # i
  <2>1. i # 0 /\ e.at # "live"
    BY <1>2 DEF Ids, Outputs!SessionIds, Torn
  <2> QED
    BY <1>1, <2>1 DEF OneLive, e
<1>10. Moves(Outputs!M, Outputs!M', i) /\ Managed(Outputs!M')
  <2>1. e.at # "unused"
    BY <1>2 DEF Torn
  <2>2. Moves(Outputs!M, Outputs!M', i)
    BY <1>2, <1>3, <1>4, <1>9, <2>1 DEF Moves, Outputs!M, e
  <2>3. Managed(Outputs!M')
    BY <1>1, <1>2, <1>3 DEF Managed, Outputs!M
  <2> QED
    BY <2>2, <2>3
<1>11. Waits(retired', "retired", RetireMax, sess') /\ Waits(overflow', "overflow", OverflowMax, sess')
  <2>0. e.at \notin {"retired", "overflow"}
    BY <1>2 DEF Torn
  <2>1. \A j \in Ids : sess[j].at = "retired" <=> sess'[j].at = "retired"
    BY <1>3, <1>4, <2>0 DEF e
  <2>2. \A j \in Ids : sess[j].at = "overflow" <=> sess'[j].at = "overflow"
    BY <1>3, <1>4, <2>0 DEF e
  <2>3. Waits(retired, "retired", RetireMax, sess')
    BY <2>1, Shapes, WaitsSame
  <2>4. Waits(overflow, "overflow", OverflowMax, sess')
    BY <2>2, Shapes, WaitsSame
  <2> QED
    BY <1>2, <2>3, <2>4
<1>12. Good(Outputs!M')
  BY <1>1, <1>7, <1>8, <1>10, <1>11, MoveGood DEF Outputs!M
<1>13. \A d \in Conns : sessionOf'[d] # 0 => sessionOf'[d] = sessionOf[d] /\ sess'[sessionOf[d]] = sess[sessionOf[d]]
  BY <1>1, <1>2, <1>3, <1>9 DEF OneLive
<1> QED
  BY <1>2, <1>12, <1>13, QuietStep

\* A worker or a monitor changes its own output only.
LEMMA WorkedFine ==
    ASSUME NEW e, NEW k, NEW o, SinkFine(e, o, k), NEW p, SinkTyped(p),
           o.failed => p.failed, o.worker = "done" => p.worker = "done", p.lost => p.failed,
           p.worker = "done" /\ ~p.failed => p.child # "run",
           \A n \in DOMAIN p.queue : \E l \in DOMAIN o.queue : p.queue[n] = o.queue[l]
    PROVE  SinkFine(e, p, k)
<1>1. \A n \in DOMAIN p.queue : p.queue[n].stream = e.stream /\ (p.queue[n].generation = e.generation \/ e.merged)
  BY DEF SinkFine
<1> QED
  BY <1>1 DEF SinkFine

\* A worker that leaves its output fine keeps the invariant.
LEMMA WorkKeeps ==
    ASSUME OutputsInv, NEW i \in Ids, NEW k \in OutputIds, NEW p, Outputs!Work(i, k, p),
           SinkFine(sess[i], p, k), p.dir = sink[i][k].dir
    PROVE  OutputsInv'
<1>1. /\ SessTyped(sess[i]) /\ DOMAIN sink[i] = OutputIds /\ \A n \in OutputIds : SinkFine(sess[i], sink[i][n], n)
      /\ DOMAIN sess = Ids /\ DOMAIN sink = Ids
  BY Shapes
<1>2. /\ sink' = [sink EXCEPT ![i][k] = p] /\ sess' = sess
      /\ UNCHANGED <<publishing, generation, sessionOf, started, retired, overflow>>
  BY DEF Outputs!Work
<1>3. /\ DOMAIN sink' = Ids /\ \A j \in Ids : j # i => sink'[j] = sink[j]
      /\ DOMAIN sink'[i] = OutputIds /\ \A n \in OutputIds : sink'[i][n] = IF n = k THEN p ELSE sink[i][n]
  BY <1>1, <1>2
<1>4. SessFine(sess'[i], sink'[i])
  BY <1>1, <1>2, <1>3 DEF SessFine
<1>5. \A n \in OutputIds : sink'[i][n].dir = "removed" => sink[i][n].dir = "removed"
  BY <1>3
<1> QED
  BY <1>1, <1>2, <1>3, <1>4, <1>5, InPlace

\* The receiver is dropped.
LEMMA UnreadDoes ==
    ASSUME NEW o, SinkTyped(o)
    PROVE  LET u == Outputs!Unread(o) IN
           /\ SinkTyped(u) /\ u.queue = <<>> /\ u.worker = o.worker /\ u.child = o.child /\ u.dir = o.dir
           /\ u.failed = o.failed
           /\ u.lost => o.lost \/ o.queue # <<>> \/ o.worker = "writing"
<1> DEFINE u == Outputs!Unread(o)
<1>0. <<>> \in Seq(Tag) /\ Len(<<>>) = 0 /\ SinkQueueMax \in Nat
  BY OutputsAssumption
<1>1. /\ {"open", "failed", "queue", "worker", "child", "dir", "lost"} \subseteq DOMAIN u
      /\ u.queue = <<>> /\ u.worker = o.worker /\ u.child = o.child /\ u.dir = o.dir /\ u.failed = o.failed
  BY DEF Outputs!Unread, SinkTyped
<1>2. u.lost => o.lost \/ o.queue # <<>> \/ o.worker = "writing"
  BY DEF Outputs!Unread, SinkTyped
<1> HIDE DEF u
<1> QED
  BY <1>0, <1>1, <1>2 DEF SinkTyped, u

\* The worker, the child and the monitor keep it.
LEMMA WorkersKeep ==
    ASSUME OutputsInv, NEW i \in Ids, NEW k \in OutputIds,
           \/ Outputs!WorkerFailsAtStart(i, k) \/ Outputs!Recv(i, k) \/ Outputs!WorkerEnds(i, k)
           \/ Outputs!WriteFails(i, k) \/ Outputs!Written(i, k) \/ Outputs!MonitorKills(i, k)
           \/ Outputs!ChildDies(i, k)
    PROVE  OutputsInv'
<1> DEFINE o == sink[i][k]
           e == sess[i]
           u == Outputs!Unread(o)
<1>0. SinkFine(e, o, k) /\ SinkTyped(o)
  BY Shapes
<1>1. /\ SinkTyped(u) /\ u.queue = <<>> /\ u.worker = o.worker /\ u.child = o.child /\ u.dir = o.dir
      /\ u.failed = o.failed
      /\ u.lost => o.lost \/ o.queue # <<>> \/ o.worker = "writing"
  BY <1>0, UnreadDoes
<1>2. /\ {"open", "failed", "queue", "worker", "child", "dir", "lost"} \subseteq DOMAIN o
      /\ {"open", "failed", "queue", "worker", "child", "dir", "lost"} \subseteq DOMAIN u
      /\ o.queue \in Seq(Tag) /\ (o.lost => o.failed) /\ (o.worker = "done" /\ ~o.failed => o.child # "run")
  BY <1>0, <1>1 DEF SinkFine, SinkTyped
<1>3. CASE Outputs!WorkerFailsAtStart(i, k)
  <2> DEFINE p == [u EXCEPT !.worker = "done", !.failed = TRUE, !.child = IF Outputs!FFmpeg(k) THEN "run" ELSE "none"]
  <2>1. Outputs!Work(i, k, p)
    BY <1>3 DEF Outputs!WorkerFailsAtStart
  <2> HIDE DEF u, o, e
  <2>2. /\ {"open", "failed", "queue", "worker", "child", "dir", "lost"} \subseteq DOMAIN p
        /\ p.worker = "done" /\ p.failed /\ p.queue = <<>> /\ p.dir = o.dir
    BY <1>1, <1>2
  <2> HIDE DEF p
  <2>3. SinkTyped(p)
    BY <1>1, <2>2 DEF SinkTyped
  <2>4. SinkFine(e, p, k)
    BY <1>0, <2>2, <2>3, WorkedFine
  <2> QED
    BY <2>1, <2>2, <2>4, WorkKeeps DEF o, e
<1>4. CASE Outputs!Recv(i, k)
  <2> DEFINE p == [o EXCEPT !.worker = "writing", !.queue = Tail(@)]
  <2>1. Outputs!Work(i, k, p) /\ o.worker = "idle" /\ o.queue # <<>>
    BY <1>4 DEF Outputs!Recv
  <2> HIDE DEF u, o, e
  <2>2. /\ {"open", "failed", "queue", "worker", "child", "dir", "lost"} \subseteq DOMAIN p
        /\ p.worker = "writing" /\ p.failed = o.failed /\ p.queue = Tail(o.queue) /\ p.dir = o.dir /\ p.lost = o.lost
    BY <1>2
  <2> HIDE DEF p
  <2>3. /\ p.queue \in Seq(Tag) /\ Len(o.queue) \in Nat /\ Len(o.queue) > 0 /\ Len(p.queue) = Len(o.queue) - 1
        /\ \A n \in 1 .. Len(p.queue) : p.queue[n] = o.queue[n + 1]
    BY <1>2, <2>1, <2>2, HeadTailProperties
  <2>4. SinkTyped(p)
    <3>1. Len(o.queue) <= SinkQueueMax /\ SinkQueueMax \in Nat
      BY <1>0, OutputsAssumption DEF SinkTyped
    <3>2. Len(p.queue) <= SinkQueueMax
      BY <2>3, <3>1
    <3> QED
      BY <2>2, <2>3, <3>2 DEF SinkTyped
  <2>5. \A n \in DOMAIN p.queue : \E l \in DOMAIN o.queue : p.queue[n] = o.queue[l]
    <3> TAKE n \in DOMAIN p.queue
    <3>1. n \in 1 .. Len(p.queue) /\ n + 1 \in 1 .. Len(o.queue) /\ DOMAIN o.queue = 1 .. Len(o.queue)
      BY <1>2, <2>3
    <3> QED
      BY <2>3, <3>1
  <2>6. SinkFine(e, p, k)
    BY <1>0, <1>2, <2>1, <2>2, <2>4, <2>5, WorkedFine
  <2> QED
    BY <2>1, <2>2, <2>6, WorkKeeps DEF o, e
<1>5. CASE Outputs!WorkerEnds(i, k)
  <2> DEFINE p == [u EXCEPT !.worker = "done", !.child = IF @ = "run" THEN "dead" ELSE @]
  <2>1. Outputs!Work(i, k, p) /\ o.worker = "idle" /\ (o.failed \/ o.queue = <<>>)
    BY <1>5 DEF Outputs!WorkerEnds
  <2> HIDE DEF u, o, e
  <2>2. /\ {"open", "failed", "queue", "worker", "child", "dir", "lost"} \subseteq DOMAIN p
        /\ p.worker = "done" /\ p.failed = u.failed /\ p.queue = <<>> /\ p.dir = o.dir /\ p.lost = u.lost
        /\ p.child # "run"
    BY <1>1, <1>2
  <2> HIDE DEF p
  <2>3. SinkTyped(p)
    BY <1>1, <2>2 DEF SinkTyped
  <2>4. p.lost => p.failed
    BY <1>1, <1>2, <2>1, <2>2
  <2>5. o.failed => p.failed
    BY <1>1, <2>2
  <2>6. SinkFine(e, p, k)
    BY <1>0, <2>2, <2>3, <2>4, <2>5, WorkedFine
  <2> QED
    BY <2>1, <2>2, <2>6, WorkKeeps DEF o, e
<1>6. CASE Outputs!WriteFails(i, k)
  <2> DEFINE p == [u EXCEPT !.worker = "done", !.failed = TRUE]
  <2>1. Outputs!Work(i, k, p)
    BY <1>6 DEF Outputs!WriteFails
  <2> HIDE DEF u, o, e
  <2>2. /\ {"open", "failed", "queue", "worker", "child", "dir", "lost"} \subseteq DOMAIN p
        /\ p.worker = "done" /\ p.failed /\ p.queue = <<>> /\ p.dir = o.dir
    BY <1>1, <1>2
  <2> HIDE DEF p
  <2>3. SinkTyped(p)
    BY <1>1, <2>2 DEF SinkTyped
  <2>4. SinkFine(e, p, k)
    BY <1>0, <2>2, <2>3, WorkedFine
  <2> QED
    BY <2>1, <2>2, <2>4, WorkKeeps DEF o, e
<1>7. CASE Outputs!Written(i, k)
  <2> DEFINE p == [o EXCEPT !.worker = "idle"]
  <2>1. Outputs!Work(i, k, p) /\ o.worker = "writing"
    BY <1>7 DEF Outputs!Written
  <2> HIDE DEF u, o, e
  <2>2. /\ {"open", "failed", "queue", "worker", "child", "dir", "lost"} \subseteq DOMAIN p
        /\ p.worker = "idle" /\ p.failed = o.failed /\ p.queue = o.queue /\ p.dir = o.dir /\ p.lost = o.lost
    BY <1>2
  <2> HIDE DEF p
  <2>3. SinkTyped(p)
    BY <1>0, <2>2 DEF SinkTyped
  <2>4. SinkFine(e, p, k)
    BY <1>0, <1>2, <2>1, <2>2, <2>3, WorkedFine
  <2> QED
    BY <2>1, <2>2, <2>4, WorkKeeps DEF o, e
<1>8. CASE Outputs!MonitorKills(i, k) \/ Outputs!ChildDies(i, k)
  <2> DEFINE p == [o EXCEPT !.child = "dead"]
  <2>1. Outputs!Work(i, k, p)
    BY <1>8 DEF Outputs!MonitorKills, Outputs!ChildDies
  <2> HIDE DEF u, o, e
  <2>2. /\ {"open", "failed", "queue", "worker", "child", "dir", "lost"} \subseteq DOMAIN p
        /\ p.worker = o.worker /\ p.failed = o.failed /\ p.queue = o.queue /\ p.dir = o.dir /\ p.lost = o.lost
        /\ p.child = "dead"
    BY <1>2
  <2> HIDE DEF p
  <2>3. SinkTyped(p)
    BY <1>0, <2>2 DEF SinkTyped
  <2>4. SinkFine(e, p, k)
    BY <1>0, <1>2, <2>2, <2>3, WorkedFine
  <2> QED
    BY <2>1, <2>2, <2>4, WorkKeeps DEF o, e
<1> QED
  BY <1>3, <1>4, <1>5, <1>6, <1>7, <1>8

\* A worker starts, and removes the directories of its stream with a smaller name.
LEMMA StartKeeps ==
    ASSUME OutputsInv, NEW i \in Ids, NEW k \in OutputIds, Outputs!WorkerStarts(i, k)
    PROVE  OutputsInv'
<1> DEFINE ch == IF Outputs!FFmpeg(k) THEN "run" ELSE "none"
           di == IF Sinks[k] = "hls" THEN "open" ELSE "none"
           cl == Outputs!Cleaned(i, k)
<1>0. /\ sess[i].at # "unused" /\ sink[i][k].worker = "born" /\ sess' = sess
      /\ sink' = [cl EXCEPT ![i][k].worker = "idle", ![i][k].child = ch, ![i][k].dir = di]
      /\ UNCHANGED <<publishing, generation, sessionOf, started, retired, overflow>>
  BY DEF Outputs!WorkerStarts
<1>1. /\ \A j \in Ids : SessTyped(sess[j]) /\ DOMAIN sink[j] = OutputIds
      /\ \A j \in Ids : \A n \in OutputIds : SinkFine(sess[j], sink[j][n], n) /\ SinkTyped(sink[j][n])
      /\ DOMAIN sess = Ids /\ DOMAIN sink = Ids /\ DOMAIN sessionOf = Conns
  BY Shapes
<1>2. /\ DOMAIN cl = Ids /\ cl[i] = sink[i]
      /\ \A j \in Ids : j # i => cl[j] = sink[j] \/ (Outputs!Older(i, j) /\ cl[j] = [sink[j] EXCEPT ![k].dir = "removed"])
  <2>1. ~Outputs!Older(i, i)
    BY DEF Outputs!Older, Ids, Outputs!SessionIds
  <2>2. cl = [j \in Ids |-> IF Sinks[k] = "hls" /\ Outputs!Older(i, j) /\ sink[j][k].dir = "open"
                            THEN [sink[j] EXCEPT ![k].dir = "removed"] ELSE sink[j]]
    BY DEF Outputs!Cleaned, Ids
  <2> HIDE DEF cl
  <2> QED
    BY <2>1, <2>2
<1> HIDE DEF cl, ch
<1>3. /\ DOMAIN sink' = Ids /\ \A j \in Ids : j # i => sink'[j] = cl[j]
      /\ sink'[i] = [sink[i] EXCEPT ![k].worker = "idle", ![k].child = ch, ![k].dir = di]
  BY <1>0, <1>2
<1>4. /\ DOMAIN sink'[i] = OutputIds
      /\ \A n \in OutputIds : sink'[i][n] = IF n = k THEN [sink[i][n] EXCEPT !.worker = "idle", !.child = ch, !.dir = di]
                                         ELSE sink[i][n]
  BY <1>1, <1>3
<1>5. SessFine(sess[i], sink'[i])
  <2> DEFINE o == sink[i][k]
             p == sink'[i][k]
  <2>1. SinkFine(sess[i], o, k) /\ SinkTyped(o) /\ o.worker = "born"
    BY <1>0, <1>1
  <2>2. p = [o EXCEPT !.worker = "idle", !.child = ch, !.dir = di]
    BY <1>4
  <2> HIDE DEF o, p, di
  <2>3. /\ {"open", "failed", "queue", "worker", "child", "dir", "lost"} \subseteq DOMAIN p
        /\ p.worker = "idle" /\ p.failed = o.failed /\ p.queue = o.queue /\ p.lost = o.lost
    BY <2>1, <2>2 DEF SinkTyped
  <2>4. SinkTyped(p) /\ (o.lost => o.failed)
    BY <2>1, <2>3 DEF SinkTyped, SinkFine
  <2>5. SinkFine(sess[i], p, k)
    BY <2>1, <2>3, <2>4, WorkedFine
  <2> QED
    BY <1>1, <1>4, <2>5 DEF SessFine, p
<1>6. ASSUME NEW j \in Ids, j # i PROVE SessFine(sess[j], sink'[j])
  <2>1. CASE sink'[j] = sink[j]
    BY <1>1, <2>1 DEF SessFine
  <2>2. CASE sink'[j] = [sink[j] EXCEPT ![k].dir = "removed"]
    <3> DEFINE o == sink[j][k]
               p == sink'[j][k]
    <3>1. SinkFine(sess[j], o, k) /\ SinkTyped(o) /\ p = [o EXCEPT !.dir = "removed"]
      BY <1>1, <2>2
    <3> HIDE DEF o, p
    <3>2. /\ {"open", "failed", "queue", "worker", "child", "dir", "lost"} \subseteq DOMAIN p
          /\ p.worker = o.worker /\ p.failed = o.failed /\ p.queue = o.queue /\ p.lost = o.lost /\ p.child = o.child
      BY <3>1 DEF SinkTyped
    <3>3. SinkTyped(p)
      BY <3>1, <3>2 DEF SinkTyped
    <3>4. SinkFine(sess[j], p, k)
      BY <3>1, <3>2, <3>3 DEF SinkFine
    <3>5. DOMAIN sink'[j] = OutputIds /\ \A n \in OutputIds : n # k => sink'[j][n] = sink[j][n]
      BY <1>1, <2>2
    <3> QED
      BY <1>1, <3>4, <3>5 DEF SessFine, p
  <2> QED
    BY <1>2, <1>3, <1>6, <2>1, <2>2
<1>7. DirsKept(sess, sink')
  <2>1. ASSUME NEW j \in Ids, NEW n \in OutputIds, sess[j].at = "live", sink'[j][n].dir = "removed"
        PROVE  Newer(sess, j)
    <3>0. OneLive(sessionOf, sess, started) /\ DirsKept(sess, sink) /\ Numbered(sess, started)
      BY Shapes
    <3>1. CASE sink[j][n].dir = "removed"
      BY <2>1, <3>0, <3>1 DEF DirsKept
    <3>2. CASE sink[j][n].dir # "removed"
      <4>1. j # i
        <5> SUFFICES ASSUME j = i PROVE FALSE
          OBVIOUS
        <5>1. n = k
          BY <1>4, <2>1, <3>2
        <5>2. sink'[j][n].dir = di
          BY <1>1, <1>4, <5>1 DEF SinkTyped
        <5> QED
          BY <2>1, <5>2
      <4>2. Outputs!Older(i, j)
        BY <1>2, <1>3, <2>1, <3>2, <4>1
      <4>3. j < i /\ sess[j].stream = sess[i].stream
        BY <4>2 DEF Outputs!Older
      <4>4. i \in Nat /\ j \in Nat /\ j # 0 /\ started \in Nat
        BY <3>0 DEF Ids, Outputs!SessionIds, Numbered
      <4>5. i <= started
        BY <1>0, <3>0, <4>4 DEF Numbered
      <4>6. sessionOf[sess[j].conn] = j /\ sess[j].conn \in Conns
        BY <1>1, <2>1, <3>0 DEF OneLive, SessTyped
      <4>7. sess[i].conn # sess[j].conn
        BY <3>0, <4>3, <4>4, <4>5, <4>6 DEF OneLive
      <4> QED
        BY <4>3, <4>4, <4>7 DEF Newer
    <3> QED
      BY <3>1, <3>2
  <2> QED
    BY <2>1 DEF DirsKept
<1>8. Good(Outputs!M')
  <2>1. Managed(Outputs!M')
    BY <1>0, <1>1, <1>3 DEF Managed, Outputs!M
  <2>2. \A j \in Ids : SessFine(sess'[j], sink'[j])
    BY <1>0, <1>5, <1>6
  <2>3. /\ Numbered(sess, started) /\ OneLive(sessionOf, sess, started) /\ OneTorn(sess)
        /\ Waits(retired, "retired", RetireMax, sess) /\ Waits(overflow, "overflow", OverflowMax, sess)
    BY Shapes
  <2> QED
    BY <1>0, <1>7, <2>1, <2>2, <2>3 DEF Good, Outputs!M
<1> QED
  BY <1>0, <1>8, QuietStep

\* The invariant holds at the start.
LEMMA OutputsStart ==
    ASSUME Outputs!Init
    PROVE  OutputsInv
<1> DEFINE N == Outputs!NoSession
           K == Outputs!NewSink
<1>1. /\ publishing = [c \in Conns |-> "none"] /\ generation = [c \in Conns |-> 0] /\ sessionOf = [c \in Conns |-> 0]
      /\ sess = [i \in Ids |-> N] /\ sink = [i \in Ids |-> [k \in OutputIds |-> K]]
      /\ retired = <<>> /\ overflow = <<>> /\ started = 0
  BY DEF Outputs!Init, Outputs!None, Ids, OutputIds, Outputs!Outputs
<1>2. /\ {"at", "conn", "stream", "generation", "last", "fresh", "merged", "step", "complete", "done"} \subseteq DOMAIN N
      /\ N.at = "unused" /\ N.stream = "none" /\ N.step = 1 /\ N.done = "no"
  BY DEF Outputs!NoSession, Outputs!None
<1>3. /\ {"open", "failed", "queue", "worker", "child", "dir", "lost"} \subseteq DOMAIN K
      /\ ~K.lost /\ K.worker = "born" /\ K.queue = <<>> /\ K.dir = "none"
  BY DEF Outputs!NewSink
<1>4. Len(Sinks) \in Nat /\ {SinkQueueMax, RetireMax, OverflowMax, MaxSessions} \subseteq Nat
  BY OutputsAssumption
<1> HIDE DEF N, K
<1>5. SessTyped(N) /\ SinkTyped(K)
  <2>1. <<>> \in Seq(Tag) /\ Len(<<>>) = 0
    OBVIOUS
  <2>2. SinkTyped(K)
    BY <1>3, <1>4, <2>1 DEF SinkTyped
  <2>3. SessTyped(N)
    BY <1>2, <1>4 DEF SessTyped, Places
  <2> QED
    BY <2>2, <2>3
<1>6. \A k \in OutputIds : SinkFine(N, K, k)
  BY <1>2, <1>3, <1>5 DEF SinkFine, Torn
<1>7. \A i \in Ids : SessFine(sess[i], sink[i])
  BY <1>1, <1>5, <1>6 DEF SessFine
<1>8. Numbered(sess, started)
  BY <1>1, <1>2, <1>4 DEF Numbered, Ids, Outputs!SessionIds
<1>9. OneLive(sessionOf, sess, started) /\ OneTorn(sess)
  BY <1>1, <1>2 DEF OneLive, OneTorn, Torn
<1>10. Waits(retired, "retired", RetireMax, sess) /\ Waits(overflow, "overflow", OverflowMax, sess)
  BY <1>1, <1>2, <1>4 DEF Waits
<1>11. DirsKept(sess, sink)
  BY <1>1, <1>2 DEF DirsKept
<1>12. Good(Outputs!M)
  BY <1>1, <1>7, <1>8, <1>9, <1>10, <1>11 DEF Good, Managed, Outputs!M
<1>13. \A c \in Conns : publishing[c] = "none"
  BY <1>1
<1> QED
  BY <1>1, <1>12, <1>13 DEF OutputsInv

\* Every step of the outputs keeps it.
LEMMA OutputsKept ==
    ASSUME OutputsInv, Outputs!Next
    PROVE  OutputsInv'
<1>1. CASE Outputs!Poll
  <2>1. PICK c \in Conns :
          \/ Outputs!TickIdle(c) \/ Outputs!Unpublish(c) \/ Outputs!RetainPublishers(c) \/ Outputs!StopAll(c)
          \/ \E mark \in {"restart", "switch"} : Outputs!WindowElapses(c, mark)
          \/ \E found \in BOOLEAN :
                 \/ \E ts \in Timestamps : Outputs!TickFrame(c, ts, found)
                 \/ \E s \in Streams : Outputs!StreamMoves(c, s, found) \/ Outputs!PublishApplied(c, s, found)
    BY <1>1 DEF Outputs!Poll
  <2>2. CASE Outputs!TickIdle(c)
    <3>1. publishing[c] \in Streams
      BY <2>2, Holds DEF Outputs!TickIdle, Outputs!None
    <3> QED
      BY <2>2, <3>1, TicksKeep
  <2>3. CASE Outputs!Unpublish(c) \/ Outputs!RetainPublishers(c)
    BY <2>3, RetainKeeps
  <2>4. CASE Outputs!StopAll(c)
    BY <2>4, StopKeeps
  <2>5. CASE \E mark \in {"restart", "switch"} : Outputs!WindowElapses(c, mark)
    BY <2>5, WindowKeeps
  <2>6. ASSUME NEW found, NEW ts, Outputs!TickFrame(c, ts, found) PROVE OutputsInv'
    BY <2>6, FrameKeeps
  <2>7. ASSUME NEW found, NEW s \in Streams, Outputs!StreamMoves(c, s, found) \/ Outputs!PublishApplied(c, s, found)
        PROVE  OutputsInv'
    BY <2>7, TicksKeep
  <2> QED
    BY <2>1, <2>2, <2>3, <2>4, <2>5, <2>6, <2>7, Zenon
<1>2. CASE Outputs!Teardown
  <2>1. CASE Outputs!ReaperTakes \/ Outputs!OverflowTakes
    BY <2>1, TakesKeep
  <2>2. ASSUME NEW i \in Ids, Outputs!TeardownHooks(i) PROVE OutputsInv'
    BY <2>2, HooksKeep
  <2>3. ASSUME NEW i \in Ids, NEW k \in OutputIds, Outputs!SinkStopped(i, k) \/ Outputs!SinkTimesOut(i, k)
        PROVE  OutputsInv'
    BY <2>3, StepsKeep
  <2> QED
    BY <1>2, <2>1, <2>2, <2>3 DEF Outputs!Teardown, Ids, OutputIds, Outputs!Outputs
<1>3. ASSUME NEW i \in Ids, NEW k \in OutputIds,
             Outputs!Worker(i, k) \/ Outputs!Written(i, k) \/ Outputs!MonitorKills(i, k) \/ Outputs!ChildDies(i, k)
      PROVE  OutputsInv'
  <2>1. CASE Outputs!WorkerStarts(i, k)
    BY <2>1, StartKeeps
  <2>2. CASE ~Outputs!WorkerStarts(i, k)
    BY <1>3, <2>2, WorkersKeep DEF Outputs!Worker
  <2> QED
    BY <2>1, <2>2
<1> QED
  BY <1>1, <1>2, <1>3 DEF Outputs!Next, Ids, OutputIds, Outputs!Outputs

\* It gives the two properties.
LEMMA OutputsFollow ==
    ASSUME OutputsInv
    PROVE  OutputsFinish /\ OutputsApart
<1> DEFINE places == {"unused", "live", "retired", "reaping", "overflow", "aborting", "stopping", "dropped", "gone"}
<1>0. /\ \A i \in Ids : SessTyped(sess[i])
      /\ \A i \in Ids : \A k \in OutputIds : SinkFine(sess[i], sink[i][k], k) /\ SinkTyped(sink[i][k])
  BY Shapes
<1>1. /\ OneTorn(sess) /\ OneLive(sessionOf, sess, started) /\ DirsKept(sess, sink)
      /\ Waits(retired, "retired", RetireMax, sess) /\ Waits(overflow, "overflow", OverflowMax, sess)
      /\ Numbered(sess, started)
  BY Shapes
<1>2. Outputs!TypeOK
  <2>1. ASSUME NEW c \in Conns PROVE sessionOf[c] \in 0 .. started
    <3>1. CASE sessionOf[c] = 0
      BY <1>1, <3>1 DEF Numbered
    <3>2. CASE sessionOf[c] # 0
      <4>1. sessionOf[c] \in Ids /\ sess[sessionOf[c]].at = "live"
        BY <1>1, <3>2 DEF OneLive
      <4>2. ~(sessionOf[c] > started) /\ started \in Nat /\ sessionOf[c] \in Nat
        BY <1>1, <4>1 DEF Numbered, Ids, Outputs!SessionIds
      <4> QED
        BY <4>2
    <3> QED
      BY <3>1, <3>2
  <2>2. Len(retired) <= RetireMax /\ Len(overflow) <= OverflowMax
    BY <1>1 DEF Waits
  <2>3. \A i \in Ids : sess[i].at \in places /\ sess[i].step \in 1 .. (Len(Sinks) + 1)
    BY <1>0 DEF SessTyped, Places, Torn
  <2>4. \A i \in Ids : \A k \in OutputIds : /\ sink[i][k].worker \in {"born", "idle", "writing", "done"}
                                         /\ Len(sink[i][k].queue) <= SinkQueueMax
    BY <1>0 DEF SinkTyped
  <2> QED
    BY <2>1, <2>2, <2>3, <2>4 DEF Outputs!TypeOK, Ids, OutputIds, Outputs!Outputs
<1>3. Outputs!HeldOnce
  <2>1. ASSUME NEW i \in Ids
        PROVE  /\ sess[i].at = "live" <=> \E c \in Conns : sessionOf[c] = i
               /\ sess[i].at = "retired" <=> \E n \in DOMAIN retired : retired[n] = i
               /\ sess[i].at = "overflow" <=> \E n \in DOMAIN overflow : overflow[n] = i
    <3>1. sess[i].at = "live" <=> \E c \in Conns : sessionOf[c] = i
      <4>1. i # 0 /\ (sess[i].at # "unused" => sess[i].conn \in Conns)
        BY <1>0 DEF SessTyped, Ids, Outputs!SessionIds
      <4> QED
        BY <1>1, <4>1 DEF OneLive
    <3>2. DOMAIN retired = 1 .. Len(retired) /\ DOMAIN overflow = 1 .. Len(overflow)
      BY <1>1 DEF Waits
    <3>3. sess[i].at = "retired" <=> \E n \in DOMAIN retired : retired[n] = i
      BY <1>1, <3>2 DEF Waits
    <3>4. sess[i].at = "overflow" <=> \E n \in DOMAIN overflow : overflow[n] = i
      BY <1>1, <3>2 DEF Waits
    <3> QED
      BY <3>1, <3>3, <3>4
  <2>2. \A i, j \in Ids : Outputs!TornDown(i) /\ sess[j].at = sess[i].at => j = i
    BY <1>1 DEF OneTorn, Outputs!TornDown, Torn
  <2> QED
    BY <2>1, <2>2 DEF Outputs!HeldOnce, Ids
<1>4. \A k \in OutputIds : k \in Nat /\ k < Len(Sinks) + 1
  BY OutputsAssumption DEF OutputIds
<1>5. Outputs!DoneAfterOutputs
  <2>1. ASSUME NEW i \in Ids, NEW k \in OutputIds, sess[i].done = "sent"
        PROVE  /\ sink[i][k].worker = "done"
               /\ sink[i][k].failed \/ (~sink[i][k].lost /\ sink[i][k].child # "run")
    <3>1. sess[i].at = "gone" /\ sess[i].complete /\ sess[i].step = Len(Sinks) + 1
      BY <1>0, <2>1 DEF SessTyped
    <3> QED
      BY <1>0, <1>4, <3>1 DEF SinkFine
  <2> QED
    BY <2>1 DEF Outputs!DoneAfterOutputs, Ids, OutputIds, Outputs!Outputs
<1>6. Outputs!NoLeakedChild
  <2>1. ASSUME NEW i \in Ids, NEW k \in OutputIds, sess[i].at \in {"dropped", "gone"}, sink[i][k].child = "run"
        PROVE  sink[i][k].failed
    <3>1. sess[i].at = "gone" => sess[i].step = Len(Sinks) + 1
      BY <1>0 DEF SessTyped
    <3> QED
      BY <1>0, <1>4, <2>1, <3>1 DEF SinkFine
  <2> QED
    BY <2>1 DEF Outputs!NoLeakedChild, Ids, OutputIds, Outputs!Outputs
<1>7. Outputs!PublishesApart
  <2>1. \A i \in Ids : \A k \in OutputIds : \A n \in DOMAIN sink[i][k].queue :
            /\ sink[i][k].queue[n].stream = sess[i].stream
            /\ sink[i][k].queue[n].generation = sess[i].generation \/ sess[i].merged
    BY <1>0 DEF SinkFine
  <2> QED
    BY <2>1 DEF Outputs!PublishesApart, Ids, OutputIds, Outputs!Outputs
<1>8. Outputs!LiveDirKept
  BY <1>1 DEF Outputs!LiveDirKept, DirsKept, Newer, Ids, OutputIds, Outputs!Outputs
<1> QED
  BY <1>2, <1>3, <1>5, <1>6, <1>7, <1>8 DEF OutputsFinish, OutputsApart

\* The invariant of the whole run.
LEMMA OutputsAlways == PlaneSpec => []OutputsInv
<1>1. PlaneInit => OutputsInv
  BY OutputsStart DEF PlaneInit
<1>2. OutputsInv /\ [PlaneNext]_PlaneVars => OutputsInv'
  <2> SUFFICES ASSUME OutputsInv, [PlaneNext]_PlaneVars PROVE OutputsInv'
    OBVIOUS
  <2>1. CASE UNCHANGED outputsPart
    <3>1. Outputs!M' = Outputs!M /\ publishing' = publishing /\ generation' = generation
      BY <2>1 DEF outputsPart, Outputs!M
    <3> QED
      BY <3>1 DEF OutputsInv
  <2>2. CASE Outputs!Next
    BY <2>2, OutputsKept
  <2> QED
    BY <2>1, <2>2 DEF PlaneNext, SubscribeStep, OutputsStep, PlaneVars
<1> QED
  BY <1>1, <1>2, PTL DEF PlaneSpec

\* publish_done is sent only when every worker has ended and nothing that was
\* accepted is missing from an output that has not failed; a session is in one pair
\* of hands; and one that nobody holds has no child that its monitor would not kill
\* (media_output.rs retire, stop_with_deadline, teardown_hooks).
THEOREM OutputsFinishAlways == PlaneSpec => []OutputsFinish
<1>1. OutputsInv => OutputsFinish
  BY OutputsFollow
<1> QED
  BY <1>1, OutputsAlways, PTL

\* No output gets the tags of two streams, nor of two publishes that were not
\* coalesced, and no worker, however late it starts, removes the directory that a
\* live session of the same connection writes to (media_output.rs
\* ensure_publisher, handle_frame, clean_older_hls_sessions).
THEOREM OutputsApartAlways == PlaneSpec => []OutputsApart
<1>1. OutputsInv => OutputsApart
  BY OutputsFollow
<1> QED
  BY <1>1, OutputsAlways, PTL
=============================================================================
