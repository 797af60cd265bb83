-------------------------- MODULE PlayerSlotsProofs --------------------------
(***************************************************************************)
(* What a node keeps of its connections: the viewer slots, for any number  *)
(* of play keys and sessions and any cap, the two roles of one connection, *)
(* for any number of requests, the frames and route ends that shards hand  *)
(* over, and the descriptors that a shard waits on.                        *)
(***************************************************************************)
EXTENDS MCNodeEdges, Sequences, FiniteSetTheorems, TLAPS

-----------------------------------------------------------------------------
(* What the accounting rests on: which rows a reservation, an open batch   *)
(* and the operation that holds the connection can meet.                   *)

\* A reservation has no row yet (nor would a rollback bring one back), except
\* the one being settled.
ReservedRows ==
    \A i \in reserved :
        /\ row[i] = "absent" \/ conn = Holding("settle", i)
        /\ batch => saved[i] = "absent"

\* A batch inserts and updates rows, it never removes one.
SavedRows == batch => \A i \in Sessions : saved[i] # "absent" => row[i] # "absent"

\* What the first step of an operation established still holds at its second.
ConnRows ==
    /\ conn.op \in {"insert", "reactivate"} => conn.id \notin reserved
    /\ conn.op = "reactivate" => row[conn.id] # "active"
    /\ conn.op \in {"settle", "cancel"} => conn.id \in reserved /\ ~batch
    /\ conn.op = "settle" => row[conn.id] = "active"
    /\ conn.op = "cancel" => row[conn.id] = "absent"
    /\ conn.op = "revoke" => ~batch /\ Active(conn.viewer) = {}

Bookkeeping == TypeOK /\ ReservedRows /\ SavedRows /\ ConnRows

SlotInv == Bookkeeping /\ ReservationsAccounted /\ SlotsAccounted

-----------------------------------------------------------------------------
\* Every operation leaves every variable with its type: the counters stay
\* natural numbers, no step takes them below zero.
LEMMA TypeStep == TypeOK /\ [Next]_vars => TypeOK'
<1> SUFFICES ASSUME TypeOK, [Next]_vars PROVE TypeOK'
  OBVIOUS
<1> USE SessionsAssumption, StreamsAssumption, FaultAssumption DEF TypeOK, Rows, Free, Holding, OnSession
<1> DEFINE FaultsTyped == faults' \in 0..MaxFaults /\ failed' \subseteq MayFail
<1>f. ASSUME NEW call, Fault(call) \/ NoFault PROVE FaultsTyped
  <2>1. CASE Fault(call)
    BY <2>1 DEF Fault
  <2>2. CASE NoFault
    BY <2>2 DEF NoFault
  <2> QED
    BY <1>f, <2>1, <2>2
<1>1. ASSUME NEW i \in Sessions, player_reserve(i) PROVE TypeOK'
  BY <1>1 DEF player_reserve, try_incr_count
<1>2. ASSUME NEW i \in Sessions, player_cancel_reservation(i) PROVE TypeOK'
  BY <1>2 DEF player_cancel_reservation, Unreserve, decr_count
<1>3. ASSUME NEW i \in Sessions, player_try_acquire(i) PROVE TypeOK'
  BY <1>3 DEF player_try_acquire, try_incr_count
<1>4. ASSUME NEW i \in Sessions, player_insert_reserved(i) PROVE TypeOK'
  <2>1. FaultsTyped
    BY <1>4, <1>f DEF player_insert_reserved, insert_active_player, insert_fails
  <2> QED
    BY <1>4, <2>1 DEF player_insert_reserved, insert_active_player, insert_fails
<1>5. ASSUME NEW i \in Sessions, Deactivate(i) PROVE TypeOK'
  BY <1>5 DEF Deactivate
<1>6. ASSUME NEW i \in Sessions, Reactivate(i) PROVE TypeOK'
  BY <1>6 DEF Reactivate, try_incr_count
<1>7. CASE InsertAcquired
  <2>1. FaultsTyped
    BY <1>7, <1>f DEF InsertAcquired, insert_active_player, insert_fails
  <2> QED
    BY <1>7, <2>1 DEF InsertAcquired, insert_active_player, insert_fails, decr_count
<1>8. CASE SettleReservation
  BY <1>8 DEF SettleReservation, Unreserve, decr_count
<1>9. CASE ReleaseSlot
  BY <1>9 DEF ReleaseSlot, decr_count
<1>10. CASE UpdateReactivated
  <2>1. FaultsTyped
    BY <1>10, <1>f DEF UpdateReactivated
  <2> QED
    BY <1>10, <2>1 DEF UpdateReactivated, decr_count
<1>11. CASE DropViewerCount
  BY <1>11 DEF DropViewerCount
<1>12. ASSUME NEW v \in Viewers, players_deactivate_for_viewer(v) PROVE TypeOK'
  BY <1>12 DEF players_deactivate_for_viewer
<1>13. ASSUME NEW K \in StreamKeys, stream_delete(K) PROVE TypeOK'
  BY <1>13 DEF stream_delete
<1>14. CASE BatchBegins \/ BatchCommits
  BY <1>14 DEF BatchBegins, BatchCommits
<1>15. CASE BatchRollsBack
  <2>1. ASSUME NEW v \in Viewers
        PROVE resync_active_player_counts(saved)[v] \in Nat
    <3>1. IsFiniteSet({i \in Sessions : saved[i] = "active" /\ ViewerOf[i] = v})
      BY FS_Subset
    <3> QED
      BY <3>1, FS_CardinalityType DEF resync_active_player_counts
  <2>2. resync_active_player_counts(saved) \in [Viewers -> Nat]
    BY <2>1 DEF resync_active_player_counts
  <2>3. counts' \in [Viewers -> Nat]
    BY <1>15, <2>2 DEF BatchRollsBack
  <2>4. FaultsTyped
    <3>1. CASE Fault("commit")
      BY <3>1, <1>f
    <3>2. CASE /\ {"commit", "resync"} \subseteq MayFail /\ faults + 1 < MaxFaults
               /\ faults' = faults + 2 /\ failed' = failed \cup {"commit", "resync"}
      BY <3>2
    <3> QED
      BY <1>15, <3>1, <3>2 DEF BatchRollsBack
  <2> QED
    BY <1>15, <2>3, <2>4 DEF BatchRollsBack
<1>16. CASE Restart
  <2>1. row' \in [Sessions -> Rows]
    BY <1>16 DEF Restart
  <2>2. counts' \in [Viewers -> Nat] /\ unpersisted' \in [Viewers -> Nat]
    BY <1>16 DEF Restart
  <2>3. restarts' \in 0..MaxRestarts
    BY <1>16 DEF Restart
  <2>4. reserved' \subseteq Sessions /\ batch' \in BOOLEAN /\ saved' = saved /\ gone' = gone
        /\ UNCHANGED <<faults, failed>>
    BY <1>16 DEF Restart
  <2> QED
    BY <1>16, <2>1, <2>2, <2>3, <2>4 DEF Restart
<1>17. CASE UNCHANGED vars
  BY <1>17 DEF vars
<1> QED
  BY <1>1, <1>2, <1>3, <1>4, <1>5, <1>6, <1>7, <1>8, <1>9, <1>10, <1>11, <1>12, <1>13,
     <1>14, <1>15, <1>16, <1>17 DEF Next, SessionNext, SecondStep

\* The empty tables and counters of Init have their types.
LEMMA TypeInit == Init => TypeOK
<1> SUFFICES ASSUME Init PROVE TypeOK
  OBVIOUS
<1>1. row \in [Sessions -> Rows] /\ saved \in [Sessions -> Rows]
  BY DEF Init, Rows
<1>2. counts \in [Viewers -> Nat] /\ unpersisted \in [Viewers -> Nat]
  BY DEF Init
<1>3. failed \subseteq MayFail /\ faults \in 0..MaxFaults /\ restarts \in 0..MaxRestarts
  BY FaultAssumption DEF Init
<1>4. batch \in BOOLEAN /\ conn = Free /\ reserved \subseteq Sessions /\ gone \subseteq Viewers
  BY DEF Init
<1> QED
  BY <1>1, <1>2, <1>3, <1>4 DEF TypeOK

\* Type correctness of the viewer slots (TypeOK) for every set of keys and
\* sessions.
THEOREM TypeCorrect == Spec => []TypeOK
BY TypeInit, TypeStep, PTL DEF Spec

-----------------------------------------------------------------------------
\* Reservations, batches and the connection's holder keep to the rows they
\* were made for.
LEMMA BookkeepingStep == Bookkeeping /\ [Next]_vars => Bookkeeping'
<1> SUFFICES ASSUME Bookkeeping, [Next]_vars PROVE Bookkeeping'
  OBVIOUS
<1> DEFINE Good == ReservedRows /\ SavedRows /\ ConnRows
<1>t. TypeOK /\ TypeOK'
  BY TypeStep DEF Bookkeeping
<1> USE <1>t, SessionsAssumption, StreamsAssumption
    DEF Bookkeeping, ReservedRows, SavedRows, ConnRows, TypeOK, Rows, Free, Holding, OnSession, Active
<1>1. ASSUME NEW i \in Sessions, player_reserve(i) PROVE Good'
  BY <1>1 DEF player_reserve, try_incr_count
<1>2. ASSUME NEW i \in Sessions, player_cancel_reservation(i) PROVE Good'
  BY <1>2 DEF player_cancel_reservation, Unreserve
<1>3. ASSUME NEW i \in Sessions, player_try_acquire(i) PROVE Good'
  BY <1>3 DEF player_try_acquire
<1>4. ASSUME NEW i \in Sessions, player_insert_reserved(i) PROVE Good'
  <2>1. row[i] = "absent"
    BY <1>4 DEF player_insert_reserved
  <2>2. CASE insert_active_player(i) /\ conn' = Holding("settle", i)
    BY <1>4, <2>1, <2>2 DEF player_insert_reserved, insert_active_player
  <2>3. CASE insert_fails(i) /\ conn' = Holding("cancel", i)
    BY <1>4, <2>1, <2>3 DEF player_insert_reserved, insert_fails
  <2> QED
    BY <1>4, <2>2, <2>3 DEF player_insert_reserved
<1>5. ASSUME NEW i \in Sessions, Deactivate(i) PROVE Good'
  BY <1>5 DEF Deactivate
<1>6. ASSUME NEW i \in Sessions, Reactivate(i) PROVE Good'
  BY <1>6 DEF Reactivate
<1>7. ASSUME InsertAcquired PROVE Good'
  BY <1>7 DEF InsertAcquired, insert_active_player, insert_fails
<1>8. ASSUME SettleReservation PROVE Good'
  BY <1>8 DEF SettleReservation, Unreserve
<1>9. ASSUME ReleaseSlot PROVE Good'
  BY <1>9 DEF ReleaseSlot
<1>10. ASSUME UpdateReactivated PROVE Good'
  BY <1>10 DEF UpdateReactivated
<1>11. ASSUME DropViewerCount PROVE Good'
  BY <1>11 DEF DropViewerCount
<1>12. ASSUME NEW v \in Viewers, players_deactivate_for_viewer(v) PROVE Good'
  BY <1>12 DEF players_deactivate_for_viewer
<1>13. ASSUME NEW K \in StreamKeys, stream_delete(K) PROVE Good'
  BY <1>13 DEF stream_delete
<1>14. ASSUME BatchBegins PROVE Good'
  BY <1>14 DEF BatchBegins
<1>15. ASSUME BatchCommits PROVE Good'
  BY <1>15 DEF BatchCommits
<1>16. ASSUME BatchRollsBack PROVE Good'
  BY <1>16 DEF BatchRollsBack
<1>17. ASSUME Restart PROVE Good'
  BY <1>17 DEF Restart
<1>18. ASSUME UNCHANGED vars PROVE Good'
  BY <1>18 DEF vars
<1> QED
  BY <1>1, <1>2, <1>3, <1>4, <1>5, <1>6, <1>7, <1>8, <1>9, <1>10, <1>11, <1>12, <1>13, <1>14, <1>15, <1>16, <1>17, <1>18
     DEF Next, SessionNext, SecondStep
-----------------------------------------------------------------------------
\* One more element, one less element.
LEMMA AddOne ==
  ASSUME NEW S, IsFiniteSet(S), NEW x, x \notin S
  PROVE  Cardinality(S \cup {x}) = Cardinality(S) + 1
BY FS_AddElement

\* Removing an element of a finite set takes one from its cardinality.
LEMMA RemoveOne ==
  ASSUME NEW S, IsFiniteSet(S), NEW x, x \in S
  PROVE  Cardinality(S \ {x}) = Cardinality(S) - 1
BY FS_RemoveElement

\* The sets that are counted are finite.
LEMMA CountedSets ==
  ASSUME TypeOK, NEW v \in Viewers
  PROVE  /\ IsFiniteSet(Reserved(v)) /\ Cardinality(Reserved(v)) \in Nat
         /\ IsFiniteSet(Active(v)) /\ Cardinality(Active(v)) \in Nat
         /\ IsFiniteSet(Occupied(v)) /\ Cardinality(Occupied(v)) \in Nat
<1>1. Reserved(v) \subseteq Sessions /\ Active(v) \subseteq Sessions /\ Occupied(v) \subseteq Sessions
  BY DEF Reserved, Active, Occupied, TypeOK
<1>2. IsFiniteSet(Reserved(v)) /\ IsFiniteSet(Active(v)) /\ IsFiniteSet(Occupied(v))
  BY <1>1, SessionsAssumption, FS_Subset
<1> QED
  BY <1>2, FS_CardinalityType

\* The failures seen so far only grow.
LEMMA FailedGrows ==
  ASSUME [Next]_vars
  PROVE  failed \subseteq failed'
BY DEF Next, SessionNext, SecondStep, vars, Fault, NoFault, insert_active_player, insert_fails,
         player_reserve, player_cancel_reservation, player_try_acquire, player_insert_reserved,
         Deactivate, Reactivate, InsertAcquired, SettleReservation, ReleaseSlot, UpdateReactivated,
         DropViewerCount, players_deactivate_for_viewer, stream_delete, BatchBegins, BatchCommits,
         BatchRollsBack, Restart

\* The rebuilding query fails only in the step in which a COMMIT fails too.
LEMMA ResyncFails ==
  ASSUME [Next]_vars, "resync" \in failed', "resync" \notin failed
  PROVE  "commit" \in failed' /\ batch /\ ~batch'
BY DEF Next, SessionNext, SecondStep, vars, Fault, NoFault, insert_active_player, insert_fails,
         player_reserve, player_cancel_reservation, player_try_acquire, player_insert_reserved,
         Deactivate, Reactivate, InsertAcquired, SettleReservation, ReleaseSlot, UpdateReactivated,
         DropViewerCount, players_deactivate_for_viewer, stream_delete, BatchBegins, BatchCommits,
         BatchRollsBack, Restart

\* Only player_reserve, player_cancel_reservation, player_insert_reserved and
\* a restart touch the reservations, and each moves the counter along.
LEMMA ReservationsStep ==
  Bookkeeping /\ ReservationsAccounted /\ [Next]_vars => ReservationsAccounted'
<1> SUFFICES ASSUME Bookkeeping, ReservationsAccounted, [Next]_vars, NEW v \in Viewers
             PROVE  unpersisted'[v] = Cardinality(Reserved(v)')
  BY DEF ReservationsAccounted
<1>a. TypeOK /\ unpersisted[v] = Cardinality(Reserved(v))
  BY DEF ReservationsAccounted, Bookkeeping
<1>b. IsFiniteSet(Reserved(v)) /\ Cardinality(Reserved(v)) \in Nat
  BY <1>a, CountedSets
<1>c. ASSUME NEW i \in reserved, Unreserve(i) PROVE unpersisted'[v] = Cardinality(Reserved(v)')
  <2>1. CASE ViewerOf[i] = v
    <3>1. Reserved(v)' = Reserved(v) \ {i} /\ i \in Reserved(v)
      BY <1>c, <2>1 DEF Reserved, Unreserve
    <3>2. Cardinality(Reserved(v)') = Cardinality(Reserved(v)) - 1 /\ Cardinality(Reserved(v)') \in Nat
      BY <3>1, <1>b, RemoveOne, FS_RemoveElement, FS_CardinalityType
    <3>3. unpersisted'[v] = unpersisted[v] - 1
      BY <1>c, <1>a, <1>b, <2>1, <3>2 DEF Unreserve, decr_count, TypeOK
    <3> QED
      BY <3>2, <3>3, <1>a
  <2>2. CASE ViewerOf[i] # v
    <3>1. Reserved(v)' = Reserved(v)
      BY <1>c, <2>2 DEF Reserved, Unreserve
    <3>2. unpersisted'[v] = unpersisted[v]
      BY <1>c, <1>a, <2>2 DEF Unreserve, decr_count, TypeOK
    <3> QED
      BY <3>1, <3>2, <1>a
  <2> QED
    BY <2>1, <2>2
<1>1. ASSUME NEW i \in Sessions, player_reserve(i) PROVE unpersisted'[v] = Cardinality(Reserved(v)')
  <2>1. CASE ViewerOf[i] = v
    <3>1. Reserved(v)' = Reserved(v) \cup {i} /\ i \notin Reserved(v)
      BY <1>1, <2>1 DEF Reserved, player_reserve
    <3>2. Cardinality(Reserved(v)') = Cardinality(Reserved(v)) + 1
      BY <3>1, <1>b, AddOne
    <3> QED
      BY <3>2, <1>1, <1>a, <2>1 DEF player_reserve, TypeOK
  <2>2. CASE ViewerOf[i] # v
    <3>1. Reserved(v)' = Reserved(v)
      BY <1>1, <2>2 DEF Reserved, player_reserve
    <3> QED
      BY <3>1, <1>1, <1>a, <2>2 DEF player_reserve, TypeOK
  <2> QED
    BY <2>1, <2>2
<1>2. ASSUME NEW i \in Sessions, player_cancel_reservation(i) PROVE unpersisted'[v] = Cardinality(Reserved(v)')
  BY <1>2, <1>c DEF player_cancel_reservation
<1>3. ASSUME SettleReservation PROVE unpersisted'[v] = Cardinality(Reserved(v)')
  BY <1>3, <1>c DEF SettleReservation, Bookkeeping, ConnRows
<1>4. ASSUME Restart PROVE unpersisted'[v] = Cardinality(Reserved(v)')
  <2>1. Reserved(v)' = {}
    BY <1>4 DEF Restart, Reserved
  <2> QED
    BY <2>1, <1>4, FS_EmptySet DEF Restart
<1>5. ASSUME unpersisted' = unpersisted, reserved' = reserved
      PROVE  unpersisted'[v] = Cardinality(Reserved(v)')
  BY <1>5, <1>a DEF Reserved
<1> QED
  BY <1>1, <1>2, <1>3, <1>4, <1>5
     DEF Next, SessionNext, SecondStep, vars, player_try_acquire, player_insert_reserved,
         Deactivate, Reactivate, InsertAcquired, ReleaseSlot, UpdateReactivated, DropViewerCount,
         players_deactivate_for_viewer, stream_delete, BatchBegins, BatchCommits, BatchRollsBack
-----------------------------------------------------------------------------
\* Every step keeps the counters equal to the slots really taken, as long as
\* the query that rebuilds them after a failed COMMIT does not fail itself.
LEMMA SlotsAccountedStep ==
  ASSUME SlotInv, [Next]_vars
  PROVE  SlotsAccounted'
<1> SUFFICES ASSUME "resync" \notin failed', NEW v \in Viewers PROVE Accounted(v)'
  BY DEF SlotsAccounted, MirrorsRows
<1>a. Bookkeeping /\ TypeOK /\ Accounted(v) /\ ConnRows /\ ReservedRows
  BY FailedGrows DEF SlotInv, SlotsAccounted, MirrorsRows, Bookkeeping
<1>b. IsFiniteSet(Occupied(v)) /\ Cardinality(Occupied(v)) \in Nat
  BY <1>a, CountedSets
<1>c. counts \in [Viewers -> Nat] /\ counts[v] \in Nat /\ ViewerOf \in [Sessions -> Viewers]
  BY <1>a, SessionsAssumption DEF TypeOK
<1>d. unpersisted[v] = Cardinality(Reserved(v))
  BY DEF SlotInv, ReservationsAccounted
<1>e. conn.op \in OnSession => conn.id \in Sessions
  BY <1>a DEF TypeOK, OnSession, Free
<1> DEFINE Revoking == conn = [op |-> "revoke", viewer |-> v]
<1>g. InTransit(v) \in {0, 1}
  BY DEF InTransit
\* The effects a step can have on the slots of v: none, a slot taken ahead of
\* its row, a row for such a slot, a slot handed back, a session that comes
\* with its slot, and one that leaves with it.
<1>same. ASSUME Occupied(v)' = Occupied(v), InTransit(v)' = InTransit(v), counts'[v] = counts[v],
                gone' = gone, Revoking => Revoking'
         PROVE  Accounted(v)'
  BY <1>same, <1>a DEF Accounted
<1>take. ASSUME Occupied(v)' = Occupied(v), InTransit(v) = 0, InTransit(v)' = 1,
                counts'[v] = counts[v] + 1, gone' = gone, ~Revoking
         PROVE  Accounted(v)'
  BY <1>take, <1>a, <1>b, <1>c DEF Accounted
<1>fill. ASSUME NEW i, i \notin Occupied(v), Occupied(v)' = Occupied(v) \cup {i},
                InTransit(v) = 1, InTransit(v)' = 0, counts'[v] = counts[v], gone' = gone, ~Revoking
         PROVE  Accounted(v)'
  <2>1. Cardinality(Occupied(v)') = Cardinality(Occupied(v)) + 1
    BY <1>fill, <1>b, AddOne
  <2> QED
    BY <2>1, <1>fill, <1>a, <1>b, <1>c DEF Accounted
<1>back. ASSUME Occupied(v)' = Occupied(v), InTransit(v) = 1, InTransit(v)' = 0,
                counts' = decr_count(counts, v), gone' = gone, ~Revoking
         PROVE  Accounted(v)'
  <2>1. counts[v] >= 1
    BY <1>back, <1>a, <1>b, <1>c DEF Accounted
  <2>2. counts'[v] = counts[v] - 1
    BY <2>1, <1>back, <1>c DEF decr_count
  <2> QED
    BY <2>2, <1>back, <1>a, <1>b, <1>c DEF Accounted
<1>join. ASSUME NEW i, i \notin Occupied(v), Occupied(v)' = Occupied(v) \cup {i},
                InTransit(v)' = InTransit(v), counts'[v] = counts[v] + 1, gone' = gone,
                Revoking => Revoking'
         PROVE  Accounted(v)'
  <2>1. Cardinality(Occupied(v)') = Cardinality(Occupied(v)) + 1
    BY <1>join, <1>b, AddOne
  <2> QED
    BY <2>1, <1>join, <1>a, <1>b, <1>c, <1>g DEF Accounted
<1>leave. ASSUME NEW i, i \in Occupied(v), Occupied(v)' = Occupied(v) \ {i},
                 InTransit(v)' = InTransit(v), counts' = decr_count(counts, v), gone' = gone,
                 Revoking => Revoking'
          PROVE  Accounted(v)'
  <2>1. Cardinality(Occupied(v)') = Cardinality(Occupied(v)) - 1 /\ Cardinality(Occupied(v)') \in Nat
    BY <1>leave, <1>b, RemoveOne, FS_RemoveElement, FS_CardinalityType
  <2>2. counts[v] >= 1
    BY <2>1, <1>a, <1>b, <1>c, <1>g DEF Accounted
  <2>3. counts'[v] = counts[v] - 1
    BY <2>2, <1>leave, <1>c DEF decr_count
  <2> QED
    BY <2>1, <2>3, <1>leave, <1>a, <1>b, <1>c, <1>g DEF Accounted
\* Another key's counter is not touched by decr_count.
<1>o. ASSUME NEW w \in Viewers, w # v PROVE decr_count(counts, w)[v] = counts[v]
  BY <1>o, <1>c DEF decr_count
<1> USE DEF Occupied, Active, Reserved, InTransit, Free, Holding, OnSession
<1>1. ASSUME NEW i \in Sessions, player_reserve(i) PROVE Accounted(v)'
  <2>1. CASE ViewerOf[i] = v
    <3>1. i \notin Occupied(v) /\ Occupied(v)' = Occupied(v) \cup {i}
      BY <1>1, <2>1 DEF player_reserve
    <3>2. counts'[v] = counts[v] + 1
      BY <1>1, <2>1, <1>c DEF player_reserve, try_incr_count
    <3> QED
      BY <3>1, <3>2, <1>1, <1>join DEF player_reserve
  <2>2. CASE ViewerOf[i] # v
    <3>1. Occupied(v)' = Occupied(v)
      BY <1>1, <2>2 DEF player_reserve
    <3>2. counts'[v] = counts[v]
      BY <1>1, <2>2, <1>c DEF player_reserve, try_incr_count
    <3> QED
      BY <3>1, <3>2, <1>1, <1>same DEF player_reserve
  <2> QED
    BY <2>1, <2>2
<1>2. ASSUME NEW i \in Sessions, player_cancel_reservation(i) PROVE Accounted(v)'
  <2>0. row[i] # "active"
    BY <1>2, <1>a DEF player_cancel_reservation, ReservedRows
  <2>1. CASE ViewerOf[i] = v
    <3>1. i \in Occupied(v) /\ Occupied(v)' = Occupied(v) \ {i}
      BY <1>2, <2>0, <2>1 DEF player_cancel_reservation, Unreserve
    <3> QED
      BY <3>1, <1>2, <2>1, <1>leave DEF player_cancel_reservation
  <2>2. CASE ViewerOf[i] # v
    <3>1. Occupied(v)' = Occupied(v)
      BY <1>2, <2>2 DEF player_cancel_reservation, Unreserve
    <3>2. counts'[v] = counts[v]
      BY <1>2, <2>2, <1>c, <1>o DEF player_cancel_reservation
    <3> QED
      BY <3>1, <3>2, <1>2, <1>same DEF player_cancel_reservation
  <2> QED
    BY <2>1, <2>2
<1>3. ASSUME NEW i \in Sessions, player_try_acquire(i) \/ Reactivate(i) PROVE Accounted(v)'
  <2>0. conn = Free /\ (conn' = Holding("insert", i) \/ conn' = Holding("reactivate", i))
        /\ counts' = try_incr_count(ViewerOf[i])
        /\ UNCHANGED <<row, reserved, gone>>
    BY <1>3 DEF player_try_acquire, Reactivate
  <2>1. CASE ViewerOf[i] = v
    <3>1. counts'[v] = counts[v] + 1
      BY <2>0, <2>1, <1>c DEF try_incr_count
    <3> QED
      BY <2>0, <2>1, <3>1, <1>take
  <2>2. CASE ViewerOf[i] # v
    <3>1. counts'[v] = counts[v]
      BY <2>0, <2>2, <1>c DEF try_incr_count
    <3> QED
      BY <2>0, <2>2, <3>1, <1>same
  <2> QED
    BY <2>1, <2>2
<1>4. ASSUME NEW i \in Sessions, player_insert_reserved(i) PROVE Accounted(v)'
  <2>1. Occupied(v)' = Occupied(v)
    BY <1>4, <1>a DEF player_insert_reserved, insert_active_player, insert_fails, TypeOK
  <2> QED
    BY <2>1, <1>4, <1>same DEF player_insert_reserved
<1>5. ASSUME NEW i \in Sessions, Deactivate(i) PROVE Accounted(v)'
  <2>0. i \notin reserved /\ conn = Free
    BY <1>5, <1>a DEF Deactivate, ReservedRows
  <2>1. CASE row[i] = "active" /\ ViewerOf[i] = v
    <3>1. i \in Occupied(v) /\ Occupied(v)' = Occupied(v) \ {i}
      BY <1>5, <2>0, <2>1, <1>a DEF Deactivate, TypeOK
    <3>2. Cardinality(Occupied(v)') = Cardinality(Occupied(v)) - 1
      BY <3>1, <1>b, RemoveOne
    <3>3. InTransit(v) = 0 /\ InTransit(v)' = 1 /\ counts' = counts /\ gone' = gone /\ ~Revoking
      BY <1>5, <2>0, <2>1 DEF Deactivate
    <3> HIDE DEF Occupied, InTransit
    <3> QED
      BY <3>2, <3>3, <1>a, <1>b, <1>c DEF Accounted
  <2>2. CASE ~(row[i] = "active" /\ ViewerOf[i] = v)
    <3>1. Occupied(v)' = Occupied(v)
      BY <1>5, <2>0, <2>2, <1>a DEF Deactivate, TypeOK
    <3>2. InTransit(v)' = InTransit(v)
      BY <1>5, <2>0, <2>2 DEF Deactivate
    <3> QED
      BY <3>1, <3>2, <2>0, <1>5, <1>same DEF Deactivate
  <2> QED
    BY <2>1, <2>2
<1>6. ASSUME ReleaseSlot PROVE Accounted(v)'
  <2>1. CASE ViewerOf[conn.id] = v
    BY <1>6, <2>1, <1>back DEF ReleaseSlot
  <2>2. CASE ViewerOf[conn.id] # v
    BY <1>6, <2>2, <1>e, <1>c, <1>o, <1>same DEF ReleaseSlot
  <2> QED
    BY <2>1, <2>2
<1>7. ASSUME InsertAcquired \/ UpdateReactivated PROVE Accounted(v)'
  <2>0. /\ conn.op \in {"insert", "reactivate"} /\ conn.id \in Sessions /\ conn.id \notin reserved
        /\ conn' = Free /\ reserved' = reserved /\ gone' = gone
        /\ \/ /\ row' = [row EXCEPT ![conn.id] = "active"] /\ row[conn.id] # "active"
              /\ counts' = counts
           \/ row' = row /\ counts' = decr_count(counts, ViewerOf[conn.id])
    BY <1>7, <1>e, <1>a
       DEF InsertAcquired, UpdateReactivated, insert_active_player, insert_fails, ConnRows
  <2>1. CASE ViewerOf[conn.id] = v /\ row' = row /\ counts' = decr_count(counts, ViewerOf[conn.id])
    BY <2>0, <2>1, <1>back
  <2>2. CASE ViewerOf[conn.id] = v /\ row' = [row EXCEPT ![conn.id] = "active"]
             /\ row[conn.id] # "active" /\ counts' = counts
    <3>1. conn.id \notin Occupied(v) /\ Occupied(v)' = Occupied(v) \cup {conn.id}
      BY <2>0, <2>2, <1>a DEF TypeOK
    <3> QED
      BY <2>0, <2>2, <3>1, <1>fill
  <2>3. CASE ViewerOf[conn.id] # v
    <3>1. Occupied(v)' = Occupied(v)
      BY <2>0, <2>3, <1>a DEF TypeOK
    <3>2. counts'[v] = counts[v]
      BY <2>0, <2>3, <1>c, <1>o
    <3> QED
      BY <2>0, <2>3, <3>1, <3>2, <1>same
  <2> QED
    BY <2>0, <2>1, <2>2, <2>3
<1>8. ASSUME SettleReservation PROVE Accounted(v)'
  <2>0. conn.id \in reserved /\ conn.id \in Sessions /\ conn' = Free /\ gone' = gone /\ row' = row
        /\ reserved' = reserved \ {conn.id} /\ conn.op \in {"settle", "cancel"}
    BY <1>8, <1>a, <1>e DEF SettleReservation, ConnRows, Unreserve
  <2>1. CASE conn.op = "settle"
    <3>1. row[conn.id] = "active" /\ counts' = counts
      BY <1>8, <2>1, <1>a DEF SettleReservation, ConnRows
    <3>2. Occupied(v)' = Occupied(v)
      BY <2>0, <3>1
    <3> QED
      BY <2>0, <2>1, <3>1, <3>2, <1>same
  <2>2. CASE conn.op = "cancel" /\ ViewerOf[conn.id] = v
    <3>1. row[conn.id] = "absent" /\ counts' = decr_count(counts, v)
      BY <1>8, <2>2, <1>a DEF SettleReservation, ConnRows
    <3>2. conn.id \in Occupied(v) /\ Occupied(v)' = Occupied(v) \ {conn.id}
      BY <2>0, <2>2, <3>1
    <3> QED
      BY <2>0, <2>2, <3>1, <3>2, <1>leave
  <2>3. CASE conn.op = "cancel" /\ ViewerOf[conn.id] # v
    <3>1. counts'[v] = counts[v]
      BY <1>8, <2>0, <2>3, <1>c, <1>o DEF SettleReservation
    <3>2. Occupied(v)' = Occupied(v)
      BY <2>0, <2>3
    <3> QED
      BY <2>0, <2>3, <3>1, <3>2, <1>same
  <2> QED
    BY <2>0, <2>1, <2>2, <2>3
<1>9. ASSUME DropViewerCount PROVE Accounted(v)'
  <2>1. CASE conn.viewer = v
    <3>1. Occupied(v)' = Reserved(v)
      BY <1>9, <2>1, <1>a DEF DropViewerCount, ConnRows
    <3>2. counts'[v] = unpersisted[v] /\ InTransit(v)' = 0
      BY <1>9, <2>1, <1>c DEF DropViewerCount
    <3>3. Cardinality(Occupied(v)') = unpersisted[v] /\ unpersisted[v] \in Nat
      BY <3>1, <1>d, <1>a DEF TypeOK
    <3> HIDE DEF Occupied, InTransit
    <3> QED
      BY <3>2, <3>3 DEF Accounted
  <2>2. CASE conn.viewer # v
    BY <1>9, <2>2, <1>c, <1>same DEF DropViewerCount
  <2> QED
    BY <2>1, <2>2
<1>10. ASSUME NEW u \in Viewers, players_deactivate_for_viewer(u) PROVE Accounted(v)'
  <2>0. conn = Free /\ counts' = counts /\ gone' = gone /\ reserved' = reserved
        /\ InTransit(v) = 0 /\ InTransit(v)' = 0
    BY <1>10 DEF players_deactivate_for_viewer
  <2>1. CASE u = v
    <3>1. Occupied(v)' \subseteq Occupied(v)
      BY <1>10, <2>0, <2>1 DEF players_deactivate_for_viewer
    <3>2. Cardinality(Occupied(v)') <= Cardinality(Occupied(v)) /\ Cardinality(Occupied(v)') \in Nat
      BY <3>1, <1>b, FS_Subset, FS_CardinalityType
    <3>3. Revoking'
      BY <1>10, <2>1 DEF players_deactivate_for_viewer
    <3> HIDE DEF Occupied, InTransit
    <3> QED
      BY <2>0, <3>2, <3>3, <1>a, <1>b, <1>c DEF Accounted
  <2>2. CASE u # v
    <3>1. Occupied(v)' = Occupied(v)
      BY <1>10, <2>0, <2>2, <1>a DEF players_deactivate_for_viewer, TypeOK
    <3> QED
      BY <2>0, <3>1, <1>same
  <2> QED
    BY <2>1, <2>2
<1>11. ASSUME NEW K \in StreamKeys, stream_delete(K) PROVE Accounted(v)'
  <2>0. conn = Free /\ conn' = Free /\ counts' = counts /\ gone' = gone \cup K /\ reserved' = reserved
        /\ InTransit(v) = 0 /\ InTransit(v)' = 0
    BY <1>11 DEF stream_delete
  <2>1. CASE v \in K
    <3>1. Occupied(v)' \subseteq Occupied(v)
      BY <1>11, <2>0, <2>1 DEF stream_delete
    <3>2. Cardinality(Occupied(v)') <= Cardinality(Occupied(v)) /\ Cardinality(Occupied(v)') \in Nat
      BY <3>1, <1>b, FS_Subset, FS_CardinalityType
    <3> HIDE DEF Occupied, InTransit
    <3> QED
      BY <2>0, <2>1, <3>2, <1>a, <1>b, <1>c DEF Accounted
  <2>2. CASE v \notin K
    <3>1. Occupied(v)' = Occupied(v)
      BY <1>11, <2>0, <2>2, <1>a DEF stream_delete, TypeOK
    <3> HIDE DEF Occupied, InTransit
    <3> QED
      BY <2>0, <2>2, <3>1, <1>a DEF Accounted
  <2> QED
    BY <2>1, <2>2
<1>12. ASSUME BatchBegins \/ BatchCommits PROVE Accounted(v)'
  BY <1>12, <1>same DEF BatchBegins, BatchCommits
<1>13. ASSUME BatchRollsBack PROVE Accounted(v)'
  <2> DEFINE Back == {i \in Sessions : saved[i] = "active" /\ ViewerOf[i] = v}
  <2>1. IsFiniteSet(Back) /\ Cardinality(Back) \in Nat
    BY SessionsAssumption, FS_Subset, FS_CardinalityType
  <2>2. Occupied(v)' = Back \cup Reserved(v)
    BY <1>13 DEF BatchRollsBack
  <2>3. Back \cap Reserved(v) = {}
    BY <1>13, <1>a DEF BatchRollsBack, ReservedRows
  <2>4. IsFiniteSet(Reserved(v)) /\ Cardinality(Reserved(v)) \in Nat
    BY <1>a, CountedSets
  <2>5. Cardinality(Back \cup Reserved(v)) = Cardinality(Back) + Cardinality(Reserved(v))
    <3> HIDE DEF Back, Reserved
    <3>1. Cardinality(Back \cup Reserved(v))
            = Cardinality(Back) + Cardinality(Reserved(v)) - Cardinality(Back \cap Reserved(v))
      BY <2>1, <2>4, FS_Union
    <3>2. Cardinality(Back \cap Reserved(v)) = 0
      BY <2>3, FS_EmptySet
    <3> QED
      BY <3>1, <3>2, <2>1, <2>4
  <2>6. counts' = resync_active_player_counts(saved)
    BY <1>13 DEF BatchRollsBack
  <2>7. counts'[v] = Cardinality(Back) + unpersisted[v]
    BY <2>6 DEF resync_active_player_counts
  <2>8. InTransit(v)' = 0
    BY <1>13 DEF BatchRollsBack
  <2> HIDE DEF Occupied, InTransit, Back, Reserved
  <2> QED
    BY <2>1, <2>2, <2>4, <2>5, <2>7, <2>8, <1>d DEF Accounted
<1>14. ASSUME Restart PROVE Accounted(v)'
  <2>1. Occupied(v)' = {}
    BY <1>14 DEF Restart
  <2>2. Cardinality(Occupied(v)') = 0
    BY <2>1, FS_EmptySet
  <2>3. InTransit(v)' = 0 /\ counts'[v] = 0
    BY <1>14 DEF Restart
  <2> HIDE DEF Occupied, InTransit
  <2> QED
    BY <2>2, <2>3 DEF Accounted
<1>15. ASSUME UNCHANGED vars PROVE Accounted(v)'
  BY <1>15, <1>same DEF vars
<1> QED
  BY <1>1, <1>2, <1>3, <1>4, <1>5, <1>6, <1>7, <1>8, <1>9, <1>10, <1>11, <1>12, <1>13, <1>14, <1>15
     DEF Next, SessionNext, SecondStep
-----------------------------------------------------------------------------
\* The empty tables and counters satisfy the inductive invariant.
LEMMA SlotInvInit == Init => SlotInv
<1> SUFFICES ASSUME Init PROVE SlotInv
  OBVIOUS
<1>1. TypeOK
  BY TypeInit
<1>2. ReservedRows /\ SavedRows /\ ConnRows
  BY DEF Init, ReservedRows, SavedRows, ConnRows, Free
<1>3. ASSUME NEW v \in Viewers PROVE Accounted(v) /\ unpersisted[v] = Cardinality(Reserved(v))
  <2>1. Reserved(v) = {} /\ Occupied(v) = {}
    BY SessionsAssumption DEF Init, Reserved, Active, Occupied
  <2>2. Cardinality(Reserved(v)) = 0 /\ Cardinality(Occupied(v)) = 0
    BY <2>1, FS_EmptySet
  <2>3. counts[v] = 0 /\ unpersisted[v] = 0 /\ InTransit(v) = 0
    BY DEF Init, InTransit, Free
  <2> QED
    BY <2>2, <2>3 DEF Accounted
<1> QED
  BY <1>1, <1>2, <1>3 DEF SlotInv, Bookkeeping, SlotsAccounted, MirrorsRows, ReservationsAccounted

\* The inductive invariant of the slots.
LEMMA SlotInvariant == Spec => []SlotInv
<1>1. SlotInv /\ [Next]_vars => SlotInv'
  BY BookkeepingStep, ReservationsStep, SlotsAccountedStep DEF SlotInv
<1> QED
  BY <1>1, SlotInvInit, PTL DEF Spec

\* The counters equal the slots really taken (SlotsAccounted), in every
\* interleaving of the RTMP thread with the holder of the connection and with
\* any writes and COMMITs failing.
THEOREM SlotsCorrect == Spec => []SlotsAccounted
<1>1. SlotInv => SlotsAccounted
  BY DEF SlotInv
<1> QED
  BY <1>1, SlotInvariant, PTL

\* unpersisted_player_counts is exactly the number of reservations still due
\* (ReservationsAccounted), whatever fails.
THEOREM ReservationsCorrect == Spec => []ReservationsAccounted
<1>1. Init => Bookkeeping /\ ReservationsAccounted
  BY SlotInvInit DEF SlotInv
<1>2. Bookkeeping /\ ReservationsAccounted /\ [Next]_vars => (Bookkeeping /\ ReservationsAccounted)'
  BY BookkeepingStep, ReservationsStep
<1> QED
  BY <1>1, <1>2, PTL DEF Spec

\* The steps that can raise a counter: one that found a slot free, the rebuild
\* after a failed COMMIT, and the second step of a revocation.
LEMMA AdmissionStep ==
  ASSUME TypeOK, [Next]_vars, NEW v \in Viewers, counts'[v] > counts[v]
  PROVE  \/ counts'[v] <= Cap
         \/ batch /\ ~batch' /\ Fault("commit")
         \/ conn = [op |-> "revoke", viewer |-> v] /\ counts'[v] = unpersisted[v]
         \/ "resync" \in failed'
<1> USE CapAssumption, SessionsAssumption DEF TypeOK
<1>1. ASSUME NEW i \in Sessions, counts' = try_incr_count(ViewerOf[i]), HasSlot(ViewerOf[i])
      PROVE  counts'[v] <= Cap
  BY <1>1 DEF try_incr_count, HasSlot
<1>2. ASSUME NEW w, counts' = decr_count(counts, w) PROVE FALSE
  BY <1>2 DEF decr_count
<1>3. ASSUME counts' = counts PROVE FALSE
  BY <1>3
<1>4. ASSUME Restart PROVE FALSE
  BY <1>4 DEF Restart
<1>5. ASSUME BatchRollsBack PROVE (batch /\ ~batch' /\ Fault("commit")) \/ "resync" \in failed'
  BY <1>5 DEF BatchRollsBack
<1>6. ASSUME DropViewerCount
      PROVE  conn = [op |-> "revoke", viewer |-> v] /\ counts'[v] = unpersisted[v]
  BY <1>6 DEF DropViewerCount, Free, OnSession
<1> QED
  BY <1>1, <1>2, <1>3, <1>4, <1>5, <1>6
     DEF Next, SessionNext, SecondStep, vars, player_reserve, player_cancel_reservation,
         player_try_acquire, player_insert_reserved, Deactivate, Reactivate, InsertAcquired,
         SettleReservation, ReleaseSlot, UpdateReactivated, players_deactivate_for_viewer,
         stream_delete, BatchBegins, BatchCommits
\* The second step of a revocation never raises a counter after all: the
\* reservations it keeps were counted before.
LEMMA AdmissionBounded ==
  ASSUME "resync" \notin failed', SlotInv, [Next]_vars, NEW v \in Viewers, counts'[v] > counts[v]
  PROVE  counts'[v] <= Cap \/ (batch /\ ~batch' /\ Fault("commit"))
<1>1. TypeOK /\ Accounted(v) /\ unpersisted[v] = Cardinality(Reserved(v))
  BY FailedGrows DEF SlotInv, Bookkeeping, SlotsAccounted, MirrorsRows, ReservationsAccounted
<1>2. Reserved(v) \subseteq Occupied(v)
  BY DEF Occupied
<1>3. IsFiniteSet(Occupied(v)) /\ Cardinality(Occupied(v)) \in Nat /\ Cardinality(Reserved(v)) \in Nat
  BY <1>1, CountedSets
<1>4. Cardinality(Reserved(v)) <= Cardinality(Occupied(v))
  BY <1>2, <1>3, FS_Subset
<1>5. InTransit(v) \in {0, 1} /\ counts[v] \in Nat
  BY <1>1 DEF InTransit, TypeOK
<1>6. unpersisted[v] <= counts[v]
  BY <1>1, <1>3, <1>4, <1>5 DEF Accounted
<1>7. ~(counts'[v] = unpersisted[v])
  BY <1>1, <1>3, <1>5, <1>6
<1> QED
  BY <1>1, <1>7, AdmissionStep

\* No step admits a viewer past the cap (NoAdmissionPastCap): only the rebuild
\* after a failed COMMIT can lift a counter above it.
THEOREM AdmissionCorrect == Spec => NoAdmissionPastCap
<1>1. ASSUME SlotInv, [Next]_vars
      PROVE  [\A v \in Viewers :
                counts'[v] > counts[v] =>
                    counts'[v] <= Cap \/ (batch /\ ~batch') \/ "resync" \in failed]_vars
  <2> SUFFICES ASSUME NEW v \in Viewers, counts'[v] > counts[v], "resync" \notin failed
               PROVE  counts'[v] <= Cap \/ (batch /\ ~batch')
    OBVIOUS
  <2>1. CASE "resync" \in failed'
    BY <1>1, <2>1, ResyncFails
  <2>2. CASE "resync" \notin failed'
    BY <1>1, <2>2, AdmissionBounded
  <2> QED
    BY <2>1, <2>2
<1> QED
  BY <1>1, SlotInvariant, PTL DEF Spec, NoAdmissionPastCap

\* The counters themselves stay within the cap while COMMITs succeed; the
\* rebuilding query fails only after a COMMIT has.
CountsWithinCap ==
    /\ "resync" \in failed => "commit" \in failed
    /\ "commit" \notin failed => \A v \in Viewers : counts[v] <= Cap

\* While COMMITs succeed no play key ever has more sessions than
\* MAX_CONNECTIONS_PER_PLAY_KEY (CapHolds).
THEOREM CapCorrect == Spec => []CapHolds
<1>1. Init => CountsWithinCap
  BY CapAssumption DEF Init, CountsWithinCap
<1>2. ASSUME SlotInv, CountsWithinCap, [Next]_vars PROVE CountsWithinCap'
  <2>1. "resync" \in failed' => "commit" \in failed'
    BY <1>2, ResyncFails, FailedGrows DEF CountsWithinCap
  <2>2. ASSUME "commit" \notin failed', NEW v \in Viewers PROVE counts'[v] <= Cap
    <3>1. TypeOK /\ TypeOK'
      BY <1>2, TypeStep DEF SlotInv, Bookkeeping
    <3>2. "commit" \notin failed /\ "resync" \notin failed'
      BY <1>2, <2>1, <2>2, FailedGrows
    <3>3. counts[v] <= Cap /\ counts[v] \in Nat /\ counts'[v] \in Nat
      BY <1>2, <2>2, <3>1, <3>2 DEF CountsWithinCap, TypeOK
    <3>4. CASE counts'[v] > counts[v]
      BY <1>2, <2>2, <3>2, <3>4, AdmissionBounded DEF Fault
    <3>5. CASE ~(counts'[v] > counts[v])
      BY <3>3, <3>5, CapAssumption
    <3> QED
      BY <3>4, <3>5
  <2> QED
    BY <2>1, <2>2 DEF CountsWithinCap
<1>3. ASSUME SlotInv, CountsWithinCap PROVE CapHolds
  <2> SUFFICES ASSUME "commit" \notin failed, NEW v \in Viewers
               PROVE  Cardinality(Occupied(v)) <= Cap
    BY DEF CapHolds, WithinCap
  <2>1. TypeOK /\ Accounted(v) /\ counts[v] <= Cap
    BY <1>3 DEF SlotInv, Bookkeeping, SlotsAccounted, MirrorsRows, CountsWithinCap
  <2>2. Cardinality(Occupied(v)) \in Nat /\ counts[v] \in Nat /\ InTransit(v) \in {0, 1}
    BY <2>1, CountedSets DEF TypeOK, InTransit
  <2> QED
    BY <2>1, <2>2, CapAssumption DEF Accounted
<1> QED
  BY <1>1, <1>2, <1>3, SlotInvariant, PTL DEF Spec
-----------------------------------------------------------------------------
(* One connection with its two roles, for any number of requests and of    *)
(* failed writes.  A release is two steps and an answer may be late by any *)
(* number of requests, so the invariant says which requests can still be   *)
(* queued, answered or half released when a role runs its latest one.      *)

\* What the worker's queue, the completions and a half-done release hold.
Job == [role : Roles!Roles \cup {"close"}, id : Nat]
Answer == [role : Roles!Roles, id : Nat, allow : BOOLEAN]
Departure == [role : Roles!Roles, id : Nat, superseded : BOOLEAN]

\* Every variable of the connection has its type.
RolesTyped ==
  /\ asked \in Nat /\ roleFaults \in Nat /\ stream \in Nat /\ relay \in Nat
  /\ pending \in [Roles!Roles -> Nat] /\ held \in [Roles!Roles -> Nat]
  /\ newest \in [Roles!Roles -> Nat] /\ running \in [Roles!Roles -> Nat]
  /\ on \in [Roles!Roles -> BOOLEAN] /\ known \in [Roles!Roles -> BOOLEAN]
  /\ jobs \in Seq(Job) /\ answers \in Seq(Answer) /\ leaving \in Departure
  /\ pc \in {"rest", "drain", "publish", "play", "sync"}
  /\ lost \in SUBSET Roles!Roles
  /\ idle \in BOOLEAN /\ forced \in BOOLEAN /\ closed \in BOOLEAN /\ calm \in BOOLEAN

\* Requests are numbered in the order they are made, and the library waits for
\* nothing but the latest request of a role.
Numbers ==
  \A r \in Roles!Roles :
    /\ newest[r] <= asked /\ running[r] <= newest[r]
    /\ pending[r] # 0 => pending[r] = newest[r]

\* The queued requests of a role are in the order they were made, and none is
\* the one whose grant the library took.
JobsOrdered ==
  /\ \A i \in 1..Len(jobs) : jobs[i].role \in Roles!Roles =>
        0 < jobs[i].id /\ jobs[i].id <= newest[jobs[i].role] /\ jobs[i].id # running[jobs[i].role]
  /\ \A i, j \in 1..Len(jobs) :
        i < j /\ jobs[i].role = jobs[j].role /\ jobs[i].role \in Roles!Roles => jobs[i].id < jobs[j].id

\* So are the answers, all of them to requests before the ones still queued:
\* this is what makes a late answer recognisable as late.
AnswersOrdered ==
  /\ \A i \in 1..Len(answers) :
        0 < answers[i].id /\ answers[i].id <= newest[answers[i].role] /\ answers[i].id # running[answers[i].role]
  /\ \A i, j \in 1..Len(answers) : i < j /\ answers[i].role = answers[j].role => answers[i].id < answers[j].id
  /\ \A i \in 1..Len(answers), j \in 1..Len(jobs) : answers[i].role = jobs[j].role => answers[i].id < jobs[j].id

\* The bridge's stream is the publisher's if there is one, else the player's.
StreamFollows == stream = IF held["publish"] # 0 THEN held["publish"] ELSE held["play"]

\* A session between deactivation and clearing is neither the one the library
\* waits for nor the one it runs, and the poll thread is still where it
\* deactivated it.
LeavingKnown ==
  /\ leaving.id = 0 => leaving = Roles!Nothing
  /\ leaving.id # 0 =>
    /\ pc = IF leaving.superseded THEN "drain" ELSE leaving.role
    /\ leaving.id # pending[leaving.role] \/ leaving.role \in lost
    /\ ~on[leaving.role] \/ leaving.id # running[leaving.role]
    /\ calm => held[leaving.role] = leaving.id

\* A grant on its way, if it is still wanted, has its session installed.
GrantHeld ==
  \A r \in Roles!Roles, i \in 1..Len(answers) :
    answers[i].role = r /\ answers[i].allow /\ answers[i].id = pending[r] =>
       held[r] = pending[r] \/ forced \/ closed \/ r \in lost

\* No older request is queued behind a role that runs its latest one.
NoneBehind ==
  \A r \in Roles!Roles : \A i \in 1..Len(jobs) :
     on[r] /\ running[r] = newest[r] /\ jobs[i].role = r => r \in lost

\* The close job of a closed connection is the last one.
ClosedLast ==
  /\ closed => pc = "rest" /\ (jobs = <<>> => held = Roles!Neither) /\ (jobs # <<>> => jobs[Len(jobs)].role = "close")
  /\ ~closed => \A i \in 1..Len(jobs) : jobs[i].role \in Roles!Roles

\* The bridge and the tracker know no role that the library does not.
Settled(r) == (held[r] # 0 => on[r] \/ pending[r] # 0) /\ (known[r] => on[r])

\* What each stage of an undisturbed tick has established when it is over.
TickSettles ==
  calm =>
    /\ pc \in {"play", "sync", "rest"} => Settled("publish")
    /\ pc \in {"sync", "rest"} => Settled("play")
    /\ pc = "rest" /\ relay # 0 /\ (\A r \in Roles!Roles : on[r] => held[r] # 0) => \E r \in Roles!Roles : held[r] = relay

\* Media is relayed only for a role that the tracker knows or the library is in.
RelayKnown ==
  relay # 0 => \E r \in Roles!Roles : known[r] \/ (pc \in {"play", "sync"} /\ on[r])

\* The inductive invariant of a connection's roles.
RolesInv ==
  /\ RolesTyped /\ Numbers /\ JobsOrdered /\ AnswersOrdered /\ StreamFollows /\ LeavingKnown
  /\ GrantHeld /\ NoneBehind /\ ClosedLast /\ TickSettles /\ RelayKnown /\ Roles!NewestKept /\ Roles!RolesAgree

\* There are two roles.
LEMMA OtherRole == Roles!Other("publish") = "play" /\ Roles!Other("play") = "publish"
  BY DEF Roles!Other, Roles!Roles

\* A connection that has asked for nothing satisfies the invariant.
LEMMA RolesStart == Roles!Init => RolesInv
<1> SUFFICES ASSUME Roles!Init PROVE RolesInv
  OBVIOUS
<1>1. RolesTyped
  <2>1. jobs \in Seq(Job) /\ answers \in Seq(Answer)
    BY DEF Roles!Init
  <2>2. leaving \in Departure
    BY DEF Roles!Init, Roles!Nothing, Departure, Roles!Roles
  <2> QED
    BY <2>1, <2>2 DEF Roles!Init, RolesTyped, Roles!Neither
<1>2. jobs = <<>> /\ answers = <<>> /\ Len(jobs) = 0 /\ Len(answers) = 0
  BY DEF Roles!Init
<1>3. Numbers /\ JobsOrdered /\ AnswersOrdered /\ GrantHeld /\ NoneBehind
  BY <1>2 DEF Roles!Init, Numbers, JobsOrdered, AnswersOrdered, GrantHeld, NoneBehind, Roles!Neither
<1>4. StreamFollows /\ LeavingKnown /\ ClosedLast
  BY <1>2 DEF Roles!Init, StreamFollows, LeavingKnown, ClosedLast, Roles!Neither, Roles!Nothing,
     Roles!Roles
<1>5. TickSettles /\ RelayKnown /\ Roles!NewestKept /\ Roles!RolesAgree
  BY DEF Roles!Init, TickSettles, RelayKnown, Roles!NewestKept, Roles!RolesAgree, Roles!Neither,
     Roles!Roles
<1> QED
  BY <1>1, <1>3, <1>4, <1>5 DEF RolesInv

\* What Append leaves in a queue, by index.
LEMMA LeaveAtEnd ==
  ASSUME NEW S, NEW s \in Seq(S), NEW x \in S
  PROVE  /\ Append(s, x) \in Seq(S) /\ Len(Append(s, x)) = Len(s) + 1
         /\ \A i \in 1..Len(s) : Append(s, x)[i] = s[i] /\ s[i] \in S
         /\ \A i \in 1..Len(Append(s, x)) : i \in 1..Len(s) \/ i = Len(s) + 1
         /\ Append(s, x)[Len(s) + 1] = x /\ Append(s, x) # <<>>
  OBVIOUS

\* The elements of a sequence over S are in S.
LEMMA Elements ==
  ASSUME NEW S, NEW s \in Seq(S)
  PROVE  Len(s) \in Nat /\ \A i \in 1..Len(s) : s[i] \in S
  OBVIOUS

\* The empty sequence has no length.
LEMMA NoElements ==
  ASSUME NEW S, NEW s \in Seq(S), s = <<>>
  PROVE  Len(s) = 0
  OBVIOUS

\* What Tail leaves of a queue, by index.
LEMMA TakeFirst ==
  ASSUME NEW S, NEW s \in Seq(S), s # <<>>
  PROVE  /\ Tail(s) \in Seq(S) /\ Len(s) \in Nat /\ Len(s) > 0 /\ Len(Tail(s)) = Len(s) - 1
         /\ 1 \in 1..Len(s) /\ Head(s) = s[1] /\ Head(s) \in S
         /\ \A i \in 1..Len(Tail(s)) : Tail(s)[i] = s[i + 1] /\ i + 1 \in 1..Len(s) /\ i + 1 > 1 /\ i \in Nat
         /\ \A i \in 1..Len(s) : s[i] \in S
         /\ Tail(s) = <<>> => Len(s) = 1
<1>1. Len(s) \in Nat /\ Len(s) > 0 /\ \A i \in 1..Len(s) : s[i] \in S
  OBVIOUS
<1>2. Tail(s) \in Seq(S) /\ Len(Tail(s)) = Len(s) - 1 /\ Head(s) = s[1]
  OBVIOUS
<1>3. \A i \in 1..Len(Tail(s)) : Tail(s)[i] = s[i + 1]
  BY <1>1, <1>2
<1>4. ASSUME Tail(s) = <<>> PROVE Len(s) = 1
  <2> DEFINE t == Tail(s)
  <2>1. t \in Seq(S) /\ t = <<>> /\ Len(t) = Len(s) - 1
    BY <1>2, <1>4
  <2> HIDE DEF t
  <2>2. Len(t) = 0
    BY <2>1, NoElements
  <2> QED
    BY <1>1, <2>1, <2>2
<1> QED
  BY <1>1, <1>2, <1>3, <1>4

\* What the invariant says of one queued request.
LEMMA JobFacts ==
  ASSUME RolesInv, NEW i \in 1..Len(jobs)
  PROVE  /\ jobs[i] \in Job /\ jobs[i].role \in Roles!Roles \cup {"close"} /\ jobs[i].id \in Nat
         /\ jobs[i].role \in Roles!Roles =>
              /\ 0 < jobs[i].id /\ jobs[i].id <= newest[jobs[i].role] /\ jobs[i].id <= asked
              /\ jobs[i].id # running[jobs[i].role]
<1>1. jobs[i] \in Job
  BY Elements DEF RolesInv, RolesTyped
<1>2. jobs[i].role \in Roles!Roles \cup {"close"} /\ jobs[i].id \in Nat
  BY <1>1 DEF Job
<1>3. ASSUME jobs[i].role \in Roles!Roles
      PROVE  /\ 0 < jobs[i].id /\ jobs[i].id <= newest[jobs[i].role] /\ jobs[i].id # running[jobs[i].role]
             /\ newest[jobs[i].role] <= asked /\ newest[jobs[i].role] \in Nat /\ asked \in Nat
  BY <1>3 DEF RolesInv, RolesTyped, JobsOrdered, Numbers
<1> QED
  BY <1>1, <1>2, <1>3

\* What the invariant says of one answer.
LEMMA AnswerFacts ==
  ASSUME RolesInv, NEW i \in 1..Len(answers)
  PROVE  /\ answers[i] \in Answer /\ answers[i].role \in Roles!Roles /\ answers[i].id \in Nat
         /\ answers[i].allow \in BOOLEAN
         /\ 0 < answers[i].id /\ answers[i].id <= newest[answers[i].role] /\ answers[i].id <= asked
         /\ answers[i].id # running[answers[i].role]
<1>1. answers[i] \in Answer
  BY Elements DEF RolesInv, RolesTyped
<1>2. answers[i].role \in Roles!Roles /\ answers[i].id \in Nat /\ answers[i].allow \in BOOLEAN
  BY <1>1 DEF Answer
<1>3. /\ 0 < answers[i].id /\ answers[i].id <= newest[answers[i].role]
      /\ answers[i].id # running[answers[i].role]
      /\ newest[answers[i].role] <= asked /\ newest[answers[i].role] \in Nat /\ asked \in Nat
  BY <1>2 DEF RolesInv, RolesTyped, AnswersOrdered, Numbers
<1> QED
  BY <1>1, <1>2, <1>3

\* submit_auth queues the newest request of its role.
LEMMA RolesSubmit == ASSUME NEW r \in Roles!Roles, RolesInv, Roles!submit_auth(r) PROVE RolesInv'
<1>1. StreamFollows' /\ ClosedLast' /\ TickSettles' /\ RelayKnown' /\ Roles!RolesAgree'
  BY DEF RolesInv, StreamFollows, ClosedLast, TickSettles, RelayKnown, Roles!RolesAgree, Settled,
     Roles!submit_auth, Roles!Command, Roles!bridge
<1>2. RolesTyped'
  <2>1. asked' \in Nat /\ roleFaults' \in Nat /\ stream' \in Nat /\ relay' \in Nat
    BY DEF RolesInv, RolesTyped, Roles!submit_auth, Roles!Command, Roles!bridge
  <2>2. pending' \in [Roles!Roles -> Nat] /\ held' \in [Roles!Roles -> Nat]
    BY DEF RolesInv, RolesTyped, Roles!submit_auth, Roles!Command, Roles!bridge
  <2>3. newest' \in [Roles!Roles -> Nat] /\ running' \in [Roles!Roles -> Nat]
    BY DEF RolesInv, RolesTyped, Roles!submit_auth, Roles!Command, Roles!bridge
  <2>4. on' \in [Roles!Roles -> BOOLEAN] /\ known' \in [Roles!Roles -> BOOLEAN]
    BY DEF RolesInv, RolesTyped, Roles!submit_auth, Roles!Command, Roles!bridge
  <2>5. jobs' \in Seq(Job)
    BY DEF RolesInv, RolesTyped, Roles!submit_auth, Roles!Command, Roles!bridge, Roles!Roles, Job,
       Answer, Departure
  <2>6. answers' \in Seq(Answer)
    BY DEF RolesInv, RolesTyped, Roles!submit_auth, Roles!Command, Roles!bridge
  <2>7. leaving' \in Departure
    BY DEF RolesInv, RolesTyped, Roles!submit_auth, Roles!Command, Roles!bridge
  <2>8. pc' \in {"rest", "drain", "publish", "play", "sync"} /\ lost' \in SUBSET Roles!Roles
    BY DEF RolesInv, RolesTyped, Roles!submit_auth, Roles!Command, Roles!bridge
  <2>9. idle' \in BOOLEAN /\ forced' \in BOOLEAN /\ closed' \in BOOLEAN /\ calm' \in BOOLEAN
    BY DEF RolesInv, RolesTyped, Roles!submit_auth, Roles!Command, Roles!bridge
  <2> QED
    BY <2>1, <2>2, <2>3, <2>4, <2>5, <2>6, <2>7, <2>8, <2>9 DEF RolesTyped
<1>3. Numbers'
  BY DEF RolesInv, Numbers, RolesTyped, Roles!submit_auth, Roles!Command, Roles!bridge
<1>4. JobsOrdered'
  <2> DEFINE new == [role |-> r, id |-> asked + 1]
  <2>1. /\ new \in Job /\ asked \in Nat /\ jobs \in Seq(Job)
        /\ jobs' = Append(jobs, new) /\ running' = running
        /\ newest' = [newest EXCEPT ![r] = asked + 1]
    BY DEF RolesInv, RolesTyped, Roles!submit_auth, Roles!Command, Job
  <2>2. /\ Len(jobs) \in Nat /\ Len(jobs') = Len(jobs) + 1 /\ jobs'[Len(jobs) + 1] = new
        /\ \A i \in 1..Len(jobs) : jobs'[i] = jobs[i] /\ jobs[i] \in Job
        /\ \A i \in 1..Len(jobs') : i \in 1..Len(jobs) \/ i = Len(jobs) + 1
    BY <2>1, LeaveAtEnd, Elements
  <2>3. ASSUME NEW i \in 1..Len(jobs), jobs[i].role \in Roles!Roles
        PROVE  /\ jobs[i].id \in Nat /\ 0 < jobs[i].id /\ jobs[i].id <= newest'[jobs[i].role]
               /\ jobs[i].id <= asked /\ jobs[i].id # running'[jobs[i].role]
    <3>1. newest \in [Roles!Roles -> Nat] /\ running \in [Roles!Roles -> Nat]
      BY DEF RolesInv, RolesTyped
    <3> QED
      BY <2>1, <2>3, <3>1, JobFacts
  <2>4. newest'[r] = asked + 1 /\ running'[r] <= asked /\ running'[r] \in Nat
    BY <2>1 DEF RolesInv, RolesTyped, Numbers
  <2>5. \A i, j \in 1..Len(jobs) :
           i < j /\ jobs[i].role = jobs[j].role /\ jobs[i].role \in Roles!Roles => jobs[i].id < jobs[j].id
    BY DEF RolesInv, JobsOrdered
  <2> HIDE DEF new
  <2>6. new.role = r /\ new.id = asked + 1
    BY DEF new
  <2>7. ASSUME NEW i \in 1..Len(jobs'), jobs'[i].role \in Roles!Roles
        PROVE  /\ 0 < jobs'[i].id /\ jobs'[i].id <= newest'[jobs'[i].role]
               /\ jobs'[i].id # running'[jobs'[i].role]
    BY <2>1, <2>2, <2>3, <2>4, <2>6, <2>7
  <2>8. ASSUME NEW i \in 1..Len(jobs'), NEW j \in 1..Len(jobs'),
               i < j, jobs'[i].role = jobs'[j].role, jobs'[i].role \in Roles!Roles
        PROVE  jobs'[i].id < jobs'[j].id
    BY <2>1, <2>2, <2>3, <2>5, <2>6, <2>8
  <2> QED
    BY <2>7, <2>8 DEF JobsOrdered
<1>5. AnswersOrdered'
  <2> DEFINE new == [role |-> r, id |-> asked + 1]
  <2>1. /\ new \in Job /\ asked \in Nat /\ jobs \in Seq(Job) /\ answers \in Seq(Answer)
        /\ jobs' = Append(jobs, new) /\ running' = running /\ answers' = answers
        /\ newest' = [newest EXCEPT ![r] = asked + 1]
    BY DEF RolesInv, RolesTyped, Roles!submit_auth, Roles!Command, Job
  <2>2. /\ jobs'[Len(jobs) + 1] = new
        /\ \A i \in 1..Len(jobs) : jobs'[i] = jobs[i]
        /\ \A i \in 1..Len(jobs') : i \in 1..Len(jobs) \/ i = Len(jobs) + 1
    BY <2>1, LeaveAtEnd
  <2>3. ASSUME NEW i \in 1..Len(answers)
        PROVE  /\ answers[i].role \in Roles!Roles /\ answers[i].id \in Nat /\ 0 < answers[i].id
               /\ answers[i].id <= newest'[answers[i].role]
               /\ answers[i].id <= asked /\ answers[i].id # running'[answers[i].role]
    <3>1. newest \in [Roles!Roles -> Nat] /\ running \in [Roles!Roles -> Nat]
      BY DEF RolesInv, RolesTyped
    <3> QED
      BY <2>1, <3>1, AnswerFacts
  <2> HIDE DEF new
  <2>4. new.id = asked + 1
    BY DEF new
  <2>5. ASSUME NEW i \in 1..Len(answers), NEW j \in 1..Len(jobs'), answers[i].role = jobs'[j].role
        PROVE  answers[i].id < jobs'[j].id
    <3>1. CASE j \in 1..Len(jobs)
      BY <2>2, <2>5, <3>1 DEF RolesInv, AnswersOrdered
    <3>2. CASE j = Len(jobs) + 1
      BY <2>1, <2>2, <2>3, <2>4, <3>2
    <3> QED
      BY <2>2, <3>1, <3>2
  <2> QED
    BY <2>1, <2>3, <2>5 DEF RolesInv, AnswersOrdered
<1>6. LeavingKnown'
  BY DEF RolesInv, LeavingKnown, RolesTyped, Roles!Roles, Numbers, AnswersOrdered, ClosedLast,
     Roles!submit_auth, Roles!Command, Roles!bridge, Roles!Nothing
<1>7. GrantHeld'
  BY DEF RolesInv, GrantHeld, RolesTyped, Roles!Roles, Numbers, JobsOrdered, AnswersOrdered,
     LeavingKnown, ClosedLast, Roles!submit_auth, Roles!Command, Roles!bridge
<1>8. NoneBehind'
  BY DEF RolesInv, NoneBehind, RolesTyped, Roles!Roles, Numbers, JobsOrdered, AnswersOrdered,
     Roles!submit_auth, Roles!Command, Roles!bridge
<1>9. Roles!NewestKept'
  BY DEF RolesInv, Roles!NewestKept, RolesTyped, Roles!Roles, Numbers, GrantHeld, NoneBehind,
     LeavingKnown, ClosedLast, JobsOrdered, AnswersOrdered, Roles!submit_auth, Roles!Command,
     Roles!bridge
<1> QED
  BY <1>1, <1>2, <1>3, <1>4, <1>5, <1>6, <1>7, <1>8, <1>9 DEF RolesInv

\* fast_authorize_publish and fast_authorize_play install a session at once.
LEMMA RolesFast == ASSUME NEW r \in Roles!Roles, RolesInv, Roles!fast_authorize(r) PROVE RolesInv'
<1>1. NoneBehind' /\ ClosedLast' /\ TickSettles' /\ RelayKnown' /\ Roles!RolesAgree'
  BY DEF RolesInv, NoneBehind, ClosedLast, TickSettles, RelayKnown, Roles!RolesAgree, Settled,
     Roles!fast_authorize, Roles!Command, Roles!StreamWith, Roles!Queued, Roles!tracker
<1>2. RolesTyped'
  <2>1. asked' \in Nat /\ roleFaults' \in Nat /\ stream' \in Nat /\ relay' \in Nat
    BY DEF RolesInv, RolesTyped, Roles!fast_authorize, Roles!Command, Roles!StreamWith,
       Roles!Queued, Roles!tracker
  <2>2. pending' \in [Roles!Roles -> Nat] /\ held' \in [Roles!Roles -> Nat]
    BY DEF RolesInv, RolesTyped, Roles!fast_authorize, Roles!Command, Roles!StreamWith,
       Roles!Queued, Roles!tracker
  <2>3. newest' \in [Roles!Roles -> Nat] /\ running' \in [Roles!Roles -> Nat]
    BY DEF RolesInv, RolesTyped, Roles!fast_authorize, Roles!Command, Roles!StreamWith,
       Roles!Queued, Roles!tracker
  <2>4. on' \in [Roles!Roles -> BOOLEAN] /\ known' \in [Roles!Roles -> BOOLEAN]
    BY DEF RolesInv, RolesTyped, Roles!fast_authorize, Roles!Command, Roles!StreamWith,
       Roles!Queued, Roles!tracker
  <2>5. jobs' \in Seq(Job)
    BY DEF RolesInv, RolesTyped, Roles!fast_authorize, Roles!Command, Roles!StreamWith,
       Roles!Queued, Roles!tracker
  <2>6. answers' \in Seq(Answer)
    BY DEF RolesInv, RolesTyped, Roles!fast_authorize, Roles!Command, Roles!StreamWith,
       Roles!Queued, Roles!tracker
  <2>7. leaving' \in Departure
    BY DEF RolesInv, RolesTyped, Roles!fast_authorize, Roles!Command, Roles!StreamWith,
       Roles!Queued, Roles!tracker
  <2>8. pc' \in {"rest", "drain", "publish", "play", "sync"} /\ lost' \in SUBSET Roles!Roles
    BY DEF RolesInv, RolesTyped, Roles!fast_authorize, Roles!Command, Roles!StreamWith,
       Roles!Queued, Roles!tracker
  <2>9. idle' \in BOOLEAN /\ forced' \in BOOLEAN /\ closed' \in BOOLEAN /\ calm' \in BOOLEAN
    BY DEF RolesInv, RolesTyped, Roles!fast_authorize, Roles!Command, Roles!StreamWith,
       Roles!Queued, Roles!tracker
  <2> QED
    BY <2>1, <2>2, <2>3, <2>4, <2>5, <2>6, <2>7, <2>8, <2>9 DEF RolesTyped
<1>3. Numbers'
  BY DEF RolesInv, Numbers, RolesTyped, Roles!fast_authorize, Roles!Command, Roles!StreamWith,
     Roles!Queued, Roles!tracker
<1>4. JobsOrdered'
  <2>1. /\ asked \in Nat /\ jobs \in Seq(Job) /\ answers \in Seq(Answer)
        /\ jobs' = jobs /\ answers' = answers /\ held' = [held EXCEPT ![r] = asked + 1]
        /\ running' = [running EXCEPT ![r] = asked + 1]
        /\ newest' = [newest EXCEPT ![r] = asked + 1]
    BY DEF RolesInv, RolesTyped, Roles!fast_authorize, Roles!Command
  <2>2. \A i \in 1..Len(jobs) : jobs[i] \in Job
    BY <2>1, Elements
  <2>3. ASSUME NEW i \in 1..Len(jobs), jobs[i].role \in Roles!Roles
        PROVE  /\ jobs[i].id \in Nat /\ 0 < jobs[i].id /\ jobs[i].id <= newest'[jobs[i].role]
               /\ jobs[i].id <= asked /\ jobs[i].id # running'[jobs[i].role]
    <3>1. newest \in [Roles!Roles -> Nat] /\ running \in [Roles!Roles -> Nat]
      BY DEF RolesInv, RolesTyped
    <3>2. /\ jobs[i].id \in Nat /\ 0 < jobs[i].id /\ jobs[i].id <= newest[jobs[i].role]
          /\ jobs[i].id <= asked /\ jobs[i].id # running[jobs[i].role]
      BY <2>3, JobFacts
    <3> QED
      BY <2>1, <2>3, <3>1, <3>2
  <2> QED
    BY <2>1, <2>3 DEF RolesInv, JobsOrdered
<1>5. AnswersOrdered'
  <2>1. /\ asked \in Nat /\ jobs \in Seq(Job) /\ answers \in Seq(Answer)
        /\ jobs' = jobs /\ answers' = answers /\ held' = [held EXCEPT ![r] = asked + 1]
        /\ running' = [running EXCEPT ![r] = asked + 1]
        /\ newest' = [newest EXCEPT ![r] = asked + 1]
    BY DEF RolesInv, RolesTyped, Roles!fast_authorize, Roles!Command
  <2>2. \A i \in 1..Len(answers) : answers[i] \in Answer
    BY <2>1, Elements
  <2>3. ASSUME NEW i \in 1..Len(answers)
        PROVE  /\ answers[i].role \in Roles!Roles /\ answers[i].id \in Nat /\ 0 < answers[i].id
               /\ answers[i].id <= newest'[answers[i].role]
               /\ answers[i].id <= asked /\ answers[i].id # running'[answers[i].role]
    <3>1. newest \in [Roles!Roles -> Nat] /\ running \in [Roles!Roles -> Nat]
      BY DEF RolesInv, RolesTyped
    <3> QED
      BY <2>1, <3>1, AnswerFacts
  <2> QED
    BY <2>1, <2>3 DEF RolesInv, AnswersOrdered
<1>6. StreamFollows'
  BY DEF RolesInv, StreamFollows, RolesTyped, Roles!Roles, Roles!fast_authorize, Roles!Command,
     Roles!StreamWith, Roles!Queued, Roles!tracker
<1>7. LeavingKnown'
  BY DEF RolesInv, LeavingKnown, RolesTyped, Roles!Roles, Numbers, AnswersOrdered, ClosedLast,
     Roles!fast_authorize, Roles!Command, Roles!StreamWith, Roles!Queued, Roles!tracker,
     Roles!Nothing
<1>8. GrantHeld'
  <2>1. /\ answers \in Seq(Answer) /\ answers' = answers /\ forced' = forced /\ closed' = closed
        /\ pending' = [pending EXCEPT ![r] = 0] /\ pending \in [Roles!Roles -> Nat]
        /\ held' = [held EXCEPT ![r] = asked + 1] /\ held \in [Roles!Roles -> Nat] /\ lost \subseteq lost'
    BY DEF RolesInv, RolesTyped, Roles!fast_authorize, Roles!Command
  <2>2. \A i \in 1..Len(answers) : answers[i].id > 0
    BY DEF RolesInv, AnswersOrdered
  <2> QED
    BY <2>1, <2>2 DEF RolesInv, GrantHeld
<1>9. Roles!NewestKept'
  BY DEF RolesInv, Roles!NewestKept, RolesTyped, Roles!fast_authorize, Roles!Command,
     Roles!StreamWith, Roles!Queued, Roles!tracker
<1> QED
  BY <1>1, <1>2, <1>3, <1>4, <1>5, <1>6, <1>7, <1>8, <1>9 DEF RolesInv

\* FCUnpublish and closeStream end a role and drop its request.
LEMMA RolesStop == ASSUME NEW r \in Roles!Roles, RolesInv, Roles!StopRole(r) PROVE RolesInv'
<1>1. Numbers' /\ JobsOrdered' /\ AnswersOrdered' /\ StreamFollows' /\ LeavingKnown' /\
      NoneBehind' /\ ClosedLast' /\ TickSettles' /\ RelayKnown' /\ Roles!NewestKept' /\ Roles!RolesAgree'
  BY DEF RolesInv, Numbers, JobsOrdered, AnswersOrdered, StreamFollows, LeavingKnown, NoneBehind,
     ClosedLast, TickSettles, RelayKnown, Roles!NewestKept, Roles!RolesAgree, Settled,
     Roles!StopRole, Roles!bridge, Roles!tracker, Roles!history
<1>2. RolesTyped'
  BY DEF RolesInv, RolesTyped, Roles!StopRole, Roles!bridge, Roles!tracker, Roles!history
<1>3. GrantHeld'
  <2>1. /\ answers \in Seq(Answer) /\ answers' = answers /\ forced' = forced /\ closed' = closed
        /\ pending' = [pending EXCEPT ![r] = 0] /\ pending \in [Roles!Roles -> Nat]
        /\ held' = held /\ lost' = lost
    BY DEF RolesInv, RolesTyped, Roles!StopRole, Roles!bridge, Roles!history
  <2>2. \A i \in 1..Len(answers) : answers[i].id > 0
    BY DEF RolesInv, AnswersOrdered
  <2> QED
    BY <2>1, <2>2 DEF RolesInv, GrantHeld
<1> QED
  BY <1>1, <1>2, <1>3 DEF RolesInv

\* The tick visits a role: a session that outlives it is deactivated.
LEMMA RolesVisit == ASSUME NEW r \in Roles!Roles, RolesInv, Roles!VisitRole(r) PROVE RolesInv'
<1>1. Numbers' /\ JobsOrdered' /\ AnswersOrdered' /\ StreamFollows' /\ GrantHeld' /\ NoneBehind'
      /\ Roles!NewestKept' /\ Roles!RolesAgree'
  BY DEF RolesInv, Numbers, JobsOrdered, AnswersOrdered, StreamFollows, GrantHeld, NoneBehind,
     Roles!NewestKept, Roles!RolesAgree, Roles!VisitRole, Roles!Deactivate, Roles!Ended,
     Roles!AfterVisit, Roles!Forget, Roles!library, Roles!tracker
<1>2. RolesTyped'
  <2>1. asked' \in Nat /\ roleFaults' \in Nat /\ stream' \in Nat /\ relay' \in Nat
    BY DEF RolesInv, RolesTyped, Roles!VisitRole, Roles!Deactivate, Roles!Ended, Roles!AfterVisit,
       Roles!Forget, Roles!library, Roles!tracker
  <2>2. pending' \in [Roles!Roles -> Nat] /\ held' \in [Roles!Roles -> Nat]
    BY DEF RolesInv, RolesTyped, Roles!VisitRole, Roles!Deactivate, Roles!Ended, Roles!AfterVisit,
       Roles!Forget, Roles!library, Roles!tracker
  <2>3. newest' \in [Roles!Roles -> Nat] /\ running' \in [Roles!Roles -> Nat]
    BY DEF RolesInv, RolesTyped, Roles!VisitRole, Roles!Deactivate, Roles!Ended, Roles!AfterVisit,
       Roles!Forget, Roles!library, Roles!tracker
  <2>4. on' \in [Roles!Roles -> BOOLEAN] /\ known' \in [Roles!Roles -> BOOLEAN]
    <3>1. on' = on /\ (known' = known \/ known' = [known EXCEPT ![r] = FALSE])
      BY DEF Roles!VisitRole, Roles!Forget, Roles!library, Roles!tracker
    <3> QED
      BY <3>1 DEF RolesInv, RolesTyped
  <2>5. jobs' \in Seq(Job)
    BY DEF RolesInv, RolesTyped, Roles!VisitRole, Roles!Deactivate, Roles!Ended, Roles!AfterVisit,
       Roles!Forget, Roles!library, Roles!tracker
  <2>6. answers' \in Seq(Answer)
    BY DEF RolesInv, RolesTyped, Roles!VisitRole, Roles!Deactivate, Roles!Ended, Roles!AfterVisit,
       Roles!Forget, Roles!library, Roles!tracker
  <2>7. leaving' \in Departure
    <3>1. leaving' = leaving \/ leaving' = [role |-> r, id |-> held[r], superseded |-> FALSE]
      BY DEF Roles!VisitRole, Roles!Deactivate
    <3>2. held[r] \in Nat
      BY DEF RolesInv, RolesTyped
    <3>3. leaving \in Departure
      BY DEF RolesInv, RolesTyped
    <3>4. [role |-> r, id |-> held[r], superseded |-> FALSE] \in Departure
      BY <3>2 DEF Departure
    <3> QED
      BY <3>1, <3>3, <3>4
  <2>8. pc' \in {"rest", "drain", "publish", "play", "sync"} /\ lost' \in SUBSET Roles!Roles
    BY DEF RolesInv, RolesTyped, Roles!VisitRole, Roles!Deactivate, Roles!Ended, Roles!AfterVisit,
       Roles!Forget, Roles!library, Roles!tracker
  <2>9. idle' \in BOOLEAN /\ forced' \in BOOLEAN /\ closed' \in BOOLEAN /\ calm' \in BOOLEAN
    BY DEF RolesInv, RolesTyped, Roles!VisitRole, Roles!Deactivate, Roles!Ended, Roles!AfterVisit,
       Roles!Forget, Roles!library, Roles!tracker
  <2> QED
    BY <2>1, <2>2, <2>3, <2>4, <2>5, <2>6, <2>7, <2>8, <2>9 DEF RolesTyped
<1>3. LeavingKnown'
  BY DEF RolesInv, LeavingKnown, RolesTyped, Roles!VisitRole, Roles!Deactivate, Roles!Ended,
     Roles!AfterVisit, Roles!Forget, Roles!library, Roles!tracker, Roles!Nothing
<1>4. ClosedLast'
  BY OtherRole DEF RolesInv, ClosedLast, RolesTyped, Roles!Roles, LeavingKnown, Roles!VisitRole,
     Roles!Deactivate, Roles!Ended, Roles!AfterVisit, Roles!Forget, Roles!library, Roles!tracker,
     Roles!Nothing, Roles!Neither
<1>5. TickSettles'
  <2> SUFFICES ASSUME calm' PROVE TickSettles'
    BY DEF TickSettles
  <2>1. CASE Roles!Ended(r) /\ held[r] # 0
    <3>0. Roles!Deactivate(r, FALSE) /\ calm' # FALSE
      BY <2>1 DEF Roles!VisitRole
    <3>3. leaving' = [role |-> r, id |-> held[r], superseded |-> FALSE] /\ calm' = calm
      BY <3>0 DEF Roles!Deactivate
    <3>1. leaving' = [role |-> r, id |-> held[r], superseded |-> FALSE] /\ leaving' # Roles!Nothing
          /\ calm' = calm
      BY <2>1, <3>3 DEF Roles!Nothing
    <3>2. pc' = pc /\ pc = r /\ held' = held /\ on' = on /\ pending' = pending /\ known' = known
      BY <2>1, <3>1 DEF Roles!VisitRole, Roles!library, Roles!tracker
    <3> QED
      BY <3>1, <3>2 DEF RolesInv, TickSettles, Settled, Roles!Roles
  <2>2. CASE ~(Roles!Ended(r) /\ held[r] # 0)
    BY <2>2, OtherRole DEF RolesInv, TickSettles, Settled, RolesTyped, Roles!Roles, RelayKnown,
       StreamFollows, LeavingKnown, ClosedLast, Roles!VisitRole, Roles!Ended,
       Roles!AfterVisit, Roles!Forget, Roles!library, Roles!tracker, Roles!Nothing
  <2> QED
    BY <2>1, <2>2
<1>6. RelayKnown'
  BY OtherRole DEF RolesInv, RelayKnown, RolesTyped, Roles!Roles, TickSettles, Settled,
     Roles!VisitRole, Roles!Deactivate, Roles!Ended, Roles!AfterVisit, Roles!Forget, Roles!library,
     Roles!tracker, Roles!Nothing
<1> QED
  BY <1>1, <1>2, <1>3, <1>4, <1>5, <1>6 DEF RolesInv

\* The worker grants, denies or closes; a grant never replaces the session of
\* a role that already runs its latest request.
LEMMA RolesWork == ASSUME RolesInv, Roles!Work PROVE RolesInv'
<1> DEFINE j == Head(jobs)
           granted == [role |-> j.role, id |-> j.id, allow |-> TRUE]
           denied == [role |-> j.role, id |-> j.id, allow |-> FALSE]
<1>1. /\ jobs \in Seq(Job) /\ answers \in Seq(Answer) /\ held \in [Roles!Roles -> Nat] /\ stream \in Nat
      /\ Len(jobs) \in Nat /\ Len(answers) \in Nat
  BY Elements DEF RolesInv, RolesTyped
<1>2. /\ jobs # <<>> /\ jobs' = Tail(jobs) /\ calm' = FALSE
      /\ asked' = asked /\ pending' = pending /\ on' = on /\ known' = known /\ relay' = relay
      /\ pc' = pc /\ leaving' = leaving /\ idle' = idle /\ forced' = forced /\ closed' = closed
      /\ roleFaults' = roleFaults /\ newest' = newest /\ running' = running /\ lost' = lost
  BY DEF Roles!Work, Roles!library, Roles!tracker, Roles!history
<1>3. /\ jobs' \in Seq(Job) /\ 1 \in 1..Len(jobs) /\ j = jobs[1] /\ Len(jobs') = Len(jobs) - 1
      /\ j.role \in Roles!Roles \cup {"close"} /\ j.id \in Nat
      /\ jobs' = <<>> => Len(jobs) = 1
  BY <1>1, <1>2, TakeFirst, JobFacts
<1>4. \A i \in 1..Len(jobs') : jobs'[i] = jobs[i + 1] /\ i + 1 \in 1..Len(jobs) /\ i + 1 > 1 /\ i \in Nat
  BY <1>1, <1>2, TakeFirst
<1>5. j.role \in Roles!Roles =>
        /\ 0 < j.id /\ j.id <= newest[j.role] /\ j.id <= asked /\ j.id # running[j.role]
        /\ \A i \in 1..Len(jobs') : jobs'[i].role = j.role => j.id < jobs'[i].id
        /\ \A i \in 1..Len(answers) : answers[i].role = j.role => answers[i].id < j.id
  <2>1. j.role \in Roles!Roles =>
          0 < j.id /\ j.id <= newest[j.role] /\ j.id <= asked /\ j.id # running[j.role]
    BY <1>3, JobFacts
  <2>2. ASSUME j.role \in Roles!Roles, NEW i \in 1..Len(jobs'), jobs'[i].role = j.role
        PROVE  j.id < jobs'[i].id
    BY <1>3, <1>4, <2>2 DEF RolesInv, JobsOrdered
  <2>3. ASSUME NEW i \in 1..Len(answers), answers[i].role = j.role
        PROVE  answers[i].id < j.id
    BY <1>3, <2>3 DEF RolesInv, AnswersOrdered
  <2> QED
    BY <2>1, <2>2, <2>3
<1>6. \/ j.role = "close" /\ held' = Roles!Neither /\ stream' = 0 /\ answers' = answers
      \/ /\ j.role \in Roles!Roles /\ held' = [held EXCEPT ![j.role] = j.id]
         /\ stream' = Roles!StreamWith(j.role, j.id) /\ answers' = Append(answers, granted)
      \/ j.role \in Roles!Roles /\ held' = held /\ stream' = stream /\ answers' = Append(answers, denied)
  BY <1>3 DEF Roles!Work, Roles!bridge
<1>7. j.role \in Roles!Roles =>
        /\ granted \in Answer /\ granted.role = j.role /\ granted.id = j.id
        /\ denied \in Answer /\ denied.role = j.role /\ denied.id = j.id
        /\ denied.allow = FALSE
  BY <1>3 DEF Answer
<1>8. Roles!Neither \in [Roles!Roles -> Nat] /\ "close" \notin Roles!Roles
  BY DEF Roles!Neither, Roles!Roles
<1> HIDE DEF j, granted, denied
<1>9. /\ answers' \in Seq(Answer)
      /\ \A i \in 1..Len(answers') :
            \/ i \in 1..Len(answers) /\ answers'[i] = answers[i]
            \/ /\ i = Len(answers) + 1 /\ j.role \in Roles!Roles /\ i \notin 1..Len(answers)
               /\ answers'[i].role = j.role /\ answers'[i].id = j.id
               /\ answers'[i].allow => held' = [held EXCEPT ![j.role] = j.id]
  <2>1. CASE answers' = answers
    BY <1>1, <2>1
  <2>2. CASE /\ j.role \in Roles!Roles /\ held' = [held EXCEPT ![j.role] = j.id]
             /\ answers' = Append(answers, granted)
    <3>1. granted \in Answer /\ Len(answers) + 1 \notin 1..Len(answers)
      BY <1>1, <1>7, <2>2
    <3>2. /\ answers' \in Seq(Answer) /\ answers'[Len(answers) + 1] = granted
          /\ \A i \in 1..Len(answers) : answers'[i] = answers[i]
          /\ \A i \in 1..Len(answers') : i \in 1..Len(answers) \/ i = Len(answers) + 1
      BY <1>1, <2>2, <3>1, LeaveAtEnd
    <3> QED
      BY <1>7, <2>2, <3>1, <3>2
  <2>3. CASE j.role \in Roles!Roles /\ answers' = Append(answers, denied)
    <3>1. denied \in Answer /\ Len(answers) + 1 \notin 1..Len(answers)
      BY <1>1, <1>7, <2>3
    <3>2. /\ answers' \in Seq(Answer) /\ answers'[Len(answers) + 1] = denied
          /\ \A i \in 1..Len(answers) : answers'[i] = answers[i]
          /\ \A i \in 1..Len(answers') : i \in 1..Len(answers) \/ i = Len(answers) + 1
      BY <1>1, <2>3, <3>1, LeaveAtEnd
    <3> QED
      BY <1>7, <2>3, <3>1, <3>2
  <2> QED
    BY <1>6, <2>1, <2>2, <2>3
<1>10. RolesTyped'
  <2>1. held' \in [Roles!Roles -> Nat] /\ stream' \in Nat
    <3>1. held' = Roles!Neither \/ held' = held \/ (j.role \in Roles!Roles /\ held' = [held EXCEPT ![j.role] = j.id])
      BY <1>6
    <3>2. stream' \in {0, stream, j.id}
      BY <1>6 DEF Roles!StreamWith
    <3> QED
      BY <1>1, <1>3, <1>8, <3>1, <3>2
  <2>2. jobs' \in Seq(Job) /\ answers' \in Seq(Answer)
    BY <1>3, <1>9
  <2> QED
    BY <1>2, <2>1, <2>2 DEF RolesInv, RolesTyped
<1>11. Numbers'
  BY <1>2 DEF RolesInv, Numbers
<1>12. JobsOrdered'
  <2>1. ASSUME NEW i \in 1..Len(jobs'), jobs'[i].role \in Roles!Roles
        PROVE  /\ 0 < jobs'[i].id /\ jobs'[i].id <= newest[jobs'[i].role]
               /\ jobs'[i].id # running[jobs'[i].role]
    BY <1>4, <2>1 DEF RolesInv, JobsOrdered
  <2>2. ASSUME NEW i \in 1..Len(jobs'), NEW k \in 1..Len(jobs'),
               i < k, jobs'[i].role = jobs'[k].role, jobs'[i].role \in Roles!Roles
        PROVE  jobs'[i].id < jobs'[k].id
    <3>1. i + 1 < k + 1
      BY <1>4, <2>2
    <3> QED
      BY <1>4, <2>2, <3>1 DEF RolesInv, JobsOrdered
  <2> QED
    BY <1>2, <2>1, <2>2 DEF JobsOrdered
<1>13. AnswersOrdered'
  <2>1. ASSUME NEW i \in 1..Len(answers')
        PROVE  /\ 0 < answers'[i].id /\ answers'[i].id <= newest[answers'[i].role]
               /\ answers'[i].id # running[answers'[i].role]
    BY <1>5, <1>9 DEF RolesInv, AnswersOrdered
  <2>2. ASSUME NEW i \in 1..Len(answers'), NEW k \in 1..Len(answers'),
               i < k, answers'[i].role = answers'[k].role
        PROVE  answers'[i].id < answers'[k].id
    <3>1. CASE k \in 1..Len(answers)
      <4>1. i \in 1..Len(answers) /\ answers'[i] = answers[i] /\ answers'[k] = answers[k]
        BY <1>1, <1>9, <2>2, <3>1
      <4> QED
        BY <2>2, <3>1, <4>1 DEF RolesInv, AnswersOrdered
    <3>2. CASE k \notin 1..Len(answers)
      BY <1>1, <1>5, <1>9, <2>2, <3>2
    <3> QED
      BY <3>1, <3>2
  <2>3. ASSUME NEW i \in 1..Len(answers'), NEW k \in 1..Len(jobs'), answers'[i].role = jobs'[k].role
        PROVE  answers'[i].id < jobs'[k].id
    <3>1. CASE i \in 1..Len(answers) /\ answers'[i] = answers[i]
      BY <1>4, <2>3, <3>1 DEF RolesInv, AnswersOrdered
    <3>2. CASE j.role \in Roles!Roles /\ answers'[i].role = j.role /\ answers'[i].id = j.id
      BY <1>5, <2>3, <3>2
    <3> QED
      BY <1>9, <3>1, <3>2
  <2> QED
    BY <1>2, <2>1, <2>2, <2>3 DEF AnswersOrdered
<1>14. StreamFollows'
  <2>1. stream = IF held["publish"] # 0 THEN held["publish"] ELSE held["play"]
    BY DEF RolesInv, StreamFollows
  <2>2. CASE held' = Roles!Neither /\ stream' = 0
    BY <2>2 DEF StreamFollows, Roles!Neither, Roles!Roles
  <2>3. CASE held' = held /\ stream' = stream
    BY <2>1, <2>3 DEF StreamFollows
  <2>4. CASE /\ j.role \in Roles!Roles /\ held' = [held EXCEPT ![j.role] = j.id]
             /\ stream' = Roles!StreamWith(j.role, j.id)
    BY <1>1, <1>3, <1>5, <2>1, <2>4 DEF StreamFollows, Roles!StreamWith, Roles!Roles
  <2> QED
    BY <1>6, <2>2, <2>3, <2>4
<1>15. LeavingKnown'
  BY <1>2 DEF RolesInv, LeavingKnown
<1>16. j.role = "close" => closed
  BY <1>3, <1>8 DEF RolesInv, ClosedLast, RolesTyped
<1>17. GrantHeld'
  <2> SUFFICES ASSUME NEW r \in Roles!Roles, NEW i \in 1..Len(answers'), ~forced, ~closed, r \notin lost,
                      answers'[i].role = r, answers'[i].allow, answers'[i].id = pending[r]
               PROVE  held'[r] = pending[r]
    BY <1>2 DEF GrantHeld
  <2>1. CASE j.role = r
    <3>1. pending[r] = newest[r]
      <4>1. answers'[i].id # 0
        BY <1>13 DEF AnswersOrdered
      <4> QED
        BY <4>1 DEF RolesInv, Numbers
    <3>2. i \notin 1..Len(answers)
      <4>1. newest[r] \in Nat
        BY DEF RolesInv, RolesTyped
      <4>2. ASSUME i \in 1..Len(answers) PROVE FALSE
        <5>1. answers'[i] = answers[i] /\ answers[i].id \in Nat
          BY <1>9, <4>2, AnswerFacts
        <5> QED
          BY <1>3, <1>5, <2>1, <3>1, <4>1, <4>2, <5>1
      <4> QED
        BY <4>2
    <3> QED
      BY <1>1, <1>9, <2>1, <3>2
  <2>2. CASE j.role # r
    <3>1. i \in 1..Len(answers) /\ answers'[i] = answers[i] /\ held'[r] = held[r]
      BY <1>1, <1>6, <1>9, <1>16, <2>2
    <3> QED
      BY <3>1 DEF RolesInv, GrantHeld
  <2> QED
    BY <2>1, <2>2
<1>18. NoneBehind'
  BY <1>2, <1>4 DEF RolesInv, NoneBehind
<1>19. ClosedLast'
  <2>1. ~closed => \A i \in 1..Len(jobs') : jobs'[i].role \in Roles!Roles
    BY <1>4 DEF RolesInv, ClosedLast
  <2>2. closed => pc = "rest" /\ jobs[Len(jobs)].role = "close"
    BY <1>2 DEF RolesInv, ClosedLast
  <2>3. ASSUME closed, jobs' = <<>> PROVE held' = Roles!Neither
    BY <1>3, <1>6, <1>8, <2>2, <2>3
  <2>4. ASSUME closed, jobs' # <<>> PROVE jobs'[Len(jobs')].role = "close"
    <3>1. Len(jobs') \in 1..Len(jobs') /\ Len(jobs') + 1 = Len(jobs)
      <4>1. Len(jobs') \in Nat /\ Len(jobs') > 0
        BY <1>3, <2>4, TakeFirst
      <4> QED
        BY <1>1, <1>3, <4>1
    <3> QED
      BY <1>4, <2>2, <2>4, <3>1
  <2> QED
    BY <1>2, <2>1, <2>2, <2>3, <2>4 DEF ClosedLast
<1>20. TickSettles'
  BY <1>2 DEF TickSettles
<1>21. RelayKnown'
  BY <1>2 DEF RolesInv, RelayKnown
<1>22. Roles!NewestKept'
  <2> SUFFICES ASSUME NEW r \in Roles!Roles, on[r], running[r] = newest[r], ~forced, ~closed, r \notin lost
               PROVE  held'[r] = newest[r]
    BY <1>2 DEF Roles!NewestKept
  <2>1. held[r] = newest[r]
    BY DEF RolesInv, Roles!NewestKept
  <2>2. j.role # r
    BY <1>3 DEF RolesInv, NoneBehind
  <2> QED
    BY <1>1, <1>6, <1>16, <2>1, <2>2
<1>23. Roles!RolesAgree'
  BY <1>2, <1>19 DEF Roles!RolesAgree, ClosedLast
<1> QED
  BY <1>10, <1>11, <1>12, <1>13, <1>14, <1>15, <1>17, <1>18, <1>19, <1>20, <1>21, <1>22, <1>23 DEF
     RolesInv

\* A forced close takes every session.
LEMMA RolesForce == ASSUME RolesInv, Roles!ForceClose PROVE RolesInv'
<1>1. Numbers' /\ JobsOrdered' /\ AnswersOrdered' /\ LeavingKnown' /\ GrantHeld' /\ NoneBehind'
      /\ ClosedLast' /\ TickSettles' /\ RelayKnown' /\ Roles!NewestKept' /\ Roles!RolesAgree'
  BY DEF RolesInv, Numbers, JobsOrdered, AnswersOrdered, LeavingKnown, GrantHeld, NoneBehind,
     ClosedLast, TickSettles, RelayKnown, Roles!NewestKept, Roles!RolesAgree, Settled,
     Roles!ForceClose, Roles!library, Roles!tracker, Roles!history
<1>2. RolesTyped'
  BY DEF RolesInv, RolesTyped, Roles!ForceClose, Roles!library, Roles!tracker, Roles!history,
     Roles!Neither
<1>3. StreamFollows'
  BY DEF RolesInv, StreamFollows, RolesTyped, Roles!Roles, Roles!ForceClose, Roles!library,
     Roles!tracker, Roles!history, Roles!Neither
<1> QED
  BY <1>1, <1>2, <1>3 DEF RolesInv

\* The pre-auth window ends.
LEMMA RolesWindow == ASSUME RolesInv, Roles!WindowEnds PROVE RolesInv'
<1>1. Numbers' /\ JobsOrdered' /\ AnswersOrdered' /\ StreamFollows' /\ LeavingKnown' /\
      GrantHeld' /\ NoneBehind' /\ ClosedLast' /\ TickSettles' /\ RelayKnown' /\ Roles!NewestKept' /\
      Roles!RolesAgree'
  BY DEF RolesInv, Numbers, JobsOrdered, AnswersOrdered, StreamFollows, LeavingKnown, GrantHeld,
     NoneBehind, ClosedLast, TickSettles, RelayKnown, Roles!NewestKept, Roles!RolesAgree, Settled,
     Roles!WindowEnds, Roles!library, Roles!bridge, Roles!tracker, Roles!history
<1>2. RolesTyped'
  BY DEF RolesInv, RolesTyped, Roles!WindowEnds, Roles!library, Roles!bridge, Roles!tracker,
     Roles!history
<1> QED
  BY <1>1, <1>2 DEF RolesInv

\* A tick begins at rest, with no release half done.
LEMMA RolesTick == ASSUME RolesInv, Roles!TickStarts PROVE RolesInv'
<1>1. Numbers' /\ JobsOrdered' /\ AnswersOrdered' /\ StreamFollows' /\ GrantHeld' /\ NoneBehind'
      /\ ClosedLast' /\ TickSettles' /\ RelayKnown' /\ Roles!NewestKept' /\ Roles!RolesAgree'
  BY DEF RolesInv, Numbers, JobsOrdered, AnswersOrdered, StreamFollows, GrantHeld, NoneBehind,
     ClosedLast, TickSettles, RelayKnown, Roles!NewestKept, Roles!RolesAgree, Settled,
     Roles!TickStarts, Roles!library, Roles!bridge, Roles!tracker, Roles!history
<1>2. RolesTyped'
  BY DEF RolesInv, RolesTyped, Roles!TickStarts, Roles!library, Roles!bridge, Roles!tracker,
     Roles!history
<1>3. LeavingKnown'
  BY OtherRole DEF RolesInv, LeavingKnown, RolesTyped, Roles!Roles, Job, Answer, Departure,
     Roles!Neither, Roles!Nothing, Numbers, AnswersOrdered, ClosedLast, Roles!TickStarts,
     Roles!library, Roles!bridge, Roles!tracker, Roles!history
<1> QED
  BY <1>1, <1>2, <1>3 DEF RolesInv

\* apply_auth_completion gives back the session of a late answer only, and the
\* answer it takes is for the latest request.
LEMMA RolesApply == ASSUME RolesInv, Roles!apply_auth_completion PROVE RolesInv'
<1> DEFINE a == Head(answers)
           R == a.role
           wanted == pending[R] = a.id
<1>1. /\ jobs \in Seq(Job) /\ answers \in Seq(Answer) /\ held \in [Roles!Roles -> Nat]
      /\ pending \in [Roles!Roles -> Nat] /\ running \in [Roles!Roles -> Nat] /\ newest \in [Roles!Roles -> Nat]
      /\ on \in [Roles!Roles -> BOOLEAN] /\ roleFaults \in Nat /\ leaving \in Departure
  BY DEF RolesInv, RolesTyped
<1>2. /\ pc = "drain" /\ leaving = Roles!Nothing /\ answers # <<>> /\ answers' = Tail(answers)
      /\ asked' = asked /\ jobs' = jobs /\ held' = held /\ stream' = stream /\ known' = known
      /\ relay' = relay /\ pc' = pc /\ idle' = idle /\ forced' = forced /\ closed' = closed
      /\ newest' = newest /\ lost' = lost /\ calm' \in {calm, FALSE}
  BY DEF Roles!apply_auth_completion, Roles!Deactivate, Roles!bridge, Roles!tracker
<1>3. /\ answers' \in Seq(Answer) /\ 1 \in 1..Len(answers) /\ a = answers[1]
      /\ R \in Roles!Roles /\ a.id \in Nat /\ a.allow \in BOOLEAN
      /\ 0 < a.id /\ a.id <= newest[R] /\ a.id # running[R]
  BY <1>1, <1>2, TakeFirst, AnswerFacts
<1>4. \A i \in 1..Len(answers') :
         answers'[i] = answers[i + 1] /\ i + 1 \in 1..Len(answers) /\ i + 1 > 1 /\ i \in Nat
  BY <1>1, <1>2, TakeFirst
<1>5. running' = IF wanted /\ a.allow THEN [running EXCEPT ![R] = a.id] ELSE running
  BY DEF Roles!apply_auth_completion
<1>6. pending' = IF wanted THEN [pending EXCEPT ![R] = 0] ELSE pending
  BY DEF Roles!apply_auth_completion
<1>7. PICK stays \in BOOLEAN :
         on' = IF ~wanted THEN on ELSE [on EXCEPT ![R] = IF a.allow THEN TRUE ELSE @ /\ stays]
  BY DEF Roles!apply_auth_completion
<1>8. \/ leaving' = leaving /\ roleFaults' \in {roleFaults, roleFaults + 1}
      \/ /\ roleFaults' = roleFaults /\ leaving' = [role |-> R, id |-> held[R], superseded |-> TRUE]
         /\ a.allow /\ held[R] = a.id /\ ~(pending'[R] = 0 /\ on'[R])
  BY DEF Roles!apply_auth_completion, Roles!Deactivate, Roles!StillHolds
<1>9. \A i \in 1..Len(answers') : answers'[i].role = R => a.id < answers'[i].id
  BY <1>3, <1>4 DEF RolesInv, AnswersOrdered
<1>10. \A i \in 1..Len(jobs) : jobs[i].role = R => a.id < jobs[i].id
  BY <1>3 DEF RolesInv, AnswersOrdered
<1> HIDE DEF a, R, wanted
<1>11. wanted /\ a.allow => pending'[R] = 0 /\ on'[R]
  BY <1>1, <1>3, <1>6, <1>7
<1>12. wanted => a.id = pending[R] /\ pending[R] = newest[R]
  BY <1>3 DEF wanted, RolesInv, Numbers
<1>13. RolesTyped'
  <2>1. running' \in [Roles!Roles -> Nat] /\ pending' \in [Roles!Roles -> Nat]
    BY <1>1, <1>3, <1>5, <1>6
  <2>2. on' \in [Roles!Roles -> BOOLEAN]
    BY <1>1, <1>3, <1>7
  <2>3. leaving' \in Departure /\ roleFaults' \in Nat
    <3>1. held[R] \in Nat
      BY <1>1, <1>3
    <3>2. [role |-> R, id |-> held[R], superseded |-> TRUE] \in Departure
      BY <1>3, <3>1 DEF Departure
    <3>3. roleFaults' \in Nat
      BY <1>1, <1>8
    <3> QED
      BY <1>1, <1>8, <3>2, <3>3
  <2> QED
    BY <1>2, <1>3, <2>1, <2>2, <2>3 DEF RolesInv, RolesTyped
<1>14. Numbers'
  <2> SUFFICES ASSUME NEW r \in Roles!Roles
               PROVE  /\ newest[r] <= asked /\ running'[r] <= newest[r]
                      /\ pending'[r] # 0 => pending'[r] = newest[r]
    BY <1>2 DEF Numbers
  <2>1. newest[r] <= asked /\ running[r] <= newest[r] /\ (pending[r] # 0 => pending[r] = newest[r])
    BY DEF RolesInv, Numbers
  <2> QED
    BY <1>1, <1>3, <1>5, <1>6, <2>1
<1>15. JobsOrdered'
  <2>1. ASSUME NEW i \in 1..Len(jobs), jobs[i].role \in Roles!Roles
        PROVE  jobs[i].id # running'[jobs[i].role]
    <3>1. jobs[i].id # running[jobs[i].role] /\ jobs[i].id \in Nat
      BY <2>1, JobFacts
    <3> QED
      BY <1>1, <1>3, <1>5, <1>10, <2>1, <3>1
  <2> QED
    BY <1>2, <2>1 DEF RolesInv, JobsOrdered
<1>16. AnswersOrdered'
  <2>1. ASSUME NEW i \in 1..Len(answers')
        PROVE  /\ 0 < answers'[i].id /\ answers'[i].id <= newest[answers'[i].role]
               /\ answers'[i].id # running'[answers'[i].role]
    <3>1. /\ answers'[i].role \in Roles!Roles /\ answers'[i].id \in Nat
          /\ 0 < answers'[i].id /\ answers'[i].id <= newest[answers'[i].role]
          /\ answers'[i].id # running[answers'[i].role]
      <4>1. answers'[i] = answers[i + 1] /\ i + 1 \in 1..Len(answers)
        BY <1>4
      <4> QED
        BY <4>1, AnswerFacts
    <3> QED
      BY <1>1, <1>3, <1>5, <1>9, <3>1
  <2>2. ASSUME NEW i \in 1..Len(answers'), NEW k \in 1..Len(answers'),
               i < k, answers'[i].role = answers'[k].role
        PROVE  answers'[i].id < answers'[k].id
    <3>1. i + 1 < k + 1
      BY <1>4, <2>2
    <3> QED
      BY <1>4, <2>2, <3>1 DEF RolesInv, AnswersOrdered
  <2>3. ASSUME NEW i \in 1..Len(answers'), NEW k \in 1..Len(jobs), answers'[i].role = jobs[k].role
        PROVE  answers'[i].id < jobs[k].id
    BY <1>4, <2>3 DEF RolesInv, AnswersOrdered
  <2> QED
    BY <1>2, <2>1, <2>2, <2>3 DEF AnswersOrdered
<1>17. StreamFollows'
  BY <1>2 DEF RolesInv, StreamFollows
<1>18. LeavingKnown'
  <2>1. CASE leaving' = leaving
    BY <1>2, <2>1 DEF LeavingKnown, Roles!Nothing
  <2>2. CASE /\ leaving' = [role |-> R, id |-> held[R], superseded |-> TRUE]
             /\ a.allow /\ held[R] = a.id /\ ~(pending'[R] = 0 /\ on'[R])
    <3>1. ~wanted
      BY <1>11, <2>2
    <3>2. pending' = pending /\ running' = running /\ pending[R] # a.id
      BY <1>5, <1>6, <3>1 DEF wanted
    <3>3. leaving'.role = R /\ leaving'.id = a.id /\ leaving'.superseded = TRUE
      BY <2>2
    <3> QED
      BY <1>2, <1>3, <2>2, <3>2, <3>3 DEF LeavingKnown
  <2> QED
    BY <1>8, <2>1, <2>2
<1>19. GrantHeld'
  <2> SUFFICES ASSUME NEW r \in Roles!Roles, NEW i \in 1..Len(answers'), ~forced, ~closed, r \notin lost,
                      answers'[i].role = r, answers'[i].allow, answers'[i].id = pending'[r]
               PROVE  held[r] = pending'[r]
    BY <1>2 DEF GrantHeld
  <2>1. pending'[r] = pending[r]
    <3>1. 0 < answers'[i].id
      BY <1>16 DEF AnswersOrdered
    <3> QED
      BY <1>1, <1>3, <1>6, <3>1
  <2> QED
    BY <1>4, <2>1 DEF RolesInv, GrantHeld
<1>20. NoneBehind'
  <2> SUFFICES ASSUME NEW r \in Roles!Roles, NEW i \in 1..Len(jobs), on'[r], running'[r] = newest[r],
                      jobs[i].role = r
               PROVE  r \in lost
    BY <1>2 DEF NoneBehind
  <2>1. jobs[i].id <= newest[r] /\ jobs[i].id \in Nat
    BY JobFacts
  <2>2. ~(r = R /\ wanted)
    BY <1>1, <1>3, <1>10, <1>12, <2>1
  <2>3. on[r] /\ running[r] = newest[r]
    BY <1>1, <1>3, <1>5, <1>7, <2>2
  <2> QED
    BY <2>3 DEF RolesInv, NoneBehind
<1>21. ClosedLast'
  BY <1>2 DEF RolesInv, ClosedLast
<1>22. TickSettles'
  BY <1>2 DEF TickSettles
<1>23. RelayKnown'
  BY <1>2 DEF RolesInv, RelayKnown
<1>24. Roles!NewestKept'
  <2> SUFFICES ASSUME NEW r \in Roles!Roles, on'[r], running'[r] = newest[r], ~forced, ~closed, r \notin lost
               PROVE  held[r] = newest[r]
    BY <1>2 DEF Roles!NewestKept
  <2>1. CASE r = R /\ wanted /\ a.allow
    <3>1. answers[1].role = r /\ answers[1].allow /\ answers[1].id = pending[r]
      BY <1>3, <1>12, <2>1 DEF R
    <3>2. held[r] = pending[r]
      BY <1>3, <3>1 DEF RolesInv, GrantHeld
    <3> QED
      BY <1>12, <2>1, <3>2
  <2>2. CASE ~(r = R /\ wanted /\ a.allow)
    <3>1. on[r] /\ running[r] = newest[r]
      BY <1>1, <1>3, <1>5, <1>7, <2>2
    <3> QED
      BY <3>1 DEF RolesInv, Roles!NewestKept
  <2> QED
    BY <2>1, <2>2
<1>25. Roles!RolesAgree'
  BY <1>2, <1>21 DEF Roles!RolesAgree, ClosedLast
<1> QED
  BY <1>13, <1>14, <1>15, <1>16, <1>17, <1>18, <1>19, <1>20, <1>21, <1>22, <1>23, <1>24, <1>25 DEF
     RolesInv

\* The completions are drained: the tick goes on, or the connection is closed.
LEMMA RolesDrain == ASSUME RolesInv, Roles!DrainEnds PROVE RolesInv'
<1>1. StreamFollows' /\ GrantHeld' /\ NoneBehind' /\ ClosedLast' /\ TickSettles' /\ RelayKnown'
      /\ Roles!NewestKept' /\ Roles!RolesAgree'
  BY DEF RolesInv, StreamFollows, GrantHeld, NoneBehind, ClosedLast, TickSettles, RelayKnown,
     Roles!NewestKept, Roles!RolesAgree, Settled, Roles!DrainEnds, Roles!Reject, Roles!bridge,
     Roles!tracker, Roles!history
<1>2. RolesTyped'
  <2>1. asked' \in Nat /\ roleFaults' \in Nat /\ stream' \in Nat /\ relay' \in Nat
    BY DEF RolesInv, RolesTyped, Roles!DrainEnds, Roles!Reject, Roles!bridge, Roles!tracker,
       Roles!history
  <2>2. pending' \in [Roles!Roles -> Nat] /\ held' \in [Roles!Roles -> Nat]
    BY DEF RolesInv, RolesTyped, Roles!DrainEnds, Roles!Reject, Roles!bridge, Roles!tracker,
       Roles!history, Roles!Nothing, Roles!Neither, Roles!Roles, Job, Answer, Departure
  <2>3. newest' \in [Roles!Roles -> Nat] /\ running' \in [Roles!Roles -> Nat]
    BY DEF RolesInv, RolesTyped, Roles!DrainEnds, Roles!Reject, Roles!bridge, Roles!tracker,
       Roles!history
  <2>4. on' \in [Roles!Roles -> BOOLEAN] /\ known' \in [Roles!Roles -> BOOLEAN]
    BY DEF RolesInv, RolesTyped, Roles!DrainEnds, Roles!Reject, Roles!bridge, Roles!tracker,
       Roles!history
  <2>5. jobs' \in Seq(Job)
    <3>1. jobs' = jobs \/ jobs' = Append(jobs, [role |-> "close", id |-> 0])
      BY DEF Roles!DrainEnds, Roles!Reject
    <3>2. [role |-> "close", id |-> 0] \in Job
      BY DEF Job
    <3>3. jobs \in Seq(Job)
      BY DEF RolesInv, RolesTyped
    <3> QED
      BY <3>1, <3>2, <3>3, LeaveAtEnd
  <2>6. answers' \in Seq(Answer)
    BY DEF RolesInv, RolesTyped, Roles!DrainEnds, Roles!Reject, Roles!bridge, Roles!tracker,
       Roles!history
  <2>7. leaving' \in Departure
    BY DEF RolesInv, RolesTyped, Roles!DrainEnds, Roles!Reject, Roles!bridge, Roles!tracker,
       Roles!history
  <2>8. pc' \in {"rest", "drain", "publish", "play", "sync"} /\ lost' \in SUBSET Roles!Roles
    BY DEF RolesInv, RolesTyped, Roles!DrainEnds, Roles!Reject, Roles!bridge, Roles!tracker,
       Roles!history
  <2>9. idle' \in BOOLEAN /\ forced' \in BOOLEAN /\ closed' \in BOOLEAN /\ calm' \in BOOLEAN
    BY DEF RolesInv, RolesTyped, Roles!DrainEnds, Roles!Reject, Roles!bridge, Roles!tracker,
       Roles!history
  <2> QED
    BY <2>1, <2>2, <2>3, <2>4, <2>5, <2>6, <2>7, <2>8, <2>9 DEF RolesTyped
<1>3. Numbers'
  BY DEF RolesInv, Numbers, RolesTyped, Roles!DrainEnds, Roles!Reject, Roles!bridge, Roles!tracker,
     Roles!history, Roles!Nothing, Roles!Neither
<1>4. JobsOrdered'
  <2> DEFINE last == [role |-> "close", id |-> 0]
  <2>1. CASE jobs' = jobs
    BY <2>1 DEF RolesInv, JobsOrdered, Roles!DrainEnds, Roles!history
  <2>2. CASE jobs' = Append(jobs, last)
    <3>1. last \in Job /\ jobs \in Seq(Job) /\ newest' = newest /\ running' = running
      BY DEF Job, RolesInv, RolesTyped, Roles!DrainEnds, Roles!history
    <3>2. /\ jobs'[Len(jobs) + 1] = last /\ Len(jobs) \in Nat
          /\ \A i \in 1..Len(jobs) : jobs'[i] = jobs[i]
          /\ \A i \in 1..Len(jobs') : i \in 1..Len(jobs) \/ i = Len(jobs) + 1
      BY <2>2, <3>1, LeaveAtEnd, Elements
    <3>3. last.role \notin Roles!Roles
      BY DEF Roles!Roles
    <3> HIDE DEF last
    <3>4. /\ \A i \in 1..Len(jobs) : jobs[i].role \in Roles!Roles =>
               0 < jobs[i].id /\ jobs[i].id <= newest[jobs[i].role] /\ jobs[i].id # running[jobs[i].role]
          /\ \A i, j \in 1..Len(jobs) :
               i < j /\ jobs[i].role = jobs[j].role /\ jobs[i].role \in Roles!Roles => jobs[i].id < jobs[j].id
      BY DEF RolesInv, JobsOrdered
    <3>5. ASSUME NEW i \in 1..Len(jobs'), jobs'[i].role \in Roles!Roles
          PROVE  i \in 1..Len(jobs) /\ jobs'[i] = jobs[i]
      BY <3>2, <3>3, <3>5
    <3> QED
      BY <3>1, <3>4, <3>5 DEF JobsOrdered
  <2>3. jobs' = jobs \/ jobs' = Append(jobs, last)
    BY DEF Roles!DrainEnds, Roles!Reject
  <2> QED
    BY <2>1, <2>2, <2>3
<1>5. AnswersOrdered'
  <2> DEFINE last == [role |-> "close", id |-> 0]
  <2>1. /\ last \in Job /\ jobs \in Seq(Job) /\ newest' = newest /\ running' = running
        /\ answers' = answers
    BY DEF Job, RolesInv, RolesTyped, Roles!DrainEnds, Roles!history
  <2>2. jobs' = jobs \/ jobs' = Append(jobs, last)
    BY DEF Roles!DrainEnds, Roles!Reject
  <2>3. last.role \notin Roles!Roles
    BY DEF Roles!Roles
  <2> HIDE DEF last
  <2>4. ASSUME NEW i \in 1..Len(jobs'), jobs'[i].role \in Roles!Roles
        PROVE  i \in 1..Len(jobs) /\ jobs'[i] = jobs[i]
    BY <2>1, <2>2, <2>3, <2>4, LeaveAtEnd
  <2>5. ASSUME NEW i \in 1..Len(answers) PROVE answers[i].role \in Roles!Roles
    BY AnswerFacts
  <2> QED
    BY <2>1, <2>4, <2>5 DEF RolesInv, AnswersOrdered
<1>6. LeavingKnown'
  BY DEF RolesInv, LeavingKnown, RolesTyped, Roles!DrainEnds, Roles!Reject, Roles!bridge,
     Roles!tracker, Roles!history, Roles!Nothing, Roles!Neither
<1> QED
  BY <1>1, <1>2, <1>3, <1>4, <1>5, <1>6 DEF RolesInv

\* The second half of a release clears the session it deactivated and no other.
LEMMA RolesRelease == ASSUME RolesInv, Roles!ReleaseClears PROVE RolesInv'
<1>1. Numbers' /\ JobsOrdered' /\ AnswersOrdered' /\ NoneBehind'
  BY DEF RolesInv, Numbers, JobsOrdered, AnswersOrdered, NoneBehind, Roles!ReleaseClears,
     Roles!AfterVisit, Roles!Forget, Roles!library, Roles!tracker, Roles!history
<1>2. RolesTyped'
  <2>1. asked' \in Nat /\ roleFaults' \in Nat /\ stream' \in Nat /\ relay' \in Nat
    BY OtherRole DEF RolesInv, Roles!Roles, Roles!Neither, Roles!Nothing, Roles!library,
       Roles!bridge, Roles!tracker, Roles!history, RolesTyped, Job, Answer, Departure,
       Roles!ReleaseClears, Roles!AfterVisit, Roles!Forget
  <2>2. pending' \in [Roles!Roles -> Nat] /\ held' \in [Roles!Roles -> Nat]
    BY DEF RolesInv, RolesTyped, Roles!ReleaseClears, Roles!AfterVisit, Roles!Forget, Roles!library,
       Roles!tracker, Roles!history
  <2>3. newest' \in [Roles!Roles -> Nat] /\ running' \in [Roles!Roles -> Nat]
    BY DEF RolesInv, RolesTyped, Roles!ReleaseClears, Roles!AfterVisit, Roles!Forget, Roles!library,
       Roles!tracker, Roles!history
  <2>4. on' \in [Roles!Roles -> BOOLEAN] /\ known' \in [Roles!Roles -> BOOLEAN]
    BY DEF RolesInv, RolesTyped, Roles!ReleaseClears, Roles!AfterVisit, Roles!Forget, Roles!library,
       Roles!tracker, Roles!history
  <2>5. jobs' \in Seq(Job)
    BY DEF RolesInv, RolesTyped, Roles!ReleaseClears, Roles!AfterVisit, Roles!Forget, Roles!library,
       Roles!tracker, Roles!history
  <2>6. answers' \in Seq(Answer)
    BY DEF RolesInv, RolesTyped, Roles!ReleaseClears, Roles!AfterVisit, Roles!Forget, Roles!library,
       Roles!tracker, Roles!history
  <2>7. leaving' \in Departure
    BY DEF RolesInv, RolesTyped, Roles!ReleaseClears, Roles!AfterVisit, Roles!Forget, Roles!library,
       Roles!tracker, Roles!history, Roles!Nothing, Roles!Roles, Job, Answer, Departure
  <2>8. pc' \in {"rest", "drain", "publish", "play", "sync"} /\ lost' \in SUBSET Roles!Roles
    BY DEF RolesInv, RolesTyped, Roles!ReleaseClears, Roles!AfterVisit, Roles!Forget, Roles!library,
       Roles!tracker, Roles!history
  <2>9. idle' \in BOOLEAN /\ forced' \in BOOLEAN /\ closed' \in BOOLEAN /\ calm' \in BOOLEAN
    BY DEF RolesInv, RolesTyped, Roles!ReleaseClears, Roles!AfterVisit, Roles!Forget, Roles!library,
       Roles!tracker, Roles!history
  <2> QED
    BY <2>1, <2>2, <2>3, <2>4, <2>5, <2>6, <2>7, <2>8, <2>9 DEF RolesTyped
<1>3. StreamFollows'
  BY OtherRole DEF RolesInv, StreamFollows, RolesTyped, Roles!Roles, Job, Answer, Departure,
     Roles!Neither, Roles!Nothing, Roles!ReleaseClears, Roles!AfterVisit, Roles!Forget,
     Roles!library, Roles!tracker, Roles!history
<1>4. LeavingKnown'
  BY DEF RolesInv, LeavingKnown, RolesTyped, Roles!ReleaseClears, Roles!AfterVisit, Roles!Forget,
     Roles!library, Roles!tracker, Roles!history, Roles!Nothing
<1>5. GrantHeld'
  BY OtherRole DEF RolesInv, GrantHeld, RolesTyped, Roles!Roles, Numbers, JobsOrdered,
     AnswersOrdered, LeavingKnown, ClosedLast, Roles!ReleaseClears, Roles!AfterVisit, Roles!Forget,
     Roles!library, Roles!tracker, Roles!history, Roles!Nothing
<1>6. ClosedLast'
  BY OtherRole DEF RolesInv, ClosedLast, RolesTyped, Roles!Roles, Job, Answer, Departure,
     Roles!Neither, Roles!Nothing, LeavingKnown, Roles!ReleaseClears, Roles!AfterVisit,
     Roles!Forget, Roles!library, Roles!tracker, Roles!history
<1>7. TickSettles'
  BY OtherRole DEF RolesInv, TickSettles, Settled, RolesTyped, Roles!Roles, Job, Answer, Departure,
     Roles!Neither, Roles!Nothing, RelayKnown, StreamFollows, LeavingKnown, ClosedLast,
     Roles!ReleaseClears, Roles!AfterVisit, Roles!Forget, Roles!library, Roles!tracker,
     Roles!history
<1>8. RelayKnown'
  BY OtherRole DEF RolesInv, RelayKnown, RolesTyped, Roles!Roles, Job, Answer, Departure,
     Roles!Neither, Roles!Nothing, TickSettles, Settled, Roles!ReleaseClears, Roles!AfterVisit,
     Roles!Forget, Roles!library, Roles!tracker, Roles!history
<1>9. Roles!NewestKept'
  BY OtherRole DEF RolesInv, Roles!NewestKept, RolesTyped, Roles!Roles, Numbers, GrantHeld,
     NoneBehind, LeavingKnown, ClosedLast, JobsOrdered, AnswersOrdered, Roles!ReleaseClears,
     Roles!AfterVisit, Roles!Forget, Roles!library, Roles!tracker, Roles!history, Roles!Nothing
<1>10. Roles!RolesAgree'
  BY OtherRole DEF RolesInv, Roles!RolesAgree, RolesTyped, Roles!Roles, TickSettles, Settled,
     ClosedLast, LeavingKnown, Roles!ReleaseClears, Roles!AfterVisit, Roles!Forget, Roles!library,
     Roles!tracker, Roles!history, Roles!Nothing, Roles!Neither
<1> QED
  BY <1>1, <1>2, <1>3, <1>4, <1>5, <1>6, <1>7, <1>8, <1>9, <1>10 DEF RolesInv

\* The end of the tick: new roles are tracked and the relay key is set.
LEMMA RolesSync == ASSUME RolesInv, Roles!Sync PROVE RolesInv'
<1>1. StreamFollows' /\ GrantHeld' /\ NoneBehind' /\ ClosedLast' /\ Roles!NewestKept'
  BY DEF RolesInv, StreamFollows, GrantHeld, NoneBehind, ClosedLast, Roles!NewestKept, Roles!Sync,
     Roles!Reject, Roles!Renamed, Roles!bridge, Roles!history
<1>2. RolesTyped'
  <2>1. asked' \in Nat /\ roleFaults' \in Nat /\ stream' \in Nat /\ relay' \in Nat
    BY DEF RolesInv, RolesTyped, Roles!Sync, Roles!Reject, Roles!Renamed, Roles!bridge,
       Roles!history
  <2>2. pending' \in [Roles!Roles -> Nat] /\ held' \in [Roles!Roles -> Nat]
    BY DEF RolesInv, RolesTyped, Roles!Sync, Roles!Reject, Roles!Renamed, Roles!bridge,
       Roles!history, Roles!Neither, Roles!Roles, Job, Answer, Departure
  <2>3. newest' \in [Roles!Roles -> Nat] /\ running' \in [Roles!Roles -> Nat]
    BY DEF RolesInv, RolesTyped, Roles!Sync, Roles!Reject, Roles!Renamed, Roles!bridge,
       Roles!history
  <2>4. on' \in [Roles!Roles -> BOOLEAN] /\ known' \in [Roles!Roles -> BOOLEAN]
    BY DEF RolesInv, RolesTyped, Roles!Sync, Roles!Reject, Roles!Renamed, Roles!bridge,
       Roles!history
  <2>5. jobs' \in Seq(Job)
    <3>1. jobs' = jobs \/ jobs' = Append(jobs, [role |-> "close", id |-> 0])
      BY DEF Roles!Sync, Roles!Reject
    <3>2. [role |-> "close", id |-> 0] \in Job
      BY DEF Job
    <3>3. jobs \in Seq(Job)
      BY DEF RolesInv, RolesTyped
    <3> QED
      BY <3>1, <3>2, <3>3, LeaveAtEnd
  <2>6. answers' \in Seq(Answer)
    BY DEF RolesInv, RolesTyped, Roles!Sync, Roles!Reject, Roles!Renamed, Roles!bridge,
       Roles!history
  <2>7. leaving' \in Departure
    BY DEF RolesInv, RolesTyped, Roles!Sync, Roles!Reject, Roles!Renamed, Roles!bridge,
       Roles!history
  <2>8. pc' \in {"rest", "drain", "publish", "play", "sync"} /\ lost' \in SUBSET Roles!Roles
    BY DEF RolesInv, RolesTyped, Roles!Sync, Roles!Reject, Roles!Renamed, Roles!bridge,
       Roles!history
  <2>9. idle' \in BOOLEAN /\ forced' \in BOOLEAN /\ closed' \in BOOLEAN /\ calm' \in BOOLEAN
    BY DEF RolesInv, RolesTyped, Roles!Sync, Roles!Reject, Roles!Renamed, Roles!bridge,
       Roles!history
  <2> QED
    BY <2>1, <2>2, <2>3, <2>4, <2>5, <2>6, <2>7, <2>8, <2>9 DEF RolesTyped
<1>3. Numbers'
  BY DEF RolesInv, Numbers, RolesTyped, Roles!Sync, Roles!Reject, Roles!Renamed, Roles!bridge,
     Roles!history, Roles!Neither
<1>4. JobsOrdered'
  <2> DEFINE last == [role |-> "close", id |-> 0]
  <2>1. CASE jobs' = jobs
    BY <2>1 DEF RolesInv, JobsOrdered, Roles!Sync, Roles!history
  <2>2. CASE jobs' = Append(jobs, last)
    <3>1. last \in Job /\ jobs \in Seq(Job) /\ newest' = newest /\ running' = running
      BY DEF Job, RolesInv, RolesTyped, Roles!Sync, Roles!history
    <3>2. /\ jobs'[Len(jobs) + 1] = last /\ Len(jobs) \in Nat
          /\ \A i \in 1..Len(jobs) : jobs'[i] = jobs[i]
          /\ \A i \in 1..Len(jobs') : i \in 1..Len(jobs) \/ i = Len(jobs) + 1
      BY <2>2, <3>1, LeaveAtEnd, Elements
    <3>3. last.role \notin Roles!Roles
      BY DEF Roles!Roles
    <3> HIDE DEF last
    <3>4. /\ \A i \in 1..Len(jobs) : jobs[i].role \in Roles!Roles =>
               0 < jobs[i].id /\ jobs[i].id <= newest[jobs[i].role] /\ jobs[i].id # running[jobs[i].role]
          /\ \A i, j \in 1..Len(jobs) :
               i < j /\ jobs[i].role = jobs[j].role /\ jobs[i].role \in Roles!Roles => jobs[i].id < jobs[j].id
      BY DEF RolesInv, JobsOrdered
    <3>5. ASSUME NEW i \in 1..Len(jobs'), jobs'[i].role \in Roles!Roles
          PROVE  i \in 1..Len(jobs) /\ jobs'[i] = jobs[i]
      BY <3>2, <3>3, <3>5
    <3> QED
      BY <3>1, <3>4, <3>5 DEF JobsOrdered
  <2>3. jobs' = jobs \/ jobs' = Append(jobs, last)
    BY DEF Roles!Sync, Roles!Reject
  <2> QED
    BY <2>1, <2>2, <2>3
<1>5. AnswersOrdered'
  <2> DEFINE last == [role |-> "close", id |-> 0]
  <2>1. /\ last \in Job /\ jobs \in Seq(Job) /\ newest' = newest /\ running' = running
        /\ answers' = answers
    BY DEF Job, RolesInv, RolesTyped, Roles!Sync, Roles!history
  <2>2. jobs' = jobs \/ jobs' = Append(jobs, last)
    BY DEF Roles!Sync, Roles!Reject
  <2>3. last.role \notin Roles!Roles
    BY DEF Roles!Roles
  <2> HIDE DEF last
  <2>4. ASSUME NEW i \in 1..Len(jobs'), jobs'[i].role \in Roles!Roles
        PROVE  i \in 1..Len(jobs) /\ jobs'[i] = jobs[i]
    BY <2>1, <2>2, <2>3, <2>4, LeaveAtEnd
  <2>5. ASSUME NEW i \in 1..Len(answers) PROVE answers[i].role \in Roles!Roles
    BY AnswerFacts
  <2> QED
    BY <2>1, <2>4, <2>5 DEF RolesInv, AnswersOrdered
<1>6. LeavingKnown'
  BY OtherRole DEF RolesInv, LeavingKnown, RolesTyped, Roles!Roles, Job, Answer, Departure,
     Roles!Neither, Roles!Nothing, Numbers, AnswersOrdered, ClosedLast, Roles!Sync, Roles!Reject,
     Roles!Renamed, Roles!bridge, Roles!history
<1>7. TickSettles'
  BY DEF RolesInv, TickSettles, Settled, RolesTyped, Roles!Roles, RelayKnown, StreamFollows,
     LeavingKnown, ClosedLast, Roles!Sync, Roles!Reject, Roles!Renamed, Roles!bridge, Roles!history,
     Roles!Neither
<1>8. RelayKnown'
  BY DEF RolesInv, RelayKnown, RolesTyped, Roles!Roles, TickSettles, Settled, Roles!Sync,
     Roles!Reject, Roles!Renamed, Roles!bridge, Roles!history, Roles!Neither
<1>9. Roles!RolesAgree'
  <2>1. /\ pc = "sync" /\ answers' = answers /\ held' = held /\ leaving' = leaving /\ roleFaults' = roleFaults
        /\ leaving = Roles!Nothing /\ ~closed
    BY DEF RolesInv, RolesTyped, LeavingKnown, ClosedLast, Roles!Sync, Roles!bridge, Departure,
       Roles!Roles, Roles!Nothing
  <2>2. CASE closed'
    <3>1. jobs' = Append(jobs, [role |-> "close", id |-> 0])
      BY <2>1, <2>2 DEF Roles!Sync, Roles!Reject
    <3>2. jobs' # <<>>
      <4>1. jobs \in Seq(Job) /\ [role |-> "close", id |-> 0] \in Job
        BY DEF RolesInv, RolesTyped, Job
      <4> QED
        BY <3>1, <4>1, LeaveAtEnd
    <3> QED
      BY <2>2, <3>2 DEF Roles!RolesAgree
  <2>3. CASE ~closed'
    BY <1>7, <2>3 DEF Roles!RolesAgree, TickSettles, Settled, Roles!Roles
  <2> QED
    BY <2>2, <2>3
<1> QED
  BY <1>1, <1>2, <1>3, <1>4, <1>5, <1>6, <1>7, <1>8, <1>9 DEF RolesInv

\* Every step of the connection, and every step of another part, keeps the
\* invariant.
LEMMA RolesInvStep == RolesInv /\ [Roles!Next]_rolesPart => RolesInv'
<1> SUFFICES ASSUME RolesInv, [Roles!Next]_rolesPart PROVE RolesInv'
  OBVIOUS
<1>1. ASSUME NEW r \in Roles!Roles, Roles!submit_auth(r) \/ Roles!fast_authorize(r) \/ Roles!StopRole(r) \/ Roles!VisitRole(r)
      PROVE  RolesInv'
  BY <1>1, RolesSubmit, RolesFast, RolesStop, RolesVisit
<1>2. ASSUME Roles!Work \/ Roles!ForceClose \/ Roles!WindowEnds PROVE RolesInv'
  BY <1>2, RolesWork, RolesForce, RolesWindow
<1>3. ASSUME \/ Roles!TickStarts \/ Roles!apply_auth_completion \/ Roles!DrainEnds
             \/ Roles!ReleaseClears \/ Roles!Sync
      PROVE  RolesInv'
  BY <1>3, RolesTick, RolesApply, RolesDrain, RolesRelease, RolesSync
<1>4. ASSUME UNCHANGED rolesPart PROVE RolesInv'
  BY <1>4 DEF rolesPart, RolesInv, RolesTyped, Numbers, JobsOrdered, AnswersOrdered, StreamFollows,
     LeavingKnown, GrantHeld, NoneBehind, ClosedLast, TickSettles, Settled, RelayKnown,
     Roles!NewestKept, Roles!RolesAgree
<1> QED
  BY <1>1, <1>2, <1>3, <1>4 DEF Roles!Next

\* RolesKept: an undisturbed tick without a failing write leaves the library, the
\* bridge and the tracker in step, whatever late answers, replaced requests, forced
\* closes and failed releases came before it; and the latest request of a role keeps
\* the session it was granted, but for the events NewestKept names.
THEOREM RolesAlways == EdgeSpec => []RolesKept
<1>1. EdgeInit => RolesInv
  BY RolesStart DEF EdgeInit
<1>2. ASSUME RolesInv, [EdgeNext]_EdgeVars PROVE RolesInv'
  <2>1. Roles!Next \/ UNCHANGED rolesPart
    BY <1>2 DEF EdgeNext, EdgeVars, SlotsStep, RolesStep, ShardsStep, PollStep
  <2> QED
    BY <1>2, <2>1, RolesInvStep
<1>3. RolesInv => RolesKept
  BY DEF RolesInv, RolesKept
<1> QED
  BY <1>1, <1>2, <1>3, PTL DEF EdgeSpec
-----------------------------------------------------------------------------
(* The hand-over between shards, for any number of shards, connections and *)
(* routes and any inbox.  An end may be recorded, renamed, undelivered or  *)
(* queued behind frames that make the claim again, and the invariant says  *)
(* that it is always in one of these places and behind the last frame.     *)

\* What an inbox holds, and how often each route ended.
Message == [kind : {"frame", "ended"}, route : Routes]
EndCounts == [Routes -> Nat]

\* Every variable of the shards has its type.
RelayTyped ==
  /\ phase \in [Shards -> {"poll", "send", "inject", "injected", "enters", "returns", "waits"}]
  /\ publishes \in [Conns -> Routes \cup {NoRoute}] /\ connRoute \in [Conns -> Routes \cup {NoRoute}]
  /\ exported \in [Shards -> Seq(Routes)]
  /\ routes \in [Shards -> [Routes -> Conns \cup {NoRoute}]]
  /\ renamed \in [Shards -> EndCounts]
  /\ pendingEnds \in [Shards -> [Shards -> EndCounts]]
  /\ ends \in [Shards -> [Shards -> EndCounts]]
  /\ frames \in [Shards -> [Shards -> Seq(Routes)]]
  /\ serving \in [Shards -> SUBSET Shards] /\ dirty \in [Shards -> SUBSET Shards]
  /\ inbox \in [Shards -> Seq(Message)]
  /\ claims \in [Shards -> SUBSET Routes]
  /\ wake \in [Shards -> BOOLEAN]

\* A shard serves others while it sends, never itself, and remembers having
\* queued something only for a target it has not finished.
SendingShape ==
  \A s \in Shards :
    /\ serving[s] # {} => phase[s] = "send"
    /\ s \notin serving[s] /\ dirty[s] \subseteq serving[s]

\* Shard s still owes t the end of route r: the route is recorded, renamed away
\* in this tick, or its notice is undelivered.
Alive(s, t, r) == routes[s][r] # NoRoute \/ renamed[s][r] > 0 \/ pendingEnds[s][t][r] > 0
Covered(t, r) == \E s \in Shards \ {t} : Alive(s, t, r)

\* Every claim is going to be released.
ClaimsEnd ==
  \A t \in Shards : \A r \in claims[t] :
    Covered(t, r) \/ \E i \in 1..Len(inbox[t]) : inbox[t][i] = Relay!RouteEnded(r)

\* So is the claim that a queued frame will make: a notice already queued counts
\* only if it is behind the frame.
FramesEnd ==
  \A t \in Shards : \A i \in 1..Len(inbox[t]) : inbox[t][i].kind = "frame" =>
    \/ Covered(t, inbox[t][i].route)
    \/ \E k \in 1..Len(inbox[t]) : k > i /\ inbox[t][k] = Relay!RouteEnded(inbox[t][i].route)

\* This tick's frames are recorded.
ExportsRecorded ==
  \A s \in Shards : \A i \in 1..Len(exported[s]) :
    routes[s][exported[s][i]] # NoRoute \/ renamed[s][exported[s][i]] > 0

\* The end of a route does not overtake a frame that is still to be sent.
SentAlive ==
  \A s \in Shards : \A t \in serving[s] : \A i \in 1..Len(frames[s][t]) : Alive(s, t, frames[s][t][i])

\* What a tick still tries to send is still undelivered.
EndsPending ==
  \A s \in Shards : \A t \in serving[s] : \A r \in Routes : ends[s][t][r] <= pendingEnds[s][t][r]

\* NoLostWakeup, from the last look at the inbox on.
Woken ==
  \A s \in Shards : phase[s] \in {"enters", "waits"} /\ inbox[s] # <<>> =>
    wake[s] \/ \E o \in Shards : s \in dirty[o]

\* The inductive invariant of the hand-over between shards.
RelayInv ==
  /\ RelayTyped /\ SendingShape /\ ClaimsEnd /\ FramesEnd /\ ExportsRecorded /\ SentAlive
  /\ EndsPending /\ Woken

\* Shards that have relayed nothing satisfy the invariant.
LEMMA RelayStart == Relay!Init => RelayInv
<1> SUFFICES ASSUME Relay!Init PROVE RelayInv
  OBVIOUS
<1>1. Relay!NoEnds \in EndCounts
  BY DEF Relay!NoEnds, EndCounts
<1>2. \A s \in Shards : exported[s] = <<>> /\ inbox[s] = <<>> /\ serving[s] = {} /\ claims[s] = {}
  BY DEF Relay!Init
<1>3. ASSUME NEW s \in Shards PROVE Len(exported[s]) = 0 /\ Len(inbox[s]) = 0
  BY <1>2
<1>4. RelayTyped
  BY <1>1 DEF Relay!Init, RelayTyped
<1>5. SendingShape /\ ClaimsEnd /\ FramesEnd /\ ExportsRecorded /\ SentAlive /\ EndsPending /\ Woken
  BY <1>2, <1>3 DEF Relay!Init, SendingShape, ClaimsEnd, FramesEnd, ExportsRecorded, SentAlive,
     EndsPending, Woken
<1> QED
  BY <1>4, <1>5 DEF RelayInv

\* The parts that name the ends are kept where nothing that they name changes.
LEMMA SameEnds ==
  ASSUME RelayInv, UNCHANGED <<routes, renamed, pendingEnds>>
  PROVE  /\ UNCHANGED <<claims, inbox>> => ClaimsEnd' /\ FramesEnd'
         /\ UNCHANGED exported => ExportsRecorded'
         /\ UNCHANGED <<serving, frames>> => SentAlive'
         /\ UNCHANGED <<serving, ends>> => EndsPending'
  BY DEF RelayInv, ClaimsEnd, FramesEnd, ExportsRecorded, SentAlive, EndsPending, Covered, Alive

\* A message is about a route.
LEMMA MessageRoutes ==
  ASSUME inbox \in [Shards -> Seq(Message)], NEW t \in Shards, NEW i \in 1..Len(inbox[t])
  PROVE  inbox[t][i] \in Message /\ inbox[t][i].route \in Routes
<1>1. inbox[t] \in Seq(Message)
  OBVIOUS
<1>2. inbox[t][i] \in Message
  BY <1>1, Elements
<1> QED
  BY <1>2 DEF Message

\* What a sending shard does for the ends is enough for claims and queued frames.
LEMMA StillCovered ==
  ASSUME RelayInv, claims' = claims, inbox' = inbox,
         \A t \in Shards, r \in Routes : Covered(t, r) => Covered(t, r)'
  PROVE  ClaimsEnd' /\ FramesEnd'
<1>1. ASSUME NEW t \in Shards, NEW i \in 1..Len(inbox[t]) PROVE inbox[t][i].route \in Routes
  <2>1. inbox \in [Shards -> Seq(Message)]
    BY DEF RelayInv, RelayTyped
  <2> QED
    BY <2>1, MessageRoutes
<1>2. FramesEnd'
  BY <1>1 DEF RelayInv, FramesEnd
<1>3. \A t \in Shards : claims[t] \in SUBSET Routes
  BY DEF RelayInv, RelayTyped
<1> QED
  BY <1>2, <1>3 DEF RelayInv, ClaimsEnd

\* A publish begins: nothing is exported yet.
LEMMA RelayPublish == ASSUME NEW c \in Conns, NEW r \in Routes, RelayInv, Relay!Publish(c, r) PROVE RelayInv'
<1>1. RelayTyped'
  BY DEF RelayInv, RelayTyped, Relay!Publish, Relay!sending
<1>2. /\ ClaimsEnd' /\ FramesEnd' /\ ExportsRecorded' /\ SentAlive' /\ EndsPending'
  BY SameEnds DEF Relay!Publish, Relay!sending
<1>3. SendingShape' /\ Woken'
  BY DEF RelayInv, SendingShape, Woken, Relay!Publish, Relay!sending
<1> QED
  BY <1>1, <1>2, <1>3 DEF RelayInv

\* A publish ends: its route stays recorded until the next tick.
LEMMA RelayUnpublish == ASSUME NEW c \in Conns, RelayInv, Relay!Unpublish(c) PROVE RelayInv'
<1>1. RelayTyped'
  BY DEF RelayInv, RelayTyped, Relay!Unpublish, Relay!sending
<1>2. /\ ClaimsEnd' /\ FramesEnd' /\ ExportsRecorded' /\ SentAlive' /\ EndsPending'
  BY SameEnds DEF Relay!Unpublish, Relay!sending
<1>3. SendingShape' /\ Woken'
  BY DEF RelayInv, SendingShape, Woken, Relay!Unpublish, Relay!sending
<1> QED
  BY <1>1, <1>2, <1>3 DEF RelayInv

\* The inbox is seen empty, the wake fd may still be signalled.
LEMMA RelayDrained == ASSUME NEW s \in Shards, RelayInv, Relay!Drained(s) PROVE RelayInv'
<1>1. RelayTyped'
  BY DEF RelayInv, RelayTyped, Relay!Drained, Relay!sending
<1>2. /\ ClaimsEnd' /\ FramesEnd' /\ ExportsRecorded' /\ SentAlive' /\ EndsPending'
  BY SameEnds DEF Relay!Drained, Relay!sending
<1>3. SendingShape' /\ Woken'
  BY DEF RelayInv, RelayTyped, SendingShape, Woken, Relay!Drained, Relay!sending
<1> QED
  BY <1>1, <1>2, <1>3 DEF RelayInv

\* The wait is entered, and ends; a drained signal is followed by a look at the
\* inbox.
LEMMA RelayWait == ASSUME NEW s \in Shards, RelayInv, Relay!Wait(s) \/ Relay!WaitEnds(s) PROVE RelayInv'
<1>1. RelayTyped'
  BY DEF RelayInv, RelayTyped, Relay!Wait, Relay!WaitEnds, Relay!WakeAfter, Relay!sending
<1>2. /\ ClaimsEnd' /\ FramesEnd' /\ ExportsRecorded' /\ SentAlive' /\ EndsPending'
  BY SameEnds DEF Relay!Wait, Relay!WaitEnds, Relay!sending
<1>3. SendingShape' /\ Woken'
  <2>1. CASE Relay!Wait(s)
    BY <2>1 DEF RelayInv, RelayTyped, SendingShape, Woken, Relay!Wait, Relay!WakeAfter,
       Relay!Drains, Relay!sending
  <2>2. CASE Relay!WaitEnds(s)
    BY <2>2 DEF RelayInv, RelayTyped, SendingShape, Woken, Relay!WaitEnds, Relay!WakeAfter,
       Relay!sending
  <2> QED
    BY <2>1, <2>2
<1> QED
  BY <1>1, <1>2, <1>3 DEF RelayInv

\* A frame makes a claim whose end is behind it; a notice releases one.
LEMMA RelayInject == ASSUME NEW s \in Shards, RelayInv, Relay!Inject(s) PROVE RelayInv'
<1> DEFINE msg == Head(inbox[s])
<1>1. /\ inbox \in [Shards -> Seq(Message)] /\ claims \in [Shards -> SUBSET Routes]
      /\ phase[s] \in {"inject", "injected"} /\ inbox[s] \in Seq(Message) /\ inbox[s] # <<>>
  BY DEF RelayInv, RelayTyped, Relay!Inject
<1>2. /\ publishes' = publishes /\ exported' = exported /\ routes' = routes /\ connRoute' = connRoute
      /\ renamed' = renamed /\ pendingEnds' = pendingEnds /\ serving' = serving /\ frames' = frames
      /\ ends' = ends /\ dirty' = dirty /\ wake' = wake
      /\ phase' = [phase EXCEPT ![s] = "injected"] /\ inbox' = [inbox EXCEPT ![s] = Tail(@)]
  BY DEF Relay!Inject, Relay!sending
<1>3. /\ Tail(inbox[s]) \in Seq(Message) /\ msg \in Message /\ msg = inbox[s][1] /\ 1 \in 1..Len(inbox[s])
      /\ Len(inbox[s]) \in Nat /\ Len(inbox'[s]) = Len(inbox[s]) - 1
      /\ \A i \in 1..Len(inbox'[s]) :
            inbox'[s][i] = inbox[s][i + 1] /\ i + 1 \in 1..Len(inbox[s]) /\ i + 1 > 1 /\ i \in Nat
  BY <1>1, <1>2, TakeFirst
<1>4. \E now : /\ claims' = [claims EXCEPT ![s] = now]
               /\ \/ msg.kind = "ended" /\ now = claims[s] \ {msg.route}
                  \/ msg.kind # "ended" /\ (now = claims[s] \/ now = claims[s] \cup {msg.route})
  BY DEF Relay!Inject
<1>5. msg.kind \in {"frame", "ended"} /\ msg.route \in Routes
  BY <1>3 DEF Message
<1> HIDE DEF msg
<1>6. RelayTyped'
  <2>1. claims' \in [Shards -> SUBSET Routes]
    BY <1>1, <1>4, <1>5
  <2>2. inbox' \in [Shards -> Seq(Message)]
    BY <1>1, <1>2, <1>3
  <2> QED
    BY <1>2, <2>1, <2>2 DEF RelayInv, RelayTyped
<1>7. ExportsRecorded' /\ SentAlive' /\ EndsPending'
  BY <1>2, SameEnds
<1>8. \A t \in Shards, r \in Routes : Covered(t, r)' = Covered(t, r)
  BY <1>2 DEF Covered, Alive
<1>9. ASSUME NEW k \in 1..Len(inbox[s]), k > 1
      PROVE  k - 1 \in 1..Len(inbox'[s]) /\ inbox'[s][k - 1] = inbox[s][k]
  <2>1. k - 1 \in 1..Len(inbox'[s]) /\ (k - 1) + 1 = k
    BY <1>3, <1>9
  <2> QED
    BY <1>3, <2>1
<1>10. ClaimsEnd'
  <2> SUFFICES ASSUME NEW t \in Shards, NEW r \in claims'[t], ~Covered(t, r)
               PROVE  \E i \in 1..Len(inbox'[t]) : inbox'[t][i] = Relay!RouteEnded(r)
    BY <1>6, <1>8 DEF ClaimsEnd, RelayTyped
  <2>1. CASE t # s
    BY <1>1, <1>2, <1>4, <2>1 DEF RelayInv, ClaimsEnd
  <2>2. CASE t = s /\ r \in claims[s]
    <3>1. PICK k \in 1..Len(inbox[s]) : inbox[s][k] = Relay!RouteEnded(r)
      BY <2>2 DEF RelayInv, ClaimsEnd
    <3>2. k # 1
      <4>1. SUFFICES ASSUME k = 1 PROVE FALSE
        OBVIOUS
      <4>2. msg.kind = "ended" /\ msg.route = r
        BY <1>3, <3>1, <4>1 DEF Relay!RouteEnded
      <4> QED
        BY <1>1, <1>4, <2>2, <4>2
    <3> QED
      BY <1>3, <1>9, <2>2, <3>1, <3>2
  <2>3. CASE t = s /\ r \notin claims[s]
    <3>1. msg.kind = "frame" /\ msg.route = r
      BY <1>1, <1>4, <1>5, <2>3
    <3>2. PICK k \in 1..Len(inbox[s]) : k > 1 /\ inbox[s][k] = Relay!RouteEnded(r)
      BY <1>3, <2>3, <3>1 DEF RelayInv, FramesEnd
    <3> QED
      BY <1>9, <2>3, <3>2
  <2> QED
    BY <2>1, <2>2, <2>3
<1>11. FramesEnd'
  <2> SUFFICES ASSUME NEW t \in Shards, NEW i \in 1..Len(inbox'[t]), inbox'[t][i].kind = "frame",
                      ~Covered(t, inbox'[t][i].route)
               PROVE  \E k \in 1..Len(inbox'[t]) : k > i /\ inbox'[t][k] = Relay!RouteEnded(inbox'[t][i].route)
    <3>1. ASSUME NEW t \in Shards, NEW i \in 1..Len(inbox'[t]) PROVE inbox'[t][i].route \in Routes
      <4>1. inbox'[t] \in Seq(Message)
        BY <1>6 DEF RelayTyped
      <4>2. inbox'[t][i] \in Message
        BY <4>1, Elements
      <4> QED
        BY <4>2 DEF Message
    <3> QED
      BY <1>8, <3>1 DEF FramesEnd
  <2>1. CASE t # s
    BY <1>1, <1>2, <2>1 DEF RelayInv, FramesEnd
  <2>2. CASE t = s
    <3>1. inbox'[s][i] = inbox[s][i + 1] /\ i + 1 \in 1..Len(inbox[s]) /\ i \in Nat
      BY <1>3, <2>2
    <3>2. PICK k \in 1..Len(inbox[s]) : k > i + 1 /\ inbox[s][k] = Relay!RouteEnded(inbox[s][i + 1].route)
      BY <2>2, <3>1 DEF RelayInv, FramesEnd
    <3>3. k > 1 /\ k - 1 > i
      BY <1>3, <3>1, <3>2
    <3> QED
      BY <1>9, <2>2, <3>1, <3>2, <3>3
  <2> QED
    BY <2>1, <2>2
<1>12. SendingShape' /\ Woken'
  BY <1>1, <1>2 DEF RelayInv, RelayTyped, SendingShape, Woken
<1> QED
  BY <1>6, <1>7, <1>10, <1>11, <1>12 DEF RelayInv

\* record: a route that is renamed away counts as an end.
LEMMA RelayMedia == ASSUME NEW c \in Conns, RelayInv, Relay!Media(c) PROVE RelayInv'
<1> DEFINE s == Home[c]
           key == publishes[c]
           previous == connRoute[c]
           moved == previous \notin {NoRoute, key} /\ routes[s][previous] = c
<1>1. /\ s \in Shards /\ phase[s] = "poll" /\ key \in Routes /\ c # NoRoute
      /\ previous \in Routes \cup {NoRoute} /\ NoRoute \notin Routes /\ exported[s] \in Seq(Routes)
      /\ exported \in [Shards -> Seq(Routes)] /\ routes \in [Shards -> [Routes -> Conns \cup {NoRoute}]]
      /\ renamed \in [Shards -> EndCounts]
  BY RelayAssumption DEF RelayInv, RelayTyped, Relay!Media
<1>2. /\ phase' = phase /\ publishes' = publishes /\ pendingEnds' = pendingEnds /\ serving' = serving
      /\ frames' = frames /\ ends' = ends /\ dirty' = dirty /\ inbox' = inbox /\ claims' = claims
      /\ wake' = wake
      /\ exported' = [exported EXCEPT ![s] = Append(@, key)]
      /\ connRoute' = [connRoute EXCEPT ![c] = key]
  BY DEF Relay!Media, Relay!record, Relay!sending
<1>3. routes' = [routes EXCEPT ![s] =
        [r \in Routes |-> IF r = key THEN c ELSE IF moved /\ r = previous THEN NoRoute ELSE @[r]]]
  BY DEF Relay!Media, Relay!record
<1>4. renamed' = IF moved THEN [renamed EXCEPT ![s][previous] = @ + 1] ELSE renamed
  BY DEF Relay!Media, Relay!record
<1>5. moved => previous \in Routes /\ previous # key
  BY <1>1
<1> HIDE DEF s, key, previous, moved
<1>6. /\ routes' \in [Shards -> [Routes -> Conns \cup {NoRoute}]] /\ renamed' \in [Shards -> EndCounts]
      /\ routes'[s][key] # NoRoute
  BY <1>1, <1>3, <1>4, <1>5 DEF EndCounts
<1>7. ASSUME NEW o \in Shards, NEW r \in Routes, routes[o][r] # NoRoute \/ renamed[o][r] > 0
      PROVE  routes'[o][r] # NoRoute \/ renamed'[o][r] > 0
  <2>1. CASE o # s
    BY <1>1, <1>3, <1>4, <1>7, <2>1 DEF EndCounts
  <2>2. CASE o = s /\ moved /\ r = previous
    <3>1. renamed[s][r] \in Nat /\ renamed'[s][r] = renamed[s][r] + 1
      BY <1>1, <1>4, <1>5, <2>2 DEF EndCounts
    <3> QED
      BY <2>2, <3>1
  <2>3. CASE o = s /\ ~(moved /\ r = previous)
    <3>1. routes[s][r] # NoRoute => routes'[s][r] # NoRoute
      BY <1>1, <1>3, <2>3
    <3>2. renamed'[s][r] = renamed[s][r]
      BY <1>1, <1>4, <1>5, <2>3 DEF EndCounts
    <3> QED
      BY <1>7, <2>3, <3>1, <3>2
  <2> QED
    BY <2>1, <2>2, <2>3
<1>8. ASSUME NEW o \in Shards, NEW t \in Shards, NEW r \in Routes, Alive(o, t, r)
      PROVE  Alive(o, t, r)'
  BY <1>2, <1>7, <1>8 DEF Alive
<1>9. RelayTyped'
  <2>1. exported' \in [Shards -> Seq(Routes)]
    BY <1>1, <1>2, LeaveAtEnd
  <2>2. connRoute' \in [Conns -> Routes \cup {NoRoute}]
    BY <1>1, <1>2 DEF RelayInv, RelayTyped
  <2> QED
    BY <1>2, <1>6, <2>1, <2>2 DEF RelayInv, RelayTyped
<1>10. ASSUME NEW t \in Shards, NEW r \in Routes, Covered(t, r) PROVE Covered(t, r)'
  BY <1>8, <1>10 DEF Covered
<1>11. ClaimsEnd' /\ FramesEnd'
  BY <1>2, <1>10, StillCovered
<1>12. ExportsRecorded'
  <2> SUFFICES ASSUME NEW o \in Shards, NEW i \in 1..Len(exported'[o])
               PROVE  routes'[o][exported'[o][i]] # NoRoute \/ renamed'[o][exported'[o][i]] > 0
    BY DEF ExportsRecorded
  <2>1. ASSUME i \in 1..Len(exported[o]), exported'[o][i] = exported[o][i]
        PROVE  routes'[o][exported'[o][i]] # NoRoute \/ renamed'[o][exported'[o][i]] > 0
    <3>1. exported[o] \in Seq(Routes)
      BY <1>1
    <3>2. exported[o][i] \in Routes
      BY <2>1, <3>1, Elements
    <3> QED
      BY <1>7, <2>1, <3>2 DEF RelayInv, ExportsRecorded
  <2>2. CASE o # s
    BY <1>1, <1>2, <2>1, <2>2
  <2>3. CASE o = s
    <3>1. exported'[s] = Append(exported[s], key)
      BY <1>1, <1>2
    <3>2. \/ i \in 1..Len(exported[s]) /\ exported'[s][i] = exported[s][i]
          \/ i = Len(exported[s]) + 1 /\ exported'[s][i] = key
      BY <1>1, <2>3, <3>1, LeaveAtEnd
    <3> QED
      BY <1>6, <2>1, <2>3, <3>2
  <2> QED
    BY <2>2, <2>3
<1>13. SentAlive'
  <2> SUFFICES ASSUME NEW o \in Shards, NEW t \in serving[o], NEW i \in 1..Len(frames[o][t])
               PROVE  Alive(o, t, frames[o][t][i])'
    BY <1>2 DEF SentAlive, Alive
  <2>1. t \in Shards /\ frames[o][t] \in Seq(Routes)
    BY DEF RelayInv, RelayTyped
  <2>2. frames[o][t][i] \in Routes
    BY <2>1, Elements
  <2>3. Alive(o, t, frames[o][t][i])
    BY DEF RelayInv, SentAlive
  <2>4. \A r \in Routes : Alive(o, t, r) => Alive(o, t, r)'
    BY <1>8, <2>1
  <2> QED
    BY <1>2, <2>2, <2>3, <2>4 DEF Alive
<1>14. EndsPending' /\ SendingShape' /\ Woken'
  BY <1>2 DEF RelayInv, EndsPending, SendingShape, Woken
<1> QED
  BY <1>9, <1>11, <1>12, <1>13, <1>14 DEF RelayInv

\* The ends of a tick become notices before its frames are sent.
LEMMA RelayRelay == ASSUME NEW s \in Shards, RelayInv, Relay!Relay(s) PROVE RelayInv'
<1> DEFINE left == [r \in Routes |-> IF r \in Relay!Gone(s) THEN NoRoute ELSE routes[s][r]]
           notices == [t \in Shards |-> IF t = s THEN Relay!NoEnds
                         ELSE [r \in Routes |-> pendingEnds[s][t][r] + Relay!Ended(s)[r]]]
           shown == [t \in Shards |-> IF t = s THEN <<>> ELSE exported[s]]
<1>1. /\ routes \in [Shards -> [Routes -> Conns \cup {NoRoute}]] /\ renamed \in [Shards -> EndCounts]
      /\ pendingEnds \in [Shards -> [Shards -> EndCounts]] /\ ends \in [Shards -> [Shards -> EndCounts]]
      /\ exported \in [Shards -> Seq(Routes)] /\ frames \in [Shards -> [Shards -> Seq(Routes)]]
      /\ connRoute \in [Conns -> Routes \cup {NoRoute}] /\ serving \in [Shards -> SUBSET Shards]
      /\ dirty \in [Shards -> SUBSET Shards]
  BY DEF RelayInv, RelayTyped
<1>2. /\ publishes' = publishes /\ inbox' = inbox /\ claims' = claims /\ wake' = wake
      /\ phase[s] = "poll"
      /\ phase' = [phase EXCEPT ![s] = IF Shards \ {s} = {} THEN "inject" ELSE "send"]
      /\ renamed' = [renamed EXCEPT ![s] = Relay!NoEnds] /\ serving' = [serving EXCEPT ![s] = Shards \ {s}]
      /\ exported' = [exported EXCEPT ![s] = <<>>] /\ dirty' = [dirty EXCEPT ![s] = {}]
  BY DEF Relay!Relay
<1>3. /\ routes' = [routes EXCEPT ![s] = left] /\ pendingEnds' = [pendingEnds EXCEPT ![s] = notices]
      /\ ends' = [ends EXCEPT ![s] = notices] /\ frames' = [frames EXCEPT ![s] = shown]
  BY DEF Relay!Relay
<1>4. connRoute' \in [Conns -> Routes \cup {NoRoute}]
  BY <1>1 DEF Relay!Relay
<1>5. \A r \in Routes :
        /\ Relay!Ended(s)[r] \in Nat
        /\ routes[s][r] # NoRoute \/ renamed[s][r] > 0 => left[r] # NoRoute \/ Relay!Ended(s)[r] > 0
  BY <1>1 DEF Relay!Ended, EndCounts
<1>6. /\ Relay!NoEnds \in EndCounts /\ left \in [Routes -> Conns \cup {NoRoute}]
      /\ shown \in [Shards -> Seq(Routes)]
  BY <1>1 DEF Relay!NoEnds, EndCounts
<1>7. notices \in [Shards -> EndCounts]
  <2>1. ASSUME NEW t \in Shards
        PROVE  [r \in Routes |-> pendingEnds[s][t][r] + Relay!Ended(s)[r]] \in EndCounts
    <3>1. \A r \in Routes : pendingEnds[s][t][r] \in Nat
      BY <1>1 DEF EndCounts
    <3>2. \A r \in Routes : Relay!Ended(s)[r] \in Nat
      BY <1>5
    <3>3. \A r \in Routes : pendingEnds[s][t][r] + Relay!Ended(s)[r] \in Nat
      BY <3>1, <3>2
    <3> QED
      BY <3>3 DEF EndCounts
  <2> QED
    BY <1>6, <2>1
<1>8. \A t \in Shards \ {s}, r \in Routes :
        /\ pendingEnds[s][t][r] \in Nat /\ notices[t][r] = pendingEnds[s][t][r] + Relay!Ended(s)[r]
  BY <1>1 DEF EndCounts
<1> HIDE DEF left, notices
<1>9. RelayTyped'
  <2>1. /\ routes' \in [Shards -> [Routes -> Conns \cup {NoRoute}]] /\ renamed' \in [Shards -> EndCounts]
        /\ pendingEnds' \in [Shards -> [Shards -> EndCounts]] /\ ends' \in [Shards -> [Shards -> EndCounts]]
    BY <1>1, <1>2, <1>3, <1>6, <1>7
  <2>2. /\ exported' \in [Shards -> Seq(Routes)] /\ frames' \in [Shards -> [Shards -> Seq(Routes)]]
        /\ serving' \in [Shards -> SUBSET Shards] /\ dirty' \in [Shards -> SUBSET Shards]
    BY <1>1, <1>2, <1>3, <1>6
  <2> QED
    BY <1>2, <1>4, <2>1, <2>2 DEF RelayInv, RelayTyped
<1>10. ASSUME NEW t \in Shards \ {s}, NEW r \in Routes,
              routes[s][r] # NoRoute \/ renamed[s][r] > 0 \/ pendingEnds[s][t][r] > 0
       PROVE  routes'[s][r] # NoRoute \/ pendingEnds'[s][t][r] > 0
  <2>1. routes'[s] = left /\ pendingEnds'[s] = notices
    BY <1>1, <1>3
  <2> QED
    BY <1>5, <1>8, <1>10, <2>1
<1>11. ASSUME NEW t \in Shards, NEW r \in Routes, Covered(t, r) PROVE Covered(t, r)'
  <2>1. PICK o \in Shards \ {t} : Alive(o, t, r)
    BY <1>11 DEF Covered
  <2>2. CASE o = s
    BY <1>10, <2>1, <2>2 DEF Alive, Covered
  <2>3. CASE o # s
    BY <1>1, <1>2, <1>3, <2>1, <2>3 DEF Alive, Covered
  <2> QED
    BY <2>2, <2>3
<1>12. ClaimsEnd' /\ FramesEnd'
  BY <1>2, <1>11, StillCovered
<1>13. ExportsRecorded'
  <2> SUFFICES ASSUME NEW o \in Shards, NEW i \in 1..Len(exported'[o])
               PROVE  routes'[o][exported'[o][i]] # NoRoute \/ renamed'[o][exported'[o][i]] > 0
    BY DEF ExportsRecorded
  <2>1. o # s
    <3>1. exported'[s] = <<>>
      BY <1>1, <1>2
    <3> QED
      BY <3>1
  <2> QED
    BY <1>1, <1>2, <1>3, <2>1 DEF RelayInv, ExportsRecorded
<1>14. SentAlive'
  <2> SUFFICES ASSUME NEW o \in Shards, NEW t \in serving'[o], NEW i \in 1..Len(frames'[o][t])
               PROVE  /\ \/ routes'[o][frames'[o][t][i]] # NoRoute \/ renamed'[o][frames'[o][t][i]] > 0
                         \/ pendingEnds'[o][t][frames'[o][t][i]] > 0
    BY DEF SentAlive, Alive
  <2>1. CASE o # s
    BY <1>1, <1>2, <1>3, <2>1 DEF RelayInv, SentAlive, Alive
  <2>2. CASE o = s
    <3>1. t \in Shards \ {s} /\ frames'[o][t] = exported[s] /\ exported[s] \in Seq(Routes)
      BY <1>1, <1>2, <1>3, <2>2
    <3>2. i \in 1..Len(exported[s]) /\ exported[s][i] \in Routes
      BY <3>1, Elements
    <3>3. routes[s][exported[s][i]] # NoRoute \/ renamed[s][exported[s][i]] > 0
      BY <3>2 DEF RelayInv, ExportsRecorded
    <3> QED
      BY <1>10, <2>2, <3>1, <3>2, <3>3
  <2> QED
    BY <2>1, <2>2
<1>15. EndsPending'
  <2> SUFFICES ASSUME NEW o \in Shards, NEW t \in serving'[o], NEW r \in Routes
               PROVE  ends'[o][t][r] <= pendingEnds'[o][t][r]
    BY DEF EndsPending
  <2>1. CASE o # s
    BY <1>1, <1>2, <1>3, <2>1 DEF RelayInv, EndsPending
  <2>2. CASE o = s
    <3>1. ends'[s] = notices /\ pendingEnds'[s] = notices /\ t \in Shards
      BY <1>1, <1>2, <1>3, <2>2
    <3>2. notices[t][r] \in Nat
      BY <1>7, <3>1 DEF EndCounts
    <3> QED
      BY <2>2, <3>1, <3>2
  <2> QED
    BY <2>1, <2>2
<1>16. SendingShape'
  BY <1>1, <1>2 DEF RelayInv, RelayTyped, SendingShape
<1>17. Woken'
  <2>1. dirty[s] = {}
    BY <1>2 DEF RelayInv, SendingShape
  <2>2. dirty' = dirty
    BY <1>1, <1>2, <2>1
  <2> QED
    BY <1>2, <2>2 DEF RelayInv, RelayTyped, Woken
<1> QED
  BY <1>9, <1>12, <1>13, <1>14, <1>15, <1>16, <1>17 DEF RelayInv

\* The target is woken before it is finished.
LEMMA RelaySignal == ASSUME NEW s \in Shards, NEW t \in Shards, RelayInv, Relay!Signal(s, t) PROVE RelayInv'
<1>1. RelayTyped'
  BY DEF RelayInv, RelayTyped, Relay!Signal
<1>2. ClaimsEnd' /\ FramesEnd' /\ ExportsRecorded'
  BY SameEnds DEF Relay!Signal
<1>3. \A o \in Shards : serving'[o] \subseteq serving[o]
  BY DEF RelayInv, RelayTyped, Relay!Signal
<1>4. SentAlive' /\ EndsPending'
  BY <1>3 DEF RelayInv, SentAlive, EndsPending, Alive, Relay!Signal
<1>5. SendingShape'
  BY DEF RelayInv, RelayTyped, SendingShape, Relay!Signal
<1>6. Woken'
  <2>1. /\ wake \in [Shards -> BOOLEAN] /\ dirty \in [Shards -> SUBSET Shards]
        /\ wake' = [wake EXCEPT ![t] = @ \/ t \in dirty[s]]
        /\ dirty' = [dirty EXCEPT ![s] = @ \ {t}] /\ inbox' = inbox
    BY DEF RelayInv, RelayTyped, Relay!Signal
  <2>2. \A o \in Shards : phase'[o] \in {"enters", "waits"} => phase[o] \in {"enters", "waits"}
    BY DEF RelayInv, RelayTyped, Relay!Signal
  <2>3. \A o \in Shards : wake[o] => wake'[o]
    BY <2>1
  <2>4. \A o, p \in Shards : p \in dirty[o] => p \in dirty'[o] \/ wake'[p]
    BY <2>1
  <2> QED
    BY <2>1, <2>2, <2>3, <2>4 DEF RelayInv, Woken
<1> QED
  BY <1>1, <1>2, <1>4, <1>5, <1>6 DEF RelayInv

\* A message put into an inbox: a frame whose route has an end to come, or the
\* end itself, which comes after every frame that is already there.
LEMMA QueuedMessage ==
  ASSUME NEW s \in Shards, NEW t \in Shards, NEW msg \in Message, RelayInv, Relay!TrySend(s, t, msg),
         \A o \in Shards, r \in Routes :
            Covered(o, r) => Covered(o, r)' \/ (o = t /\ Relay!Fits(t) /\ msg = Relay!RouteEnded(r)),
         msg.kind = "frame" => Covered(t, msg.route)'
  PROVE  ClaimsEnd' /\ FramesEnd' /\ inbox' \in [Shards -> Seq(Message)]
<1>1. /\ inbox \in [Shards -> Seq(Message)] /\ inbox[t] \in Seq(Message) /\ claims' = claims
      /\ \A o \in Shards : claims[o] \in SUBSET Routes
  BY DEF RelayInv, RelayTyped, Relay!TrySend
<1>2. Len(inbox[t]) \in Nat
  BY <1>1, Elements
<1>3. /\ inbox' \in [Shards -> Seq(Message)]
      /\ \A o \in Shards : \A i \in 1..Len(inbox[o]) : i \in 1..Len(inbox'[o]) /\ inbox'[o][i] = inbox[o][i]
      /\ \A o \in Shards : \A i \in 1..Len(inbox'[o]) :
            i \in 1..Len(inbox[o]) \/ (o = t /\ i = Len(inbox[t]) + 1 /\ inbox'[o][i] = msg)
      /\ Relay!Fits(t) => Len(inbox[t]) + 1 \in 1..Len(inbox'[t]) /\ inbox'[t][Len(inbox[t]) + 1] = msg
  <2>1. CASE ~Relay!Fits(t)
    BY <1>1, <2>1 DEF Relay!TrySend
  <2>2. CASE Relay!Fits(t)
    <3>1. inbox' = [inbox EXCEPT ![t] = Append(inbox[t], msg)]
      BY <2>2 DEF Relay!TrySend
    <3>2. /\ Append(inbox[t], msg) \in Seq(Message) /\ Len(Append(inbox[t], msg)) = Len(inbox[t]) + 1
          /\ \A i \in 1..Len(inbox[t]) : Append(inbox[t], msg)[i] = inbox[t][i]
          /\ \A i \in 1..Len(Append(inbox[t], msg)) : i \in 1..Len(inbox[t]) \/ i = Len(inbox[t]) + 1
          /\ Append(inbox[t], msg)[Len(inbox[t]) + 1] = msg
      BY <1>1, LeaveAtEnd
    <3> DEFINE longer == Append(inbox[t], msg)
    <3> HIDE DEF longer
    <3>3. /\ longer \in Seq(Message) /\ Len(longer) = Len(inbox[t]) + 1 /\ longer[Len(inbox[t]) + 1] = msg
          /\ \A i \in 1..Len(inbox[t]) : longer[i] = inbox[t][i]
          /\ \A i \in 1..Len(longer) : i \in 1..Len(inbox[t]) \/ i = Len(inbox[t]) + 1
          /\ inbox' = [inbox EXCEPT ![t] = longer]
      BY <3>1, <3>2 DEF longer
    <3>4. inbox'[t] = longer /\ \A o \in Shards : o # t => inbox'[o] = inbox[o]
      BY <1>1, <3>3
    <3>5. inbox' \in [Shards -> Seq(Message)]
      BY <1>1, <3>3
    <3>6. \A i \in 1..Len(inbox[t]) : i \in 1..Len(longer)
      BY <1>2, <3>3
    <3>7. Len(inbox[t]) + 1 \in 1..Len(longer)
      BY <1>2, <3>3
    <3> QED
      BY <3>3, <3>4, <3>5, <3>6, <3>7
  <2> QED
    BY <2>1, <2>2
<1>4. ClaimsEnd'
  <2> SUFFICES ASSUME NEW o \in Shards, NEW r \in claims[o], ~Covered(o, r)'
               PROVE  \E i \in 1..Len(inbox'[o]) : inbox'[o][i] = Relay!RouteEnded(r)
    BY <1>1 DEF ClaimsEnd
  <2>1. CASE Covered(o, r)
    BY <1>1, <1>3, <2>1
  <2>2. CASE ~Covered(o, r)
    <3>1. PICK i \in 1..Len(inbox[o]) : inbox[o][i] = Relay!RouteEnded(r)
      BY <2>2 DEF RelayInv, ClaimsEnd
    <3> QED
      BY <1>3, <3>1
  <2> QED
    BY <2>1, <2>2
<1>5. FramesEnd'
  <2>1. ASSUME NEW o \in Shards, NEW i \in 1..Len(inbox'[o]), NEW q \in Routes,
               q = inbox'[o][i].route, inbox'[o][i].kind = "frame", ~Covered(o, q)'
        PROVE  \E k \in 1..Len(inbox'[o]) : k > i /\ inbox'[o][k] = Relay!RouteEnded(q)
    <3>1. i \in 1..Len(inbox[o]) /\ inbox'[o][i] = inbox[o][i]
      <4>1. ASSUME o = t, inbox'[o][i] = msg PROVE FALSE
        <5>1. msg.kind = "frame" /\ msg.route = q
          BY <2>1, <4>1
        <5>2. Covered(t, q)'
          BY <5>1
        <5> QED
          BY <2>1, <4>1, <5>2
      <4> QED
        BY <1>3, <4>1
    <3>2. CASE Covered(o, q)
      <4>1. o = t /\ Relay!Fits(t) /\ msg = Relay!RouteEnded(q)
        BY <2>1, <3>2
      <4>2. Len(inbox[t]) + 1 > i
        BY <1>2, <3>1, <4>1
      <4> QED
        BY <1>3, <4>1, <4>2
    <3>3. CASE ~Covered(o, q)
      <4>1. PICK k \in 1..Len(inbox[o]) : k > i /\ inbox[o][k] = Relay!RouteEnded(q)
        BY <2>1, <3>1, <3>3 DEF RelayInv, FramesEnd
      <4> QED
        BY <1>3, <4>1
    <3> QED
      BY <3>2, <3>3
  <2>2. ASSUME NEW o \in Shards, NEW i \in 1..Len(inbox'[o]) PROVE inbox'[o][i].route \in Routes
    <3>1. inbox'[o] \in Seq(Message)
      BY <1>3
    <3>2. inbox'[o][i] \in Message
      BY <3>1, Elements
    <3> QED
      BY <3>2 DEF Message
  <2>3. ASSUME NEW o \in Shards, NEW i \in 1..Len(inbox'[o]), inbox'[o][i].kind = "frame"
        PROVE  \/ (\E n \in Shards \ {o} :
                     \/ routes'[n][inbox'[o][i].route] # NoRoute
                     \/ renamed'[n][inbox'[o][i].route] > 0
                     \/ pendingEnds'[n][o][inbox'[o][i].route] > 0)
               \/ \E k \in 1..Len(inbox'[o]) : k > i /\ inbox'[o][k] = Relay!RouteEnded(inbox'[o][i].route)
    <3>1. PICK q \in Routes : q = inbox'[o][i].route
      BY <2>2
    <3> QED
      BY <2>1, <2>3, <3>1 DEF Covered, Alive
  <2> QED
    BY <2>3 DEF FramesEnd, Covered, Alive
<1> QED
  BY <1>3, <1>4, <1>5

\* A try_send keeps the shape of a tick, and marks the target it reached.
LEMMA QueuedShape ==
  ASSUME NEW s \in Shards, NEW t \in Shards, NEW msg, RelayInv, Relay!TrySend(s, t, msg)
  PROVE  /\ SendingShape' /\ Woken' /\ dirty' \in [Shards -> SUBSET Shards]
         /\ t \in serving[s] /\ t # s
<1>1. t \in serving[s] /\ t # s
  BY DEF RelayInv, SendingShape, Relay!TrySend
<1>2. dirty' \in [Shards -> SUBSET Shards] /\ \A o \in Shards : dirty[o] \subseteq dirty'[o]
  BY DEF RelayInv, RelayTyped, Relay!TrySend
<1>3. SendingShape'
  BY <1>1 DEF RelayInv, RelayTyped, SendingShape, Relay!TrySend
<1>4. Woken'
  <2> SUFFICES ASSUME NEW o \in Shards, phase[o] \in {"enters", "waits"}, inbox'[o] # <<>>
               PROVE  wake[o] \/ \E p \in Shards : o \in dirty'[p]
    BY DEF Woken, Relay!TrySend
  <2>1. CASE o = t /\ Relay!Fits(t)
    BY <2>1 DEF RelayInv, RelayTyped, Relay!TrySend
  <2>2. CASE ~(o = t /\ Relay!Fits(t))
    <3>1. inbox'[o] = inbox[o]
      BY <2>2 DEF RelayInv, RelayTyped, Relay!TrySend
    <3> QED
      BY <1>2, <3>1 DEF RelayInv, Woken
  <2> QED
    BY <2>1, <2>2
<1> QED
  BY <1>1, <1>2, <1>3, <1>4

\* A frame is queued ahead of the end of its route.
LEMMA RelaySendFrame == ASSUME NEW s \in Shards, NEW t \in Shards, RelayInv, Relay!SendFrame(s, t) PROVE RelayInv'
<1>0. PICK r \in Routes : r = Head(frames[s][t])
  BY TakeFirst DEF RelayInv, RelayTyped, Relay!SendFrame
<1>1. /\ frames \in [Shards -> [Shards -> Seq(Routes)]] /\ frames[s][t] \in Seq(Routes)
      /\ frames[s][t] # <<>>
  BY DEF RelayInv, RelayTyped, Relay!SendFrame
<1>2. /\ Relay!TrySend(s, t, Relay!Frame(r)) /\ frames' = [frames EXCEPT ![s][t] = Tail(@)]
      /\ pendingEnds' = pendingEnds /\ ends' = ends
  BY <1>0 DEF Relay!SendFrame
<1>3. /\ phase' = phase /\ publishes' = publishes /\ exported' = exported /\ routes' = routes
      /\ connRoute' = connRoute /\ renamed' = renamed /\ serving' = serving /\ claims' = claims
      /\ wake' = wake
  BY <1>2 DEF Relay!TrySend
<1>4. /\ Tail(frames[s][t]) \in Seq(Routes) /\ r \in Routes /\ r = frames[s][t][1]
      /\ 1 \in 1..Len(frames[s][t])
      /\ \A i \in 1..Len(Tail(frames[s][t])) :
            Tail(frames[s][t])[i] = frames[s][t][i + 1] /\ i + 1 \in 1..Len(frames[s][t])
  BY <1>0, <1>1, TakeFirst
<1>5. Relay!Frame(r) \in Message /\ Relay!Frame(r).kind = "frame" /\ Relay!Frame(r).route = r
  BY <1>4 DEF Relay!Frame, Message
<1>6. /\ SendingShape' /\ Woken' /\ dirty' \in [Shards -> SUBSET Shards] /\ t \in serving[s] /\ t # s
  BY <1>2, QueuedShape
<1>7. \A o \in Shards, q \in Routes : Covered(o, q)' = Covered(o, q)
  BY <1>2, <1>3 DEF Covered, Alive
<1>8. Covered(t, r)
  <2>1. Alive(s, t, r)
    BY <1>4, <1>6 DEF RelayInv, SentAlive
  <2> QED
    BY <1>6, <2>1 DEF Covered
<1>9. ClaimsEnd' /\ FramesEnd' /\ inbox' \in [Shards -> Seq(Message)]
  <2>1. Covered(t, Relay!Frame(r).route)'
    BY <1>4, <1>5, <1>7, <1>8
  <2> QED
    BY <1>2, <1>5, <1>7, <2>1, QueuedMessage
<1>10. frames' \in [Shards -> [Shards -> Seq(Routes)]]
  BY <1>1, <1>2, <1>4
<1>11. RelayTyped'
  BY <1>2, <1>3, <1>6, <1>9, <1>10 DEF RelayInv, RelayTyped
<1>12. ExportsRecorded' /\ EndsPending'
  BY <1>2, <1>3 DEF RelayInv, ExportsRecorded, EndsPending
<1>13. SentAlive'
  <2> SUFFICES ASSUME NEW o \in Shards, NEW p \in serving[o], NEW i \in 1..Len(frames'[o][p])
               PROVE  Alive(o, p, frames'[o][p][i])
    BY <1>2, <1>3 DEF SentAlive, Alive
  <2>1. p \in Shards
    BY DEF RelayInv, RelayTyped
  <2>2. CASE o = s /\ p = t
    <3>1. frames'[o][p] = Tail(frames[s][t])
      BY <1>1, <1>2, <2>2
    <3> QED
      BY <1>4, <1>6, <2>2, <3>1 DEF RelayInv, SentAlive
  <2>3. CASE ~(o = s /\ p = t)
    <3>1. frames'[o][p] = frames[o][p]
      BY <1>1, <1>2, <2>1, <2>3
    <3> QED
      BY <3>1 DEF RelayInv, SentAlive
  <2> QED
    BY <2>2, <2>3
<1> QED
  BY <1>6, <1>9, <1>11, <1>12, <1>13 DEF RelayInv

\* A notice is queued behind all frames, or kept.
LEMMA RelaySendEnd ==
  ASSUME NEW s \in Shards, NEW t \in Shards, NEW r \in Routes, RelayInv, Relay!SendEnd(s, t, r)
  PROVE  RelayInv'
<1>1. /\ pendingEnds \in [Shards -> [Shards -> EndCounts]] /\ ends \in [Shards -> [Shards -> EndCounts]]
      /\ frames[s][t] = <<>> /\ ends[s][t][r] > 0
      /\ pendingEnds[s][t][r] \in Nat /\ ends[s][t][r] \in Nat
  BY DEF RelayInv, RelayTyped, Relay!SendEnd, EndCounts
<1>2. /\ Relay!TrySend(s, t, Relay!RouteEnded(r)) /\ frames' = frames
      /\ ends' = [ends EXCEPT ![s][t][r] = @ - 1]
      /\ pendingEnds' = [pendingEnds EXCEPT ![s][t][r] = Relay!Kept(s, t, r)]
  BY DEF Relay!SendEnd
<1>3. /\ phase' = phase /\ publishes' = publishes /\ exported' = exported /\ routes' = routes
      /\ connRoute' = connRoute /\ renamed' = renamed /\ serving' = serving /\ claims' = claims
      /\ wake' = wake
  BY <1>2 DEF Relay!TrySend
<1>4. /\ SendingShape' /\ Woken' /\ dirty' \in [Shards -> SUBSET Shards] /\ t \in serving[s] /\ t # s
  BY <1>2, QueuedShape
<1>5. pendingEnds[s][t][r] >= ends[s][t][r]
  BY <1>1, <1>4 DEF RelayInv, EndsPending
<1>6. /\ Relay!Kept(s, t, r) \in Nat /\ Relay!Kept(s, t, r) >= ends[s][t][r] - 1 /\ ends[s][t][r] - 1 \in Nat
      /\ Relay!Fits(t) \/ Relay!Kept(s, t, r) = pendingEnds[s][t][r]
  BY <1>1, <1>5 DEF Relay!Kept
<1>7. /\ pendingEnds' \in [Shards -> [Shards -> EndCounts]] /\ ends' \in [Shards -> [Shards -> EndCounts]]
      /\ pendingEnds'[s][t][r] = Relay!Kept(s, t, r) /\ ends'[s][t][r] = ends[s][t][r] - 1
      /\ \A o, p \in Shards, q \in Routes : ~(o = s /\ p = t /\ q = r) =>
            pendingEnds'[o][p][q] = pendingEnds[o][p][q] /\ ends'[o][p][q] = ends[o][p][q]
  <2>1. /\ pendingEnds' \in [Shards -> [Shards -> EndCounts]]
        /\ pendingEnds'[s][t][r] = Relay!Kept(s, t, r)
        /\ \A o, p \in Shards, q \in Routes : ~(o = s /\ p = t /\ q = r) =>
              pendingEnds'[o][p][q] = pendingEnds[o][p][q]
    <3> DEFINE f == pendingEnds
               g == pendingEnds'
               k == Relay!Kept(s, t, r)
    <3>1. f \in [Shards -> [Shards -> EndCounts]] /\ k \in Nat /\ g = [f EXCEPT ![s][t][r] = k]
      BY <1>1, <1>2, <1>6
    <3> HIDE DEF f, g, k
    <3>2. /\ g \in [Shards -> [Shards -> EndCounts]] /\ g[s][t][r] = k
          /\ \A o, p \in Shards, q \in Routes : ~(o = s /\ p = t /\ q = r) => g[o][p][q] = f[o][p][q]
      <4>1. g \in [Shards -> [Shards -> EndCounts]] /\ g[s][t][r] = k
        BY <3>1 DEF EndCounts
      <4>2. /\ \A o \in Shards : o # s => g[o] = f[o]
            /\ \A p \in Shards : p # t => g[s][p] = f[s][p]
        BY <3>1
      <4>3. g[s][t] = [f[s][t] EXCEPT ![r] = k]
        BY <3>1
      <4>4. f[s][t] \in [Routes -> Nat]
        BY <3>1 DEF EndCounts
      <4>5. \A q \in Routes : q # r => g[s][t][q] = f[s][t][q]
        BY <4>3, <4>4
      <4> QED
        BY <4>1, <4>2, <4>5
    <3> QED
      BY <3>2 DEF f, g, k
  <2>2. /\ ends' \in [Shards -> [Shards -> EndCounts]] /\ ends'[s][t][r] = ends[s][t][r] - 1
        /\ \A o, p \in Shards, q \in Routes : ~(o = s /\ p = t /\ q = r) =>
              ends'[o][p][q] = ends[o][p][q]
    <3> DEFINE f == ends
               g == ends'
               k == ends[s][t][r] - 1
    <3>1. f \in [Shards -> [Shards -> EndCounts]] /\ k \in Nat /\ g = [f EXCEPT ![s][t][r] = k]
      BY <1>1, <1>2, <1>6
    <3> HIDE DEF f, g, k
    <3>2. /\ g \in [Shards -> [Shards -> EndCounts]] /\ g[s][t][r] = k
          /\ \A o, p \in Shards, q \in Routes : ~(o = s /\ p = t /\ q = r) => g[o][p][q] = f[o][p][q]
      <4>1. g \in [Shards -> [Shards -> EndCounts]] /\ g[s][t][r] = k
        BY <3>1 DEF EndCounts
      <4>2. /\ \A o \in Shards : o # s => g[o] = f[o]
            /\ \A p \in Shards : p # t => g[s][p] = f[s][p]
        BY <3>1
      <4>3. g[s][t] = [f[s][t] EXCEPT ![r] = k]
        BY <3>1
      <4>4. f[s][t] \in [Routes -> Nat]
        BY <3>1 DEF EndCounts
      <4>5. \A q \in Routes : q # r => g[s][t][q] = f[s][t][q]
        BY <4>3, <4>4
      <4> QED
        BY <4>1, <4>2, <4>5
    <3> QED
      BY <3>2 DEF f, g, k
  <2> QED
    BY <2>1, <2>2
<1>8. ASSUME NEW o \in Shards, NEW q \in Routes, Covered(o, q)
      PROVE  Covered(o, q)' \/ (o = t /\ Relay!Fits(t) /\ Relay!RouteEnded(r) = Relay!RouteEnded(q))
  <2>1. CASE o = t /\ q = r /\ Relay!Fits(t)
    BY <2>1
  <2>2. CASE ~(o = t /\ q = r /\ Relay!Fits(t))
    <3>1. \A p \in Shards : pendingEnds'[p][o][q] = pendingEnds[p][o][q]
      BY <1>6, <1>7, <2>2
    <3> QED
      BY <1>3, <1>8, <3>1 DEF Covered, Alive
  <2> QED
    BY <2>1, <2>2
<1>9. Relay!RouteEnded(r) \in Message /\ Relay!RouteEnded(r).kind # "frame"
  BY DEF Relay!RouteEnded, Message
<1>10. ClaimsEnd' /\ FramesEnd' /\ inbox' \in [Shards -> Seq(Message)]
  BY <1>2, <1>8, <1>9, QueuedMessage
<1>11. RelayTyped'
  BY <1>2, <1>3, <1>4, <1>7, <1>10 DEF RelayInv, RelayTyped
<1>12. ExportsRecorded'
  BY <1>3 DEF RelayInv, ExportsRecorded
<1>13. SentAlive'
  <2> SUFFICES ASSUME NEW o \in Shards, NEW p \in serving[o], NEW i \in 1..Len(frames[o][p])
               PROVE  \/ routes[o][frames[o][p][i]] # NoRoute \/ renamed[o][frames[o][p][i]] > 0
                      \/ pendingEnds'[o][p][frames[o][p][i]] > 0
    BY <1>2, <1>3 DEF SentAlive, Alive
  <2>1. p \in Shards /\ frames[o][p] \in Seq(Routes)
    BY DEF RelayInv, RelayTyped
  <2>2. frames[o][p][i] \in Routes
    BY <2>1, Elements
  <2>3. ~(o = s /\ p = t)
    BY <1>1
  <2>4. Alive(o, p, frames[o][p][i])
    BY DEF RelayInv, SentAlive
  <2> QED
    BY <1>7, <2>1, <2>2, <2>3, <2>4 DEF Alive
<1>14. EndsPending'
  <2> SUFFICES ASSUME NEW o \in Shards, NEW p \in serving[o], NEW q \in Routes
               PROVE  ends'[o][p][q] <= pendingEnds'[o][p][q]
    BY <1>3 DEF EndsPending
  <2>1. p \in Shards /\ ends[o][p][q] <= pendingEnds[o][p][q]
    BY DEF RelayInv, RelayTyped, EndsPending
  <2> QED
    BY <1>6, <1>7, <2>1
<1> QED
  BY <1>4, <1>10, <1>11, <1>12, <1>13, <1>14 DEF RelayInv

\* Every step of a shard keeps the hand-over accounted for.
LEMMA RelayInvStep == ASSUME RelayInv, [Relay!Next]_shardsPart PROVE RelayInv'
<1>1. CASE UNCHANGED shardsPart
  <2>1. /\ UNCHANGED <<phase, publishes, exported, routes, connRoute, renamed, pendingEnds>>
        /\ UNCHANGED <<serving, frames, ends, dirty, inbox, claims, wake>>
    BY <1>1 DEF shardsPart
  <2> QED
    BY <2>1 DEF RelayInv, RelayTyped, SendingShape, ClaimsEnd, FramesEnd, ExportsRecorded,
       SentAlive, EndsPending, Woken, Covered, Alive
<1>2. ASSUME NEW c \in Conns, Relay!Media(c) \/ Relay!Unpublish(c) \/ \E r \in Routes : Relay!Publish(c, r)
      PROVE  RelayInv'
  BY <1>2, RelayMedia, RelayUnpublish, RelayPublish
<1>3. ASSUME NEW s \in Shards, Relay!Relay(s) \/ Relay!Inject(s) \/ Relay!Drained(s) \/ Relay!Wait(s) \/ Relay!WaitEnds(s)
      PROVE  RelayInv'
  BY <1>3, RelayRelay, RelayInject, RelayDrained, RelayWait
<1>4. ASSUME NEW s \in Shards, NEW t \in Shards,
             Relay!SendFrame(s, t) \/ Relay!Signal(s, t) \/ \E r \in Routes : Relay!SendEnd(s, t, r)
      PROVE  RelayInv'
  BY <1>4, RelaySendFrame, RelaySignal, RelaySendEnd
<1> QED
  BY <1>1, <1>2, <1>3, <1>4 DEF Relay!Next

\* What the run checks follows.
LEMMA RelayInvSuffices == RelayInv => Relay!NoStrandedClaim /\ Relay!NoLostWakeup
<1>1. RelayInv => Relay!NoStrandedClaim
  BY DEF RelayInv, ClaimsEnd, Covered, Alive, Relay!NoStrandedClaim
<1>2. RelayInv => Relay!NoLostWakeup
  BY DEF RelayInv, Woken, Relay!NoLostWakeup
<1> QED
  BY <1>1, <1>2

-----------------------------------------------------------------------------
(* The readiness set, for any descriptors.                                 *)

\* What the loop can ask of the kernel.
Events == SUBSET {"in", "out"}

\* The table, the kernel and the connections have their types.
PollTyped ==
  /\ polling \in {"works", "waits", "blind"} /\ lastId \in Nat
  /\ connOf \in [Fds -> 0..lastId]
  /\ registered \in [Poll!AllFds -> [id : 0..lastId, events : Events]]
  /\ kernel \in [Poll!AllFds -> Events]

\* What the kernel holds for a descriptor is what the table says, unless the
\* descriptor has gone to another connection since.
TableTrue ==
  \A fd \in Poll!AllFds :
    /\ registered[fd] = Poll!NoInterest => kernel[fd] = {}
    /\ kernel[fd] = registered[fd].events \/ (fd \in Fds /\ connOf[fd] # registered[fd].id)
    /\ fd \in Fds /\ registered[fd].id = 0 => registered[fd] = Poll!NoInterest

\* The inductive invariant of the readiness set.
PollInv == PollTyped /\ TableTrue /\ Poll!NoDeafConnection

\* The loop starts with nothing registered.
LEMMA PollStart == Poll!Init => PollInv
  BY PollAssumption DEF Poll!Init, PollInv, PollTyped, TableTrue, Poll!NoDeafConnection,
     Poll!NoInterest, Poll!AllFds, Events

\* What is wanted of a descriptor names the connection that has it now.
LEMMA DesiredNow ==
  ASSUME PollTyped, NEW fd \in Poll!AllFds
  PROVE  /\ Poll!Desired(fd) \in [id : 0..lastId, events : Events]
         /\ fd \in Fds => Poll!Desired(fd).id = connOf[fd] /\ (connOf[fd] = 0 => Poll!Desired(fd) = Poll!NoInterest)
<1>1. CASE fd = Listener
  BY <1>1, PollAssumption DEF PollTyped, Poll!Desired, Poll!NoInterest, Events
<1>2. CASE fd # Listener /\ fd \in Poll!Open
  BY <1>2 DEF PollTyped, Poll!Desired, Events, Poll!Open, Poll!AllFds
<1>3. CASE fd # Listener /\ fd \notin Poll!Open
  BY <1>3, PollAssumption DEF PollTyped, Poll!Desired, Poll!NoInterest, Events, Poll!Open,
     Poll!AllFds
<1> QED
  BY <1>1, <1>2, <1>3

\* A sync that brings some of the entries up to date keeps the table true, and
\* one that reaches all of them leaves what is wanted.
LEMMA SyncedTable ==
  ASSUME PollInv, NEW done \in SUBSET Poll!Wanted, Poll!Synced(done), UNCHANGED <<connOf, backlog, lastId>>
  PROVE  /\ registered' \in [Poll!AllFds -> [id : 0..lastId, events : Events]]
         /\ kernel' \in [Poll!AllFds -> Events]
         /\ TableTrue'
         /\ done = Poll!Wanted => \A fd \in Poll!AllFds : kernel'[fd] = Poll!Desired(fd).events /\ registered'[fd] = Poll!Desired(fd)
<1>1. PollTyped /\ TableTrue
  BY DEF PollInv
<1>2. ASSUME NEW fd \in Poll!AllFds
      PROVE  /\ registered'[fd] \in [id : 0..lastId, events : Events] /\ kernel'[fd] \in Events
             /\ registered'[fd] = Poll!NoInterest => kernel'[fd] = {}
             /\ kernel'[fd] = registered'[fd].events \/ (fd \in Fds /\ connOf[fd] # registered'[fd].id)
             /\ fd \in Fds /\ registered'[fd].id = 0 => registered'[fd] = Poll!NoInterest
             /\ done = Poll!Wanted => kernel'[fd] = Poll!Desired(fd).events /\ registered'[fd] = Poll!Desired(fd)
  <2>1. /\ Poll!Desired(fd) \in [id : 0..lastId, events : Events]
        /\ fd \in Fds => Poll!Desired(fd).id = connOf[fd] /\ (connOf[fd] = 0 => Poll!Desired(fd) = Poll!NoInterest)
    BY <1>1, DesiredNow
  <2>2. Poll!NoInterest \in [id : 0..lastId, events : Events] /\ Poll!NoInterest.events = {}
    BY <1>1 DEF PollTyped, Poll!NoInterest, Events
  <2>3. CASE fd \in Poll!Stale
    <3>1. registered'[fd] = Poll!NoInterest /\ kernel'[fd] = {}
      BY <2>3 DEF Poll!Synced
    <3>2. Poll!Desired(fd) = Poll!NoInterest
      BY <2>3 DEF Poll!Stale, Poll!Wanted
    <3> QED
      BY <2>2, <3>1, <3>2
  <2>4. CASE fd \notin Poll!Stale /\ fd \in done /\ ~Poll!Current(fd)
    <3>1. registered'[fd] = Poll!Desired(fd) /\ kernel'[fd] = Poll!Desired(fd).events
      BY <2>4 DEF Poll!Synced
    <3> QED
      BY <2>1, <2>2, <3>1
  <2>5. CASE fd \notin Poll!Stale /\ ~(fd \in done /\ ~Poll!Current(fd))
    <3>1. registered'[fd] = registered[fd] /\ kernel'[fd] = kernel[fd]
      BY <2>5 DEF Poll!Synced
    <3>2. ASSUME done = Poll!Wanted
          PROVE  registered[fd] = Poll!Desired(fd)
      <4>1. CASE fd \in Poll!Wanted
        BY <2>5, <3>2, <4>1 DEF Poll!Current
      <4>2. CASE fd \notin Poll!Wanted
        BY <2>5, <4>2 DEF Poll!Stale, Poll!Wanted
      <4> QED
        BY <4>1, <4>2
    <3>3. ASSUME done = Poll!Wanted
          PROVE  kernel[fd] = Poll!Desired(fd).events
      BY <1>1, <2>1, <3>2, <3>3 DEF TableTrue
    <3> QED
      BY <1>1, <3>1, <3>2, <3>3 DEF TableTrue, PollTyped
  <2> QED
    BY <2>3, <2>4, <2>5
<1>3. /\ registered' = [fd \in Poll!AllFds |-> registered'[fd]] /\ kernel' = [fd \in Poll!AllFds |-> kernel'[fd]]
  BY DEF Poll!Synced
<1>4. TableTrue'
  BY <1>2 DEF TableTrue
<1> QED
  BY <1>2, <1>3, <1>4

\* The work of the loop between two waits.
LEMMA PollWorks ==
  ASSUME PollInv, NEW fd \in Fds, Poll!Accept(fd) \/ Poll!Close(fd) \/ Poll!Output(fd)
  PROVE  PollInv'
<1>1. PollTyped /\ TableTrue /\ polling = "works" /\ fd \in Poll!AllFds
  BY DEF PollInv, Poll!Accept, Poll!Close, Poll!Output, Poll!AllFds
<1>2. CASE Poll!Accept(fd)
  <2>1. /\ polling' = polling /\ registered' = registered /\ kernel' = kernel /\ lastId' = lastId + 1
        /\ connOf' = [connOf EXCEPT ![fd] = lastId + 1]
    BY <1>2 DEF Poll!Accept
  <2>2. PollTyped'
    BY <1>1, <2>1 DEF PollTyped
  <2>3. registered[fd].id # lastId + 1
    BY <1>1 DEF PollTyped
  <2>4. TableTrue'
    BY <1>1, <2>1, <2>3 DEF TableTrue, PollTyped
  <2> QED
    BY <1>1, <2>1, <2>2, <2>4 DEF PollInv, Poll!NoDeafConnection
<1>3. CASE Poll!Close(fd)
  <2>1. /\ polling' = polling /\ registered' = registered /\ lastId' = lastId
        /\ kernel' = [kernel EXCEPT ![fd] = {}] /\ connOf' = [connOf EXCEPT ![fd] = 0]
    BY <1>3 DEF Poll!Close
  <2>2. PollTyped'
    BY <1>1, <2>1 DEF PollTyped, Events
  <2>3. kernel'[fd] = {} /\ connOf'[fd] = 0 /\ Poll!NoInterest.events = {}
    BY <1>1, <2>1 DEF PollTyped, Poll!NoInterest
  <2>4. \A o \in Poll!AllFds \ {fd} : kernel'[o] = kernel[o] /\ (o \in Fds => connOf'[o] = connOf[o])
    BY <1>1, <2>1 DEF PollTyped
  <2>5. registered[fd].id = 0 => registered[fd] = Poll!NoInterest
    BY <1>1 DEF TableTrue
  <2>6. TableTrue'
    BY <1>1, <2>1, <2>3, <2>4, <2>5 DEF TableTrue
  <2> QED
    BY <1>1, <2>1, <2>2, <2>6 DEF PollInv, Poll!NoDeafConnection
<1>4. CASE Poll!Output(fd)
  <2>1. UNCHANGED <<polling, registered, lastId, kernel, connOf>>
    BY <1>4 DEF Poll!Output
  <2> QED
    BY <1>1, <2>1 DEF PollInv, PollTyped, TableTrue, Poll!NoDeafConnection
<1> QED
  BY <1>2, <1>3, <1>4

\* A wait is entered with the kernel told everything, or not entered.
LEMMA PollWaits == ASSUME PollInv, Poll!Wait \/ Poll!SyncFails PROVE PollInv'
<1>1. UNCHANGED <<connOf, backlog, lastId>>
  BY DEF Poll!Wait, Poll!SyncFails
<1>2. \A fd \in Poll!AllFds : Poll!Desired(fd)' = Poll!Desired(fd)
  BY <1>1 DEF Poll!Desired, Poll!Open
<1>3. PICK done \in SUBSET Poll!Wanted : Poll!Synced(done) /\ (Poll!Wait => done = Poll!Wanted)
  BY DEF Poll!Wait, Poll!SyncFails
<1>4. /\ registered' \in [Poll!AllFds -> [id : 0..lastId, events : Events]]
      /\ kernel' \in [Poll!AllFds -> Events]
      /\ TableTrue'
      /\ done = Poll!Wanted => \A fd \in Poll!AllFds : kernel'[fd] = Poll!Desired(fd).events /\ registered'[fd] = Poll!Desired(fd)
  BY <1>1, <1>3, SyncedTable
<1>5. polling' \in {"works", "waits", "blind"} /\ (polling' = "waits" => Poll!Wait)
  BY DEF Poll!Wait, Poll!SyncFails
<1>6. PollTyped'
  BY <1>1, <1>4, <1>5 DEF PollInv, PollTyped
<1>7. Poll!NoDeafConnection'
  BY <1>2, <1>3, <1>4, <1>5 DEF Poll!NoDeafConnection
<1> QED
  BY <1>4, <1>6, <1>7 DEF PollInv

\* Every step of the loop keeps the table true.
LEMMA PollInvStep == ASSUME PollInv, [Poll!Next]_pollPart PROVE PollInv'
<1>1. ASSUME UNCHANGED <<connOf, lastId, registered, kernel>>, polling' = "works"
      PROVE  PollInv'
  BY <1>1 DEF PollInv, PollTyped, TableTrue, Poll!NoDeafConnection
<1>2. ASSUME UNCHANGED pollPart PROVE PollInv'
  <2>1. UNCHANGED <<polling, connOf, backlog, lastId, registered, kernel>>
    BY <1>2 DEF pollPart
  <2>2. \A fd \in Poll!AllFds : Poll!Desired(fd)' = Poll!Desired(fd)
    BY <2>1 DEF Poll!Desired, Poll!Open
  <2> QED
    BY <2>1, <2>2 DEF PollInv, PollTyped, TableTrue, Poll!NoDeafConnection
<1>3. ASSUME NEW fd \in Fds, Poll!Accept(fd) \/ Poll!Close(fd) \/ Poll!Output(fd) PROVE PollInv'
  BY <1>3, PollWorks
<1>4. CASE Poll!Wait \/ Poll!SyncFails
  BY <1>4, PollWaits
<1>5. CASE Poll!WaitFails \/ Poll!Resume
  BY <1>1, <1>5 DEF Poll!WaitFails, Poll!Resume
<1>6. ASSUME NEW fired \in SUBSET Poll!AllFds, NEW outputOnly \in SUBSET Fds, Poll!WaitEnds(fired, outputOnly)
      PROVE  PollInv'
  BY <1>1, <1>6 DEF Poll!WaitEnds
<1> QED
  BY <1>2, <1>3, <1>4, <1>5, <1>6 DEF Poll!Next

\* HandOversKept: whatever fills up, closes, fails or is reused between the steps
\* of the shards and of their poll loops, no claim outlives its route, no queued
\* message is slept on and no connection goes deaf.
THEOREM HandOversAlways == EdgeSpec => []HandOversKept
<1>1. EdgeInit => RelayInv /\ PollInv
  BY RelayStart, PollStart DEF EdgeInit
<1>2. ASSUME RelayInv, [EdgeNext]_EdgeVars PROVE RelayInv'
  <2>1. Relay!Next \/ UNCHANGED shardsPart
    BY <1>2 DEF EdgeNext, EdgeVars, SlotsStep, RolesStep, ShardsStep, PollStep
  <2> QED
    BY <1>2, <2>1, RelayInvStep
<1>3. ASSUME PollInv, [EdgeNext]_EdgeVars PROVE PollInv'
  <2>1. Poll!Next \/ UNCHANGED pollPart
    BY <1>3 DEF EdgeNext, EdgeVars, SlotsStep, RolesStep, ShardsStep, PollStep
  <2> QED
    BY <1>3, <2>1, PollInvStep
<1>4. RelayInv /\ PollInv => HandOversKept
  BY RelayInvSuffices DEF PollInv, HandOversKept
<1> QED
  BY <1>1, <1>2, <1>3, <1>4, PTL DEF EdgeSpec
=============================================================================
