----------------------------- MODULE PlayerSlots -----------------------------
(***************************************************************************)
(* The viewer slots of db.rs: the players table, the in-memory             *)
(* active_player_counts that enforce MAX_CONNECTIONS_PER_PLAY_KEY, and the *)
(* unpersisted_player_counts of sessions admitted before their row exists. *)
(*                                                                         *)
(* Whoever writes the table holds the SQLite connection (`conn`) over the  *)
(* write and the counter update that goes with it, so those are two steps; *)
(* player_reserve and player_cancel_reservation, on the RTMP thread, take  *)
(* only the counters' lock and may come between them, and in the middle of *)
(* a Db::batch as well.                                                    *)
(***************************************************************************)
EXTENDS Integers, FiniteSets

CONSTANTS
    Viewers,      \* play keys (stream_viewers.id)
    Sessions,     \* player row ids
    ViewerOf,     \* the play key each session plays with
    StreamKeys,   \* the play keys of each stream
    Cap,          \* MAX_CONNECTIONS_PER_PLAY_KEY
    MaxFaults,    \* bound: SQLite calls that fail
    MayFail,      \* the calls that may fail
    MaxRestarts   \* bound: process restarts

ASSUME SessionsAssumption == IsFiniteSet(Sessions) /\ ViewerOf \in [Sessions -> Viewers]
ASSUME StreamsAssumption == StreamKeys \subseteq SUBSET Viewers
ASSUME CapAssumption == Cap \in Nat \ {0}
ASSUME FaultAssumption ==
    /\ MayFail \subseteq {"insert", "update", "commit", "resync"}
    /\ MaxFaults \in Nat /\ MaxRestarts \in Nat

VARIABLES
    row,          \* players: absent / inactive / active
    saved,        \* the table as the open batch would roll it back
    batch,        \* is the worker inside Db::batch?
    conn,         \* the operation that holds the connection, at its second step
    counts,       \* active_player_counts
    unpersisted,  \* unpersisted_player_counts
    reserved,     \* sessions reserved whose player_insert_reserved is still due
    gone,         \* play keys whose stream has been deleted
    failed,       \* history: the calls that have failed so far
    faults, restarts

vars == <<row, saved, batch, conn, counts, unpersisted, reserved, gone, faults, failed, restarts>>

Active(v) == {i \in Sessions : row[i] = "active" /\ ViewerOf[i] = v}
Reserved(v) == {i \in reserved : ViewerOf[i] = v}

Free == [op |-> "free"]
Holding(op, i) == [op |-> op, id |-> i]
OnSession == {"insert", "reactivate", "release", "settle", "cancel"}

Init ==
    /\ row = [i \in Sessions |-> "absent"]
    /\ saved = row
    /\ batch = FALSE
    /\ conn = Free
    /\ counts = [v \in Viewers |-> 0]
    /\ unpersisted = [v \in Viewers |-> 0]
    /\ reserved = {}
    /\ gone = {}
    /\ failed = {} /\ faults = 0 /\ restarts = 0

NoFault == UNCHANGED <<faults, failed>>
Fault(call) ==
    /\ call \in MayFail
    /\ faults < MaxFaults
    /\ faults' = faults + 1
    /\ failed' = failed \cup {call}

-----------------------------------------------------------------------------
(***************************************************************************)
(* The counters.                                                           *)
(***************************************************************************)
\* Mutant: one connection too many.
HasSlotInclusive(v) == counts[v] <= Cap

HasSlot(v) == counts[v] < Cap

try_incr_count(v) == [counts EXCEPT ![v] = @ + 1]

decr_count(n, v) == [n EXCEPT ![v] = IF @ <= 1 THEN 0 ELSE @ - 1]

player_reserve(i) ==
    /\ row[i] = "absent" /\ i \notin reserved
    /\ conn.op \in OnSession => conn.id # i
    /\ HasSlot(ViewerOf[i])
    /\ counts' = try_incr_count(ViewerOf[i])
    /\ unpersisted' = [unpersisted EXCEPT ![ViewerOf[i]] = @ + 1]
    /\ reserved' = reserved \cup {i}
    /\ UNCHANGED <<row, saved, batch, conn, gone, faults, failed, restarts>>

\* Mutant: the reservation stays counted.
UnreserveLeaks(i) == reserved' = reserved \ {i} /\ unpersisted' = unpersisted

Unreserve(i) ==
    /\ unpersisted' = decr_count(unpersisted, ViewerOf[i])
    /\ reserved' = reserved \ {i}

player_cancel_reservation(i) ==
    /\ i \in reserved
    /\ conn.op \in OnSession => conn.id # i
    /\ Unreserve(i)
    /\ counts' = decr_count(counts, ViewerOf[i])
    /\ UNCHANGED <<row, saved, batch, conn, gone, faults, failed, restarts>>

-----------------------------------------------------------------------------
(***************************************************************************)
(* Operations on the table.  Each starts with the connection free; inside  *)
(* a batch only the worker's own operations get it.                        *)
(***************************************************************************)

\* Take the slot ...
player_try_acquire(i) ==
    /\ conn = Free /\ i \notin reserved
    /\ HasSlot(ViewerOf[i])
    /\ counts' = try_incr_count(ViewerOf[i])
    /\ conn' = Holding("insert", i)
    /\ UNCHANGED <<row, saved, batch, unpersisted, reserved, gone, faults, failed, restarts>>

insert_active_player(i) ==
    /\ row[i] = "absent" /\ ViewerOf[i] \notin gone
    /\ row' = [row EXCEPT ![i] = "active"]
    /\ NoFault

insert_fails(i) ==
    /\ \/ (row[i] # "absent" \/ ViewerOf[i] \in gone) /\ NoFault
       \/ Fault("insert")
    /\ row' = row

\* ... insert the row, or hand the slot back.
InsertAcquired ==
    /\ conn.op = "insert"
    /\ conn' = Free
    /\ \/ insert_active_player(conn.id) /\ UNCHANGED counts
       \/ insert_fails(conn.id) /\ counts' = decr_count(counts, ViewerOf[conn.id])
    /\ UNCHANGED <<saved, batch, unpersisted, reserved, gone, restarts>>

\* player_insert_reserved: the row, then the reservation.  The fast-path
\* writes run outside any group.
player_insert_reserved(i) ==
    /\ conn = Free /\ ~batch
    /\ i \in reserved
    /\ \/ insert_active_player(i) /\ conn' = Holding("settle", i)
       \/ insert_fails(i) /\ conn' = Holding("cancel", i)
    /\ UNCHANGED <<saved, batch, counts, unpersisted, reserved, gone, restarts>>

SettleReservation ==
    /\ conn.op \in {"settle", "cancel"}
    /\ conn' = Free
    /\ Unreserve(conn.id)
    /\ counts' = IF conn.op = "cancel" THEN decr_count(counts, ViewerOf[conn.id]) ELSE counts
    /\ UNCHANGED <<row, saved, batch, gone, faults, failed, restarts>>

\* player_update with active=0.  Only a row that was active gives up a slot;
\* a missing row or a failed write changes nothing.
Deactivate(i) ==
    /\ conn = Free
    /\ row[i] # "absent"
    /\ row' = [row EXCEPT ![i] = "inactive"]
    /\ conn' = IF row[i] = "active" THEN Holding("release", i) ELSE Free
    /\ UNCHANGED <<saved, batch, counts, unpersisted, reserved, gone, faults, failed, restarts>>

ReleaseSlot ==
    /\ conn.op = "release"
    /\ conn' = Free
    /\ counts' = decr_count(counts, ViewerOf[conn.id])
    /\ UNCHANGED <<row, saved, batch, unpersisted, reserved, gone, faults, failed, restarts>>

\* player_update with active=1 (restore_player_row): a transition takes a slot
\* first.
Reactivate(i) ==
    /\ conn = Free /\ i \notin reserved
    /\ row[i] # "active"
    /\ HasSlot(ViewerOf[i])
    /\ counts' = try_incr_count(ViewerOf[i])
    /\ conn' = Holding("reactivate", i)
    /\ UNCHANGED <<row, saved, batch, unpersisted, reserved, gone, faults, failed, restarts>>

UpdateReactivated ==
    /\ conn.op = "reactivate"
    /\ conn' = Free
    /\ \/ /\ row[conn.id] # "absent" /\ NoFault
          /\ row' = [row EXCEPT ![conn.id] = "active"]
          /\ UNCHANGED counts
       \/ /\ (row[conn.id] = "absent" /\ NoFault) \/ Fault("update")
          /\ counts' = decr_count(counts, ViewerOf[conn.id])
          /\ UNCHANGED row
    /\ UNCHANGED <<saved, batch, unpersisted, reserved, gone, restarts>>

\* A revoked play key: its rows, then its counter.
players_deactivate_for_viewer(v) ==
    /\ conn = Free /\ ~batch
    /\ row' = [i \in Sessions |-> IF i \in Active(v) THEN "inactive" ELSE row[i]]
    /\ conn' = [op |-> "revoke", viewer |-> v]
    /\ UNCHANGED <<saved, batch, counts, unpersisted, reserved, gone, faults, failed, restarts>>

\* Mutant: the whole counter is removed, pending reservations included.
DropWholeCount ==
    /\ conn.op = "revoke"
    /\ conn' = Free
    /\ counts' = [counts EXCEPT ![conn.viewer] = 0]
    /\ UNCHANGED <<row, saved, batch, unpersisted, reserved, gone, faults, failed, restarts>>

DropViewerCount ==
    /\ conn.op = "revoke"
    /\ conn' = Free
    /\ counts' = [counts EXCEPT ![conn.viewer] = unpersisted[conn.viewer]]
    /\ UNCHANGED <<row, saved, batch, unpersisted, reserved, gone, faults, failed, restarts>>

\* A finished stream delete cascades to the players rows, not to the counts.
stream_delete(K) ==
    /\ conn = Free /\ ~batch
    /\ K \in StreamKeys /\ ~(K \subseteq gone)
    /\ gone' = gone \cup K
    /\ row' = [i \in Sessions |-> IF ViewerOf[i] \in K THEN "absent" ELSE row[i]]
    /\ UNCHANGED <<saved, batch, conn, counts, unpersisted, reserved, faults, failed, restarts>>

-----------------------------------------------------------------------------
(***************************************************************************)
(* Group commit (Db::batch) and restart (Db::open).                        *)
(***************************************************************************)
BatchBegins ==
    /\ conn = Free /\ ~batch
    /\ batch' = TRUE
    /\ saved' = row
    /\ UNCHANGED <<row, conn, counts, unpersisted, reserved, gone, faults, failed, restarts>>

BatchCommits ==
    /\ conn = Free /\ batch
    /\ batch' = FALSE
    /\ UNCHANGED <<row, saved, conn, counts, unpersisted, reserved, gone, faults, failed, restarts>>

\* Mutant: only the rows are counted.
resync_rows_only(t) ==
    [v \in Viewers |-> Cardinality({i \in Sessions : t[i] = "active" /\ ViewerOf[i] = v})]

\* resync_active_player_counts, for the table t.
resync_active_player_counts(t) ==
    [v \in Viewers |->
        Cardinality({i \in Sessions : t[i] = "active" /\ ViewerOf[i] = v}) + unpersisted[v]]

\* The COMMIT fails: roll back and rebuild the counts (which stay empty when
\* even that query fails).
BatchRollsBack ==
    /\ conn = Free /\ batch
    /\ batch' = FALSE
    /\ row' = saved
    /\ \/ /\ Fault("commit")
          /\ counts' = resync_active_player_counts(saved)
       \/ /\ {"commit", "resync"} \subseteq MayFail /\ faults + 1 < MaxFaults
          /\ faults' = faults + 2
          /\ failed' = failed \cup {"commit", "resync"}
          /\ counts' = [v \in Viewers |-> 0]
    /\ UNCHANGED <<saved, conn, unpersisted, reserved, gone, restarts>>

Restart ==
    /\ restarts < MaxRestarts
    /\ restarts' = restarts + 1
    /\ LET kept == IF batch THEN saved ELSE row
       IN row' = [i \in Sessions |-> IF kept[i] = "active" THEN "inactive" ELSE kept[i]]
    /\ batch' = FALSE
    /\ conn' = Free
    /\ counts' = [v \in Viewers |-> 0]
    /\ unpersisted' = [v \in Viewers |-> 0]
    /\ reserved' = {}
    /\ UNCHANGED <<saved, gone, faults, failed>>

SessionNext(i) ==
    \/ player_reserve(i) \/ player_cancel_reservation(i)
    \/ player_try_acquire(i) \/ player_insert_reserved(i)
    \/ Deactivate(i) \/ Reactivate(i)

SecondStep ==
    \/ InsertAcquired \/ SettleReservation \/ ReleaseSlot
    \/ UpdateReactivated \/ DropViewerCount

Next ==
    \/ \E i \in Sessions : SessionNext(i)
    \/ SecondStep
    \/ \E v \in Viewers : players_deactivate_for_viewer(v)
    \/ \E K \in StreamKeys : stream_delete(K)
    \/ BatchBegins \/ BatchCommits \/ BatchRollsBack
    \/ Restart

Spec == Init /\ [][Next]_vars

-----------------------------------------------------------------------------
Rows == {"absent", "inactive", "active"}

\* Every variable has its type.
TypeOK ==
    /\ row \in [Sessions -> Rows]
    /\ saved \in [Sessions -> Rows]
    /\ batch \in BOOLEAN
    /\ conn \in {Free} \cup [op : OnSession, id : Sessions] \cup [op : {"revoke"}, viewer : Viewers]
    /\ counts \in [Viewers -> Nat]
    /\ unpersisted \in [Viewers -> Nat]
    /\ reserved \subseteq Sessions
    /\ gone \subseteq Viewers
    /\ failed \subseteq MayFail
    /\ faults \in 0..MaxFaults
    /\ restarts \in 0..MaxRestarts

\* The sessions that take a slot of v: the active rows and the reservations
\* (a session being settled is both).
Occupied(v) == Active(v) \cup Reserved(v)

\* The slot an operation has taken before its row, or gives back after it.
InTransit(v) ==
    IF conn.op \in {"insert", "reactivate", "release"} /\ ViewerOf[conn.id] = v THEN 1 ELSE 0

Accounted(v) ==
    /\ counts[v] >= Cardinality(Occupied(v)) + InTransit(v)
    /\ v \notin gone /\ conn # [op |-> "revoke", viewer |-> v] =>
         counts[v] = Cardinality(Occupied(v)) + InTransit(v)

\* "this map only mirrors currently active rows and is always mutated in the
\* same critical section ... so the two never observably disagree": each
\* counter is the number of slots really taken.  Only for a deleted stream,
\* whose keys no one can use again, may it stay too high, and for a key being
\* revoked until the second step.
MirrorsRows == \A v \in Viewers : Accounted(v)

\* The same as long as the query that rebuilds the counters has not failed:
\* no other failure, of a write or of a COMMIT, makes them disagree.
SlotsAccounted == "resync" \notin failed => MirrorsRows

\* unpersisted_player_counts counts exactly the reservations still due.
ReservationsAccounted ==
    \A v \in Viewers : unpersisted[v] = Cardinality(Reserved(v))

\* "Max simultaneous RTMP play connections per play key": never more sessions
\* than the cap, whichever thread admitted them.
WithinCap == \A v \in Viewers : Cardinality(Occupied(v)) <= Cap

\* The cap holds until a COMMIT fails: failed inserts and updates, revoked
\* keys, deleted streams and restarts never let a session in too many.
CapHolds == "commit" \notin failed => WithinCap

\* Nothing is admitted past the cap: a counter above it never grows, even
\* when a failed COMMIT has put it there (and the rebuild has worked).
NoAdmissionPastCap ==
    [][\A v \in Viewers :
          counts'[v] > counts[v] =>
              counts'[v] <= Cap \/ (batch /\ ~batch') \/ "resync" \in failed]_vars
=============================================================================
