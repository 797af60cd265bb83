----------------------------- MODULE HlsSessions -----------------------------
(***************************************************************************)
(* The HLS viewers of media_output.rs.  An HLS client has no connection    *)
(* that closes, so its slot of the play key (a row of the players table,   *)
(* shared with the RTMP viewers) is held by a registry entry per viewer    *)
(* and client address, renewed by every request and purged when it has not *)
(* been renewed for the time to live.                                      *)
(*                                                                         *)
(* A request looks the play key and the stream up first and takes the      *)
(* registry's lock afterwards; streams and viewers may be deleted, and     *)
(* SQLite may fail, at any point between.  PlayerSlots models the counters *)
(* behind player_try_acquire; here a viewer's count is the number of its   *)
(* active rows.                                                            *)
(***************************************************************************)
EXTENDS Naturals, FiniteSets

CONSTANTS HlsViewers,  \* play keys of one stream
          Clients,     \* client addresses
          Slots,       \* row ids that an HLS session may get
          HlsCap,      \* MAX_CONNECTIONS_PER_PLAY_KEY
          MaxHlsFaults,\* bound: SQLite calls that fail
          NoEntry      \* no registry entry

VARIABLES viewer,      \* play keys in the database
          present,     \* is the stream in the database?
          entry,       \* HlsSessionRegistry: slot and age of each client
          slotOf,      \* players rows of HLS: viewer of each row, active or not
          rtmp,        \* active players rows of RTMP sessions, per viewer
          looking,     \* requests that have found their viewer
          hlsFaults

hlsVars == <<viewer, present, entry, slotOf, rtmp, looking, hlsFaults>>

Unused == [of |-> NoEntry, active |-> FALSE]
Held(v) == {s \in Slots : slotOf[s].of = v /\ slotOf[s].active}
\* A new row gets a new id; which one does not matter.
NextSlot == {s \in Slots : slotOf[s] = Unused /\ \A r \in Slots : r < s => slotOf[r] # Unused}
ActiveCount(v) == Cardinality(Held(v)) + rtmp[v]
Fresh(s) == [slot |-> s, stale |-> FALSE]

Init ==
  /\ viewer = HlsViewers /\ present = TRUE
  /\ entry = [v \in HlsViewers |-> [c \in Clients |-> NoEntry]]
  /\ slotOf = [s \in Slots |-> Unused]
  /\ rtmp = [v \in HlsViewers |-> 0]
  /\ looking = {} /\ hlsFaults = 0

\* authorize_hls_request up to the lock: the key, the stream, the remote count.
Lookup(v, c) ==
  /\ v \in viewer /\ present
  /\ \E remote \in 0 .. 1 : looking' = looking \cup {<<v, c, remote>>}
  /\ UNCHANGED <<viewer, present, entry, slotOf, rtmp, hlsFaults>>

(***************************************************************************)
(* The purge.  release_expired lets an entry go when its stream is gone,   *)
(* when its row is gone, or when the row has been made inactive; a failed  *)
(* call keeps it for the next purge.                                       *)
(***************************************************************************)
Expired == {x \in HlsViewers \X Clients : entry[x[1]][x[2]] # NoEntry /\ entry[x[1]][x[2]].stale}
SlotOf(x) == entry[x[1]][x[2]].slot

\* Mutant: a failed release drops the entry as well.
drop_anyway(failed) == Expired

Released(failed) == Expired \ failed

purge_stale(failed) ==
  LET done == Released(failed)
      freed == IF present THEN {SlotOf(x) : x \in Expired \ failed} ELSE {}
  IN [entry |-> [v \in HlsViewers |-> [c \in Clients |->
                   IF <<v, c>> \in done THEN NoEntry ELSE entry[v][c]]],
      slotOf |-> [s \in Slots |->
                   IF s \in freed THEN [slotOf[s] EXCEPT !.active = FALSE] ELSE slotOf[s]]]

Failures ==
  {f \in SUBSET Expired : hlsFaults + Cardinality(f) <= MaxHlsFaults}

PurgeTick ==
  /\ Expired # {}
  /\ \E f \in Failures :
       /\ entry' = purge_stale(f).entry
       /\ slotOf' = purge_stale(f).slotOf
       /\ hlsFaults' = hlsFaults + Cardinality(f)
  /\ UNCHANGED <<viewer, present, rtmp, looking>>

(***************************************************************************)
(* reserve_or_renew, under the registry's lock: purge, renew an entry that *)
(* is there, or take a slot.                                               *)
(***************************************************************************)
CountAfter(p, v) == Cardinality({s \in Slots : p.slotOf[s].of = v /\ p.slotOf[s].active}) + rtmp[v]

reserve_or_renew(v, c, remote) ==
  \E f \in Failures :
    LET p == purge_stale(f)
        full == CountAfter(p, v) + remote >= HlsCap  \* player_try_acquire's check is weaker
    IN /\ hlsFaults' = hlsFaults + Cardinality(f)
       /\ \/ /\ p.entry[v][c] # NoEntry
             /\ entry' = [p.entry EXCEPT ![v][c].stale = FALSE]
             /\ slotOf' = p.slotOf
          \/ /\ p.entry[v][c] = NoEntry
             /\ full \/ ~present          \* refused, or the insert fails on its stream
             /\ entry' = p.entry /\ slotOf' = p.slotOf
          \/ /\ p.entry[v][c] = NoEntry
             /\ ~full /\ present
             /\ \E s \in NextSlot :
                  /\ slotOf' = [p.slotOf EXCEPT ![s] = [of |-> v, active |-> TRUE]]
                  /\ entry' = [p.entry EXCEPT ![v][c] = Fresh(s)]

Reserve(v, c, remote) ==
  /\ <<v, c, remote>> \in looking
  /\ looking' = looking \ {<<v, c, remote>>}
  /\ reserve_or_renew(v, c, remote)
  /\ UNCHANGED <<viewer, present, rtmp>>

\* The time to live passes for an entry that nobody renews.
Age(v, c) ==
  /\ entry[v][c] # NoEntry /\ ~entry[v][c].stale
  /\ entry' = [entry EXCEPT ![v][c].stale = TRUE]
  /\ UNCHANGED <<viewer, present, slotOf, rtmp, looking, hlsFaults>>

-----------------------------------------------------------------------------
(***************************************************************************)
(* The rest of the server: RTMP viewers of the same keys, deletions.       *)
(***************************************************************************)
RtmpJoin(v) ==
  /\ v \in viewer /\ present /\ ActiveCount(v) < HlsCap
  /\ rtmp' = [rtmp EXCEPT ![v] = @ + 1]
  /\ UNCHANGED <<viewer, present, entry, slotOf, looking, hlsFaults>>

RtmpLeave(v) ==
  /\ rtmp[v] > 0
  /\ rtmp' = [rtmp EXCEPT ![v] = @ - 1]
  /\ UNCHANGED <<viewer, present, entry, slotOf, looking, hlsFaults>>

\* players_deactivate_for_viewer once the viewer's row is deleted.
DeleteViewer(v) ==
  /\ v \in viewer
  /\ viewer' = viewer \ {v}
  /\ rtmp' = [rtmp EXCEPT ![v] = 0]
  /\ slotOf' = [s \in Slots |->
                 IF slotOf[s].of = v THEN [slotOf[s] EXCEPT !.active = FALSE] ELSE slotOf[s]]
  /\ UNCHANGED <<present, entry, looking, hlsFaults>>

\* The rows of the stream's viewers and players go with it (ON DELETE CASCADE).
DeleteStream ==
  /\ present
  /\ present' = FALSE /\ viewer' = {}
  /\ rtmp' = [v \in HlsViewers |-> 0]
  /\ slotOf' = [s \in Slots |-> [slotOf[s] EXCEPT !.active = FALSE]]
  /\ UNCHANGED <<entry, looking, hlsFaults>>

Next ==
  \/ \E v \in HlsViewers, c \in Clients : Lookup(v, c) \/ Age(v, c)
  \/ \E v \in HlsViewers, c \in Clients, r \in 0 .. 1 : Reserve(v, c, r)
  \/ PurgeTick
  \/ \E v \in HlsViewers : RtmpJoin(v) \/ RtmpLeave(v) \/ DeleteViewer(v)
  \/ DeleteStream

Spec == Init /\ [][Next]_hlsVars

-----------------------------------------------------------------------------
TypeOK ==
  /\ viewer \subseteq HlsViewers /\ present \in BOOLEAN
  /\ entry \in [HlsViewers -> [Clients ->
                  {NoEntry} \cup [slot : Slots, stale : BOOLEAN]]]
  /\ slotOf \in [Slots -> [of : HlsViewers \cup {NoEntry}, active : BOOLEAN]]
  /\ rtmp \in [HlsViewers -> 0 .. HlsCap]
  /\ looking \subseteq HlsViewers \X Clients \X (0 .. 1)
  /\ hlsFaults \in 0 .. MaxHlsFaults

(***************************************************************************)
(* No slot of a play key is lost: every active row of an HLS session       *)
(* belongs to the entry of one client, which a later purge will find,      *)
(* whatever releases fail in between; and HLS and RTMP together never hold *)
(* more than the key allows (hls_router's comment on stale rows that block *)
(* later RTMP viewers).                                                    *)
(***************************************************************************)
SlotsFound ==
  \A v \in HlsViewers :
    /\ \A s \in Held(v) :
         Cardinality({c \in Clients : entry[v][c] # NoEntry /\ entry[v][c].slot = s}) = 1
    /\ ActiveCount(v) <= HlsCap

(***************************************************************************)
(* A client that is served holds a slot, unless its viewer or its stream   *)
(* has been deleted since.                                                 *)
(***************************************************************************)
ServedHasSlot ==
  \A v \in viewer, c \in Clients :
    entry[v][c] # NoEntry => slotOf[entry[v][c].slot].active
=============================================================================
