------------------------------ MODULE MCTables ------------------------------
(***************************************************************************)
(* Six questions about what a node keeps account of, asked in one run.  A *)
(* behaviour belongs to one part, chosen at the start; the variables of    *)
(* the others keep their initial values.                                   *)
(*                                                                         *)
(*   log    ReplicatedState: the commands of the Raft log on one node;     *)
(*   hls    HlsSessions: two HLS clients of one play key;                  *)
(*   keys   ViewerKeys: the default viewer and two that want the same key; *)
(*   stats  SessionStats: three sessions on one connection;                *)
(*   ports  ControlPlane: a Raft call of a member and a stranger's write   *)
(*          and snapshot at a control port with one slot of each kind;     *)
(*   peers  ControlPlane: three media connections, two of one address, at  *)
(*          a media port with one slot.                                    *)
(***************************************************************************)
EXTENDS MCReplicatedState, FiniteSets

CONSTANTS
    HlsViewers, Clients, Slots, HlsCap, MaxHlsFaults, NoEntry,                     \* hls
    KeyViewers, KeyOf, DefaultViewer, Players, ShardOf, MaxGeneration, Nobody,     \* keys
    StatIds, MaxMedia, NoBytes,                                                    \* stats
    Conns, PartConns, Kind, Source, Members, Size,                                 \* ports, peers
    MaxPreauth, MaxPerIp, MaxMember, MaxInflight, MaxBytes

VARIABLES
    part,
    viewer, present, entry, slotOf, rtmp, looking, hlsFaults,
    rows, used, generation, snapshot, session, asking, unwritten, forceClose, creating, deleting,
    effects, revoked, expired, seen,
    media, holding, bytes, base, armed, statRow, queued, copy, leaving, prior, acquired, writing,
    own, behind,
    server, client, answer, sent, effect, preauth, reserve, perIp, inflight, portBytes

Hls == INSTANCE HlsSessions
Keys == INSTANCE ViewerKeys WITH Viewers <- KeyViewers
Stats == INSTANCE SessionStats
           WITH row <- statRow, current <- holding, Ids <- StatIds, MaxBytes <- MaxMedia
Ports == INSTANCE ControlPlane WITH bytes <- portBytes, wire <- sent

\* What the theorems ask of the constants.  A session id is never 0, which
\* stands for no session; the ids are given out in increasing order.
ASSUME HlsAssumption ==
    /\ IsFiniteSet(HlsViewers) /\ IsFiniteSet(Clients) /\ IsFiniteSet(Slots) /\ Slots \subseteq Nat
    /\ HlsCap \in Nat /\ MaxHlsFaults \in Nat
    /\ NoEntry \notin HlsViewers /\ NoEntry \notin [slot : Slots, stale : BOOLEAN]
ASSUME KeysAssumption ==
    /\ DefaultViewer \in KeyViewers /\ Nobody \notin KeyViewers /\ MaxGeneration \in Nat
ASSUME StatsAssumption ==
    /\ StatIds \subseteq Nat \ {0} /\ MaxMedia \in Nat /\ NoBytes \notin Nat
ASSUME PortsAssumption ==
    /\ IsFiniteSet(Conns) /\ PartConns \in [{"ports", "peers"} -> SUBSET Conns]
    /\ Size \in [Conns -> Nat] /\ MaxBytes \in Nat /\ MaxInflight \in Nat

hlsPart == <<viewer, present, entry, slotOf, rtmp, looking, hlsFaults>>
keysPart == <<rows, used, generation, snapshot, session, asking, unwritten, forceClose, creating,
              deleting, effects, revoked, expired, seen>>
statsPart == <<media, holding, bytes, base, armed, statRow, queued, copy, leaving, prior, acquired,
               writing, own, behind>>
portsPart == <<server, client, answer, sent, effect, preauth, reserve, perIp, inflight, portBytes>>
TablesVars == <<vars, part, hlsPart, keysPart, statsPart, portsPart>>

TablesInit ==
    /\ part \in {"log", "hls", "keys", "stats", "ports", "peers"}
    /\ Init /\ Hls!Init /\ Keys!Init /\ Stats!Init /\ Ports!Init

LogStep == part = "log" /\ Next /\ UNCHANGED <<hlsPart, keysPart, statsPart, portsPart>>
HlsStep == part = "hls" /\ Hls!Next /\ UNCHANGED <<vars, keysPart, statsPart, portsPart>>
KeysStep == part = "keys" /\ Keys!Next /\ UNCHANGED <<vars, hlsPart, statsPart, portsPart>>
StatsStep == part = "stats" /\ Stats!Next /\ UNCHANGED <<vars, hlsPart, keysPart, portsPart>>
PortsStep ==
    /\ part \in {"ports", "peers"}
    /\ \E c \in PartConns[part] : Ports!Step(c)
    /\ UNCHANGED <<vars, hlsPart, keysPart, statsPart>>

TablesNext ==
    /\ UNCHANGED part
    /\ LogStep \/ HlsStep \/ KeysStep \/ StatsStep \/ PortsStep

TablesSpec == TablesInit /\ [][TablesNext]_TablesVars

(***************************************************************************)
(* No slot of a play key is lost to an HLS client that stopped asking: its *)
(* active row is always found by a later purge, whatever releases failed,  *)
(* and a client that is served holds one (HlsSessionRegistry).             *)
(***************************************************************************)
HlsSlotsFound == Hls!TypeOK /\ Hls!SlotsFound /\ Hls!ServedHasSlot

(***************************************************************************)
(* A viewer whose key has been deleted is not still playing once the       *)
(* deletion's markers are gone, and no two viewers share a key, although   *)
(* admission reads a snapshot of the keys (try_fast_authorize_play,        *)
(* handle_stream_player_delete, prune_markers).                            *)
(***************************************************************************)
RevocationHolds == Keys!NoRevokedViewer /\ Keys!KeysDistinct

(***************************************************************************)
(* Each session is charged with its own bytes only, and a report that a    *)
(* failed flush took with it is not forgotten.  The table may fall behind, *)
(* until the next report, by the three events ReportKept names            *)
(* (update_player_stats, player_update, flush_pending_stats,               *)
(* requeue_pending_stats).                                                 *)
(***************************************************************************)
TrafficCharged == Stats!OwnBytes /\ Stats!ReportKept

(***************************************************************************)
(* No way a connection can end leaks a slot or a reserved byte, and a      *)
(* caller that was told its write was not sent may repeat it: it never     *)
(* takes effect (network.rs, security.rs).                                 *)
(***************************************************************************)
ControlHolds == Ports!SlotsExact /\ Ports!AnswersTrue

-----------------------------------------------------------------------------
(* The values for TLC.                                                     *)
MCKeyOf == [d |-> "x", v |-> "y", w |-> "y"]
MCShardOf == [a |-> 1, b |-> 2]
MCPartConns == [ports |-> {"w", "x", "n"}, peers |-> {"d", "e", "f"}]
MCKind == [w |-> "raft", x |-> "write", n |-> "snapshot", d |-> "media", e |-> "media", f |-> "media"]
MCSource == [w |-> "A", x |-> "X", n |-> "X", d |-> "A", e |-> "X", f |-> "X"]
MCSize == [w |-> 1, x |-> 1, n |-> 1, d |-> 0, e |-> 0, f |-> 0]
MCMaxPreauth == [control |-> 1, media |-> 2]
=============================================================================
