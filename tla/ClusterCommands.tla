--------------------------- MODULE ClusterCommands ---------------------------
(***************************************************************************)
(* The replicated tables of a cluster node and what each ClusterCommand    *)
(* does to them: apply_command and apply (raft/state_machine.rs) and the   *)
(* statements of db.rs they run.                                           *)
(*                                                                         *)
(* The keys of a stream are generated with it, so a stream id and the      *)
(* random delete token of its row stand for the whole row.  The play key   *)
(* of the default viewer is the stream's own; other viewers have keys of   *)
(* their own, so a viewer id stands for its key as well.                   *)
(***************************************************************************)
EXTENDS Integers

CONSTANTS
    Ids,              \* stream ids; an id may be used again after a delete
    Tokens, NoToken,  \* delete tokens, and "no identity given"
    Viewers, Default, \* extra viewers, and the viewer created with a stream
    NodeIds, NoNode,  \* node ids, those of nodes no longer in the cluster included
    ApiTokens, NoApi  \* API tokens

ASSUME TableAssumption ==
    NoToken \notin Tokens /\ Default \notin Viewers /\ NoNode \notin NodeIds /\ NoApi \notin ApiTokens

NoRow == [token |-> NoToken, enabled |-> FALSE, pending |-> FALSE]
NoOwner == [node |-> NoNode, epoch |-> 0]

EmptyTables ==
    [stream |-> [id \in Ids |-> NoRow],
     viewers |-> {},
     owner |-> [id \in Ids |-> NoOwner],
     api |-> NoApi]

StreamRows == [token : Tokens, enabled : BOOLEAN, pending : BOOLEAN]
Tables ==
    [stream : [Ids -> StreamRows \cup {NoRow}],
     viewers : SUBSET (Ids \X (Viewers \cup {Default})),
     owner : [Ids -> [node : NodeIds, epoch : Nat] \cup {NoOwner}],
     api : ApiTokens \cup {NoApi}]

-----------------------------------------------------------------------------
(***************************************************************************)
(* The statements of db.rs.  Each is the whole transaction; a refused one  *)
(* leaves the tables as they are.                                          *)
(***************************************************************************)
Exists(t, id) == t.stream[id] # NoRow

stream_add_with_viewer(t, id, token) ==
    IF Exists(t, id) THEN t
    ELSE [t EXCEPT !.stream[id] = [token |-> token, enabled |-> TRUE, pending |-> FALSE],
                   !.viewers = @ \cup {<<id, Default>>}]

\* Mutant: the identity captured with the delete is not compared.
disable_any(t, id, token) ==
    IF ~Exists(t, id) THEN t
    ELSE [t EXCEPT !.stream[id].enabled = FALSE, !.stream[id].pending = TRUE]

\* A begin-delete only marks the row it was accepted for.
stream_disable_expecting(t, id, token) ==
    IF ~Exists(t, id) \/ token \notin {NoToken, t.stream[id].token} THEN t
    ELSE [t EXCEPT !.stream[id].enabled = FALSE, !.stream[id].pending = TRUE]

\* ON DELETE CASCADE takes the viewers and the owner along.
stream_delete_if_pending(t, id) ==
    IF ~t.stream[id].pending THEN t
    ELSE [t EXCEPT !.stream[id] = NoRow,
                   !.viewers = {v \in @ : v[1] # id},
                   !.owner[id] = NoOwner]

stream_set_enabled(t, id, on) ==
    IF ~Exists(t, id) THEN t
    ELSE [t EXCEPT !.stream[id].enabled = on, !.stream[id].pending = FALSE]

viewer_add(t, id, v) ==
    IF \/ \E i \in Ids : <<i, v>> \in t.viewers
       \/ ~Exists(t, id) \/ t.stream[id].pending
    THEN t
    ELSE [t EXCEPT !.viewers = @ \cup {<<id, v>>}]

ViewersOf(t, id) == {v \in t.viewers : v[1] = id}

\* Mutant: the apply trusts the check the HTTP handler made earlier.
delete_viewer_unfenced(t, id, v) == [t EXCEPT !.viewers = @ \ {<<id, v>>}]

\* DeleteViewer: never the last viewer, never the stream's own play key.
delete_viewer(t, id, v) ==
    IF \/ ViewersOf(t, id) = {<<id, v>>}
       \/ Exists(t, id) /\ v = Default
    THEN t
    ELSE [t EXCEPT !.viewers = @ \ {<<id, v>>}]

\* Mutant: the epoch counts the grants of the row instead of the log.
acquire_counting(t, id, node, epoch) ==
    IF \/ ~t.stream[id].enabled \/ t.stream[id].pending
       \/ t.owner[id].node \notin {NoNode, node}
    THEN t
    ELSE [t EXCEPT !.owner[id] = [node |-> node, epoch |-> @.epoch + 1]]

\* An owner may renew; another node has to wait for the release.
stream_owner_acquire(t, id, node, epoch) ==
    IF \/ ~t.stream[id].enabled \/ t.stream[id].pending
       \/ t.owner[id].node \notin {NoNode, node}
    THEN t
    ELSE [t EXCEPT !.owner[id] = [node |-> node, epoch |-> epoch]]

stream_owner_release(t, id, epoch) ==
    IF t.owner[id] = NoOwner \/ t.owner[id].epoch # epoch THEN t
    ELSE [t EXCEPT !.owner[id] = NoOwner]

stream_owners_release_for_node(t, node, max) ==
    [t EXCEPT !.owner = [id \in Ids |->
        IF t.owner[id].node = node /\ t.owner[id].epoch <= max THEN NoOwner ELSE t.owner[id]]]

token_replace(t, token) == [t EXCEPT !.api = token]

-----------------------------------------------------------------------------
(***************************************************************************)
(* The entries of the Raft log.  Blank and membership entries do not touch *)
(* the tables.                                                             *)
(***************************************************************************)
Commands ==
         [op : {"create"}, id : Ids, token : Tokens]
    \cup [op : {"begin"}, id : Ids, token : Tokens \cup {NoToken}]
    \cup [op : {"finalize"}, id : Ids]
    \cup [op : {"enable"}, id : Ids, on : BOOLEAN]
    \cup [op : {"add_viewer"}, id : Ids, viewer : Viewers]
    \cup [op : {"delete_viewer"}, id : Ids, viewer : Viewers \cup {Default}]
    \cup [op : {"api"}, api : ApiTokens]
    \cup [op : {"acquire"}, id : Ids, node : NodeIds]
    \cup [op : {"release"}, id : Ids, epoch : Nat]
    \cup [op : {"release_node"}, node : NodeIds, max : Nat]
    \cup [op : {"blank"}]
    \cup [op : {"members"}, members : SUBSET NodeIds]

\* The entry c at log index k; an acquire takes the index as its epoch.
apply_command(t, c, k) ==
    CASE c.op = "create" -> stream_add_with_viewer(t, c.id, c.token)
      [] c.op = "begin" -> stream_disable_expecting(t, c.id, c.token)
      [] c.op = "finalize" -> stream_delete_if_pending(t, c.id)
      [] c.op = "enable" -> stream_set_enabled(t, c.id, c.on)
      [] c.op = "add_viewer" -> viewer_add(t, c.id, c.viewer)
      [] c.op = "delete_viewer" -> delete_viewer(t, c.id, c.viewer)
      [] c.op = "api" -> token_replace(t, c.api)
      [] c.op = "acquire" -> stream_owner_acquire(t, c.id, c.node, k)
      [] c.op = "release" -> stream_owner_release(t, c.id, c.epoch)
      [] c.op = "release_node" -> stream_owners_release_for_node(t, c.node, c.max)
      [] OTHER -> t
=============================================================================
