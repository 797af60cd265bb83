---------------------------- MODULE StreamDeletes ----------------------------
(***************************************************************************)
(* DELETE and POST of one stream id in a cluster (http.rs, state.rs,       *)
(* manager.rs): a delete is two replicated commands with the drain of the  *)
(* RTMP sessions between them, every write may fail before it is sent or   *)
(* with an unknown outcome, each node applies the log in its own time, and *)
(* the id may be used again while a delete of the old row still runs.      *)
(*                                                                         *)
(* An entry of `log` is the row after it and the effect its apply emits.   *)
(* A node's tables are the row at the index it has applied; the effects it *)
(* has not yet processed are those after `handled`.  The delete token      *)
(* stands for the row's identity (created_at and token).  An RTMP client   *)
(* of each node plays the stream in the three steps of authorize_play.     *)
(***************************************************************************)
EXTENDS Integers, Sequences

CONSTANTS
    Nodes,            \* nodes of the cluster
    Requests,         \* HTTP requests an operator makes
    Entry,            \* the nodes they are sent to
    Viewed,           \* the nodes with an RTMP client
    FinalizeAttempts, \* FINALIZE_ATTEMPTS
    Shards,           \* RTMP shards of a node
    MaxLog,           \* bound: entries of the log
    MaxFaults         \* bound: writes that fail, HTTP clients that hang up, restarts

ASSUME DeletesAssumption ==
    /\ Nodes # {} /\ Entry \subseteq Nodes /\ Viewed \subseteq Nodes
    /\ FinalizeAttempts \in Nat \ {0} /\ Shards \in Nat \ {0}
    /\ MaxLog \in Nat /\ MaxFaults \in Nat

VARIABLES
    log,      \* the replicated log
    late,     \* commands whose caller gave up and that may still commit
    applied,  \* index each node has applied
    handled,  \* index up to which a node's effects are processed
    sticky,   \* sticky_deleted_streams
    deleted,  \* deleted_streams
    owed,     \* pending_drain_clears
    taking,   \* who has looked for sessions, found none and will take the marker
    client,   \* the RTMP client of each node
    req,      \* the HTTP requests
    made,     \* rows created, the token of the next one
    asked,    \* history: tokens of the rows a DELETE was accepted for
    faults    \* failed writes, hang-ups and restarts so far

marks == <<sticky, deleted, owed, taking>>
vars == <<log, late, applied, handled, marks, client, req, made, asked, faults>>

-----------------------------------------------------------------------------
(***************************************************************************)
(* The commands and what their apply answers.                              *)
(***************************************************************************)
NoRow == [token |-> 0, enabled |-> FALSE, pending |-> FALSE]
NewRow(token) == [token |-> token, enabled |-> TRUE, pending |-> FALSE]

Row == log[Len(log)].row
View(n) == log[applied[n]].row

Answer(row, c) ==
    IF c.op = "create" THEN IF row = NoRow THEN "ok" ELSE "duplicate"
    ELSE IF row = NoRow THEN "notfound"
    ELSE IF \/ c.op = "begin" /\ row.token # c.token
            \/ c.op = "finalize" /\ ~row.pending
         THEN "conflict" ELSE "ok"

Applied(row, c) ==
    IF Answer(row, c) # "ok" THEN row
    ELSE CASE c.op = "create" -> NewRow(c.token)
           [] c.op = "begin" -> [row EXCEPT !.enabled = FALSE, !.pending = TRUE]
           [] c.op = "finalize" -> NoRow
           [] c.op = "enable" -> [row EXCEPT !.enabled = TRUE, !.pending = FALSE]
           [] c.op = "disable" -> [row EXCEPT !.enabled = FALSE, !.pending = FALSE]

Effect(row, c) ==
    CASE Answer(row, c) = "ok" /\ c.op = "begin" -> "drain"
      [] Answer(row, c) = "ok" /\ c.op = "finalize" -> "clear"
      [] OTHER -> "none"

Commit(c) ==
    /\ Len(log) < MaxLog
    /\ log' = Append(log, [row |-> Applied(Row, c), effect |-> Effect(Row, c)])

-----------------------------------------------------------------------------
(***************************************************************************)
(* The HTTP handlers.  A request is at the step it takes next; the steps   *)
(* named in Writing are calls of the coordinator that wait for a write.    *)
(***************************************************************************)
Idle == [at |-> "idle", node |-> CHOOSE n \in Nodes : TRUE, token |-> 0, tries |-> 0]
Ended(q) == [q EXCEPT !.at = "ended"]
On(n) == {r \in Requests : req[r].node = n}
Active(n) == {r \in On(n) : req[r].at \notin {"idle", "dropped", "ended"}}
Dropped(n) == {r \in On(n) : req[r].at = "dropped"}

Writing == {"begin", "finalize", "rollback", "rebegin", "final", "keep", "disable", "create"}

Command(q) ==
    [op |-> CASE q.at \in {"begin", "rebegin", "keep"} -> "begin"
              [] q.at \in {"finalize", "final"} -> "finalize"
              [] q.at = "rollback" -> "enable"
              [] OTHER -> q.at,
     token |-> q.token]

Retries(q) == q.tries < FinalizeAttempts

\* Where a request goes with the answer of its write; `seen` is whether the
\* node's own tables still have a row of the id.
Goes(q, answer, seen) ==
    CASE q.at = "begin" ->
           CASE answer = "ok" -> "announce"
             [] answer = "unclear" -> "drain"
             [] OTHER -> "ended"
      [] q.at = "finalize" -> IF answer \in {"unsent", "unclear"} /\ seen THEN "rollback" ELSE "ended"
      [] q.at = "rebegin" -> IF answer = "conflict" THEN "ended" ELSE "final"
      [] q.at = "final" ->
           IF answer \in {"ok", "notfound"} THEN "ended" ELSE IF Retries(q) THEN "again" ELSE "keep"
      [] q.at = "keep" -> IF answer \in {"unsent", "unclear"} THEN "check" ELSE "ended"
      [] OTHER -> "ended"

\* clear_http_delete_marker, mark_http_delete_sticky
SetMarker(n, on) ==
    /\ sticky' = [sticky EXCEPT ![n] = on]
    /\ deleted' = [deleted EXCEPT ![n] = on]
    /\ UNCHANGED <<owed, taking>>

\* Mutant: only a delete that went through takes its marker away.
uncovers_on_success(at, answer) == at = "ended" /\ answer \in {"ok", "notfound"}

\* The request takes its marker away.
Uncovers(at, answer) == at = "ended" \/ (at = "keep" /\ answer = "conflict")

Settle(r, answer) ==
    LET q == req[r]
        at == Goes(q, answer, View(q.node) # NoRow)
    IN  /\ req' = [req EXCEPT ![r] =
                      [q EXCEPT !.at = at, !.tries = IF at = "again" THEN @ + 1 ELSE @]]
        /\ IF q.at # "create" /\ (at = "again" \/ Uncovers(at, answer))
           THEN SetMarker(q.node, at = "again") ELSE UNCHANGED marks

\* The write is committed and the caller gets the answer of its apply.
WriteAnswered(r) ==
    /\ req[r].at \in Writing
    /\ Commit(Command(req[r]))
    /\ Settle(r, Answer(Row, Command(req[r])))
    /\ UNCHANGED <<late, applied, handled, client, made, asked, faults>>

\* It fails before it is sent: nothing will commit.  Only the first begin of
\* a delete tells this from an unknown outcome.
WriteUnsent(r) ==
    /\ req[r].at = "begin" /\ faults < MaxFaults
    /\ faults' = faults + 1
    /\ Settle(r, "unsent")
    /\ UNCHANGED <<log, late, applied, handled, client, made, asked>>

\* It was sent, and no answer came: it may commit later, or never.
WriteUnclear(r) ==
    /\ req[r].at \in Writing /\ faults < MaxFaults
    /\ faults' = faults + 1
    /\ late' = late \cup {Command(req[r])}
    /\ Settle(r, "unclear")
    /\ UNCHANGED <<log, applied, handled, client, made, asked>>

LateCommits(c) ==
    /\ Commit(c)
    /\ late' = late \ {c}
    /\ UNCHANGED <<applied, handled, marks, client, req, made, asked, faults>>

\* handle_stream_create: 409 while the node deletes the stream.
CreateArrives(r, n) ==
    /\ req[r].at = "idle" /\ ~sticky[n]
    /\ req' = [req EXCEPT ![r] = [@ EXCEPT !.at = "create", !.node = n, !.token = made + 1]]
    /\ made' = made + 1
    /\ UNCHANGED <<log, late, applied, handled, marks, client, asked, faults>>

\* handle_stream_delete: the check of the marker and the read of the row.
DeleteArrives(r, n) ==
    /\ req[r].at = "idle" /\ ~sticky[n] /\ View(n) # NoRow
    /\ req' = [req EXCEPT ![r] = [at |-> "mark", node |-> n, token |-> View(n).token, tries |-> 1]]
    /\ UNCHANGED <<log, late, applied, handled, marks, client, made, asked, faults>>

\* ... 202 while another request of the node deletes it, 404 without a row.
DeleteAnswered(r, n) ==
    /\ req[r].at = "idle" /\ (sticky[n] \/ View(n) = NoRow)
    /\ req' = [req EXCEPT ![r] = Ended(@)]
    /\ UNCHANGED <<log, late, applied, handled, marks, client, made, asked, faults>>

MarkDelete(r) ==
    /\ req[r].at = "mark"
    /\ req' = [req EXCEPT ![r].at = "begin"]
    /\ asked' = asked \cup {req[r].token}
    /\ SetMarker(req[r].node, TRUE)
    /\ UNCHANGED <<log, late, applied, handled, client, made, faults>>

\* A peer takes the hint only when its own tables say so.
stream_allows_network_drain(n) == View(n) = NoRow \/ View(n).pending

\* broadcast_drain_stream reaches some of the peers.
Announce(r, reached) ==
    /\ req[r].at = "announce"
    /\ reached \subseteq Nodes \ {req[r].node}
    /\ req' = [req EXCEPT ![r].at = "count"]
    /\ deleted' = [n \in Nodes |->
           deleted[n] \/ n = req[r].node \/ (n \in reached /\ stream_allows_network_drain(n))]
    /\ UNCHANGED <<log, late, applied, handled, sticky, owed, taking, client, made, asked, faults>>

\* The HTTP client closes its connection while the handler waits for the peers:
\* the handler's future is dropped, and nobody takes its marker away.
HangUp(r) ==
    /\ req[r].at \in {"announce", "count"} /\ faults < MaxFaults
    /\ faults' = faults + 1
    /\ req' = [req EXCEPT ![r].at = "dropped"]
    /\ UNCHANGED <<log, late, applied, handled, marks, client, made, asked>>

Live(n) == client[n].at = "live"

\* Sessions of the node and of the peers it reaches; a peer whose report is
\* stale counts as zero.
NoSessions(n, reached) == ~Live(n) /\ \A p \in reached : ~Live(p)

\* With no session left the handler finalizes itself; else it answers 202.
Count(r, reached) ==
    /\ req[r].at = "count"
    /\ req[r].node \in reached
    /\ req' = [req EXCEPT ![r].at = IF NoSessions(req[r].node, reached) THEN "finalize" ELSE "drain"]
    /\ UNCHANGED <<log, late, applied, handled, marks, client, made, asked, faults>>

\* wait_and_finalize_stream_delete: the sessions are gone ...
Drained(r, reached) ==
    /\ req[r].at = "drain"
    /\ req[r].node \in reached /\ NoSessions(req[r].node, reached)
    /\ req' = [req EXCEPT ![r].at = "again"]
    /\ UNCHANGED <<log, late, applied, handled, marks, client, made, asked, faults>>

Away == [at |-> "away", token |-> 0, row |-> "kept", missed |-> FALSE]

\* ... or DELETE_DRAIN_TIMEOUT is over and the roles are abandoned.
DrainTimesOut(r) ==
    /\ req[r].at = "drain"
    /\ req' = [req EXCEPT ![r].at = "again"]
    /\ client' = [client EXCEPT ![req[r].node] = IF @.at = "live" THEN Away ELSE @]
    /\ UNCHANGED <<log, late, applied, handled, marks, made, asked, faults>>

\* The loop: a row that is gone or replaced ends it.
Reconcile(r) ==
    LET q == req[r]
        mine == View(q.node).token = q.token
    IN  /\ q.at = "again"
        /\ req' = [req EXCEPT ![r].at = IF mine THEN "rebegin" ELSE "ended"]
        /\ IF mine THEN UNCHANGED marks ELSE SetMarker(q.node, FALSE)
        /\ UNCHANGED <<log, late, applied, handled, client, made, asked, faults>>

\* keep_stream_disabled_after_failed_delete, after its begin failed.
CheckDisabled(r) ==
    LET q == req[r]
        disables == View(q.node).token = q.token /\ ~View(q.node).pending
    IN  /\ q.at = "check"
        /\ req' = [req EXCEPT ![r].at = IF disables THEN "disable" ELSE "ended"]
        /\ IF disables THEN UNCHANGED marks ELSE SetMarker(q.node, FALSE)
        /\ UNCHANGED <<log, late, applied, handled, client, made, asked, faults>>

-----------------------------------------------------------------------------
(***************************************************************************)
(* A node applies the log and processes the effects.                       *)
(***************************************************************************)
Apply(n) ==
    /\ applied[n] < Len(log)
    /\ applied' = [applied EXCEPT ![n] = @ + 1]
    /\ UNCHANGED <<log, late, handled, marks, client, req, made, asked, faults>>

\* The steps that take the marker away once they found no session.
Takers == {"clear", "retry", "prune"}

\* Mutant: the marker goes although a session of the stream is left.
clear_at_once(n) ==
    /\ deleted' = [deleted EXCEPT ![n] = @ /\ ~Live(n)]
    /\ taking' = [taking EXCEPT ![n] = IF Live(n) THEN @ ELSE @ \cup {"clear"}]
    /\ UNCHANGED owed

\* The marker stays while the node finds a session of the stream; else it goes.
mark_stream_drain_clear(n) ==
    /\ IF Live(n)
       THEN owed' = [owed EXCEPT ![n] = TRUE] /\ UNCHANGED taking
       ELSE taking' = [taking EXCEPT ![n] = @ \cup {"clear"}] /\ UNCHANGED owed
    /\ UNCHANGED deleted

\* History: what a play, admitted or under admission, has seen of its row's delete.
RowSeen(n, k) ==
    CASE client[n].at = "away" -> "kept"
      [] client[n].at # "away" /\ log[k].effect = "drain" /\ log[k].row.token = client[n].token -> "draining"
      [] /\ client[n].at # "away" /\ log[k].effect = "clear" /\ log[k - 1].row.token = client[n].token
         /\ client[n].row = "draining" -> "gone"
      [] OTHER -> client[n].row

process_state_effects(n) ==
    /\ handled[n] < applied[n] /\ "clear" \notin taking[n]
    /\ handled' = [handled EXCEPT ![n] = @ + 1]
    /\ CASE log[handled'[n]].effect = "drain" ->
              deleted' = [deleted EXCEPT ![n] = TRUE] /\ UNCHANGED <<owed, taking>>
         [] log[handled'[n]].effect = "clear" -> mark_stream_drain_clear(n)
         [] OTHER -> UNCHANGED <<deleted, owed, taking>>
    /\ client' = [client EXCEPT ![n].row = RowSeen(n, handled'[n])]
    /\ UNCHANGED <<log, late, applied, sticky, req, made, asked, faults>>

retry_pending_drain_clears(n) ==
    /\ owed[n] /\ ~Live(n) /\ "retry" \notin taking[n]
    /\ taking' = [taking EXCEPT ![n] = @ \cup {"retry"}]
    /\ UNCHANGED <<log, late, applied, handled, sticky, deleted, owed, client, req, made, asked, faults>>

\* prune_markers_if_due of a poll loop: it looks at the sessions of its own
\* shard, so those of another shard do not hold it.
PruneLooks(n) ==
    /\ ~sticky[n] /\ (Live(n) => Shards > 1) /\ "prune" \notin taking[n]
    /\ taking' = [taking EXCEPT ![n] = @ \cup {"prune"}]
    /\ UNCHANGED <<log, late, applied, handled, sticky, deleted, owed, client, req, made, asked, faults>>

\* Whoever has looked takes the marker, under the lock of deleted_streams.
\* History: a play that the look did not see has missed the marker.
TakeMarker(n, by) ==
    /\ by \in taking[n]
    /\ taking' = [taking EXCEPT ![n] = @ \ {by}]
    /\ deleted' = [deleted EXCEPT ![n] = FALSE]
    /\ owed' = [owed EXCEPT ![n] = @ /\ by # "retry"]
    /\ client' = [client EXCEPT ![n].missed = @ \/ (deleted[n] /\ client[n].at # "away")]
    /\ UNCHANGED <<log, late, applied, handled, sticky, req, made, asked, faults>>

-----------------------------------------------------------------------------
(***************************************************************************)
(* The RTMP client of a node.                                              *)
(***************************************************************************)
\* authorize_play: the key is looked up and the markers are read, ...
PlayLookup(n) ==
    /\ n \in Viewed
    /\ client[n].at = "away" /\ View(n).enabled /\ ~deleted[n]
    /\ client' = [client EXCEPT ![n] = [Away EXCEPT !.at = "found", !.token = View(n).token]]
    /\ UNCHANGED <<log, late, applied, handled, marks, req, made, asked, faults>>

\* ... the players row is inserted, which its foreign keys may refuse, ...
PlayAcquires(n) ==
    /\ client[n].at = "found"
    /\ client' = [client EXCEPT ![n] =
                     IF View(n).token = @.token THEN [@ EXCEPT !.at = "acquired"] ELSE Away]
    /\ UNCHANGED <<log, late, applied, handled, marks, req, made, asked, faults>>

\* ... and the session is installed in the conns map.
PlayStarts(n) ==
    /\ client[n].at = "acquired"
    /\ client' = [client EXCEPT ![n] = [@ EXCEPT !.at = "live"]]
    /\ UNCHANGED <<log, late, applied, handled, marks, req, made, asked, faults>>

PlayEnds(n) ==
    /\ Live(n)
    /\ client' = [client EXCEPT ![n] = Away]
    /\ UNCHANGED <<log, late, applied, handled, marks, req, made, asked, faults>>

\* drain_deleted_stream_roles of the poll loop
Kick(n) ==
    /\ Live(n) /\ deleted[n]
    /\ client' = [client EXCEPT ![n] = Away]
    /\ UNCHANGED <<log, late, applied, handled, marks, req, made, asked, faults>>

-----------------------------------------------------------------------------
(***************************************************************************)
(* A restart loses the markers, the effects not yet processed and the      *)
(* node's requests.  A pending row of its tables is then finalized.        *)
(***************************************************************************)
Restart(n) ==
    /\ faults < MaxFaults
    /\ faults' = faults + 1
    /\ handled' = [handled EXCEPT ![n] = applied[n]]
    /\ sticky' = [sticky EXCEPT ![n] = FALSE]
    /\ deleted' = [deleted EXCEPT ![n] = FALSE]
    /\ owed' = [owed EXCEPT ![n] = FALSE]
    /\ taking' = [taking EXCEPT ![n] = {}]
    /\ client' = [client EXCEPT ![n] = Away]
    /\ req' = [r \in Requests |->
          IF r \in Active(n) \cup Dropped(n) THEN Ended(req[r]) ELSE req[r]]
    /\ late' = IF View(n).pending THEN late \cup {[op |-> "finalize", token |-> 0]} ELSE late
    /\ UNCHANGED <<log, applied, made, asked>>

Init ==
    /\ log = <<[row |-> NewRow(1), effect |-> "none"]>>
    /\ late = {}
    /\ applied = [n \in Nodes |-> 1]
    /\ handled = [n \in Nodes |-> 1]
    /\ sticky = [n \in Nodes |-> FALSE]
    /\ deleted = [n \in Nodes |-> FALSE]
    /\ owed = [n \in Nodes |-> FALSE]
    /\ taking = [n \in Nodes |-> {}]
    /\ client = [n \in Nodes |-> Away]
    /\ req = [r \in Requests |-> Idle]
    /\ made = 1
    /\ asked = {}
    /\ faults = 0

Next ==
    \/ \E r \in Requests :
          \/ WriteAnswered(r) \/ WriteUnsent(r) \/ WriteUnclear(r)
          \/ MarkDelete(r) \/ HangUp(r) \/ DrainTimesOut(r) \/ Reconcile(r) \/ CheckDisabled(r)
          \/ \E n \in Entry : CreateArrives(r, n) \/ DeleteArrives(r, n) \/ DeleteAnswered(r, n)
          \/ \E reached \in SUBSET Nodes : Announce(r, reached) \/ Count(r, reached) \/ Drained(r, reached)
    \/ \E c \in late : LateCommits(c)
    \/ \E n \in Nodes :
          \/ Apply(n) \/ process_state_effects(n) \/ retry_pending_drain_clears(n)
          \/ PruneLooks(n) \/ (\E by \in Takers : TakeMarker(n, by))
          \/ PlayLookup(n) \/ PlayAcquires(n) \/ PlayStarts(n) \/ PlayEnds(n) \/ Kick(n)
          \/ Restart(n)

Spec == Init /\ [][Next]_vars

-----------------------------------------------------------------------------
(***************************************************************************)
(* Properties.                                                             *)
(***************************************************************************)
Steps == {"idle", "mark", "announce", "count", "drain", "again", "check", "dropped", "ended"} \cup Writing

Rows == [token : Nat, enabled : BOOLEAN, pending : BOOLEAN]
Commands == [op : {"create", "begin", "finalize", "enable", "disable"}, token : Nat]

Entries == [row : Rows, effect : {"none", "drain", "clear"}]
Clients == [at : {"away", "found", "acquired", "live"}, token : Nat, 
            row : {"kept", "draining", "gone"}, missed : BOOLEAN]
Handlers == [at : Steps, node : Nodes, token : Nat, tries : 0..FinalizeAttempts]

(* Every variable has its type, and no node is ahead of the log. *)
TypeOK ==
    /\ log \in Seq(Entries)
    /\ late \subseteq Commands
    /\ applied \in [Nodes -> Nat] /\ handled \in [Nodes -> Nat]
    /\ \A n \in Nodes : 1 <= handled[n] /\ handled[n] <= applied[n] /\ applied[n] <= Len(log)
    /\ sticky \in [Nodes -> BOOLEAN] /\ deleted \in [Nodes -> BOOLEAN] /\ owed \in [Nodes -> BOOLEAN]
    /\ taking \in [Nodes -> SUBSET Takers]
    /\ client \in [Nodes -> Clients] /\ req \in [Requests -> Handlers]
    /\ made \in Nat /\ asked \subseteq Nat /\ faults \in Nat

(* A row is marked for removal only when a DELETE was accepted for that    *)
(* very row, and only a marked row is removed: the begin and the finalize  *)
(* of an earlier delete of the same id, repeated or committed late, never  *)
(* take its replacement.  (The plain enable and disable of a failed delete *)
(* carry no token and may change a replacement.)                           *)
OnlyAsked ==
    /\ \A k \in 1..Len(log) : log[k].row.pending => log[k].row.token \in asked
    /\ \A k \in 2..Len(log) : log[k].effect = "clear" => log[k - 1].row.token \in asked

(* sticky_deleted_streams blocks DELETE and POST of the id on a node, so   *)
(* every path of every request has to take the marker away: it is only set *)
(* while a request of that node is under way, or after one whose client    *)
(* hung up while the handler waited for the peers; then it stays until the *)
(* process restarts.                                                       *)
MarkerHasOwner == \A n \in Nodes : sticky[n] => Active(n) \cup Dropped(n) # {}

(* A play that a follower has seen lose its row, while it was live or still *)
(* under admission, is kicked by the marker unless somebody took the marker *)
(* without seeing the play: a look before it was installed, or the prune of *)
(* another shard.  A look that sees it keeps the marker, also when the      *)
(* begin and the end of the delete are processed back to back.              *)
FollowerKicks == \A n \in Nodes \ Entry :
    Live(n) /\ client[n].row = "gone" => deleted[n] \/ client[n].missed

(* A DELETE has only the row removed that it was accepted for, and its     *)
(* marker stays on its node only when its client hung up (http.rs          *)
(* handle_stream_delete, wait_and_finalize_stream_delete).                 *)
DeletesContained == OnlyAsked /\ MarkerHasOwner
=============================================================================
