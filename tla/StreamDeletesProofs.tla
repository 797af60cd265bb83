------------------------- MODULE StreamDeletesProofs -------------------------
(***************************************************************************)
(* Deletes in a cluster, for any number of nodes, requests, log entries,   *)
(* failed writes and restarts, with HTTP requests at any set of nodes.     *)
(***************************************************************************)
EXTENDS StreamDeletes, SequenceTheorems, TLAPS

-----------------------------------------------------------------------------
(* The inductive invariant, in named parts.                                *)

\* The steps of a DELETE that has set its marker.
Marked == Steps \ {"idle", "mark", "create", "ended"}

Answers == {"ok", "duplicate", "notfound", "conflict", "unsent", "unclear"}

LogTyped ==
    /\ log \in Seq(Entries)
    /\ \A n \in Nodes : applied[n] <= Len(log)

\* A DELETE past MarkDelete was accepted for its row, and so was every begin
\* that may still commit.
RequestsAsked == \A r \in Requests : req[r].at \in Marked => req[r].token \in asked

LateAsked == \A c \in late : c.op = "begin" => c.token \in asked

\* A marker belongs to a DELETE that is past MarkDelete.
MarkerOwned == \A n \in Nodes : sticky[n] => \E r \in Requests : req[r].at \in Marked /\ req[r].node = n

\* Requests run on the nodes that take them.
AtEntry == \A r \in Requests : req[r].at \notin {"idle", "ended"} => req[r].node \in Entry

\* A play that has seen the delete begin is there, and on a node without
\* requests the marker that kicks it is set or was taken by someone who did not
\* see it.
SeenMarked(n) == deleted[n] \/ client[n].missed
SeenLive ==
    \A n \in Nodes :
       client[n].row # "kept" => client[n].at # "away" /\ (n \notin Entry => SeenMarked(n))

DeleteInv == TypeOK /\ RequestsAsked /\ LateAsked /\ OnlyAsked /\ MarkerOwned /\ AtEntry /\ SeenLive

-----------------------------------------------------------------------------
\* The log starts with the row that exists at the beginning.
LEMMA LogNotEmpty == ASSUME TypeOK PROVE Len(log) \in Nat /\ Len(log) >= 1
<1>1. PICK n \in Nodes : TRUE
  BY DeletesAssumption
<1>2. handled[n] \in Nat /\ applied[n] \in Nat /\ Len(log) \in Nat
  BY DEF TypeOK
<1>3. 1 <= handled[n] /\ handled[n] <= applied[n] /\ applied[n] <= Len(log)
  BY DEF TypeOK
<1> QED
  BY <1>2, <1>3

\* The rows a command reads are rows of the log.
LEMMA RowTyped == ASSUME TypeOK PROVE Row \in Rows /\ \A n \in Nodes : View(n) \in Rows
<1>1. Len(log) \in 1..Len(log)
  BY LogNotEmpty
<1>2. \A n \in Nodes : applied[n] \in 1..Len(log)
  <2> SUFFICES ASSUME NEW n \in Nodes PROVE applied[n] \in 1..Len(log)
    OBVIOUS
  <2>1. handled[n] \in Nat /\ applied[n] \in Nat /\ Len(log) \in Nat
    BY DEF TypeOK
  <2>2. 1 <= handled[n] /\ handled[n] <= applied[n] /\ applied[n] <= Len(log)
    BY DEF TypeOK
  <2> QED
    BY <2>1, <2>2
<1>3. \A k \in 1..Len(log) : log[k].row \in Rows
  <2> SUFFICES ASSUME NEW k \in 1..Len(log) PROVE log[k].row \in Rows
    OBVIOUS
  <2>1. log \in Seq(Entries)
    BY DEF TypeOK
  <2>2. log[k] \in Entries
    BY <2>1, ElementOfSeq
  <2> QED
    BY <2>2 DEF Entries
<1> QED
  BY <1>1, <1>2, <1>3 DEF Row, View

\* A committed command is answered, whatever it meets.
LEMMA AnswerTyped ==
    ASSUME NEW row, NEW c PROVE Answer(row, c) \in Answers \ {"unsent", "unclear"}
  BY DEF Answer, Answers

\* Applying a command gives a row; only a begin with the row's own token makes
\* one pending.
LEMMA AppliedTyped ==
    ASSUME NEW row \in Rows, NEW c \in Commands
    PROVE  /\ Applied(row, c) \in Rows
           /\ Applied(row, c).pending =>
                 \/ row.pending /\ Applied(row, c).token = row.token
                 \/ c.op = "begin" /\ Applied(row, c).token = c.token
<1> USE DEF Rows, Commands
<1>1. CASE Answer(row, c) # "ok"
  <2>1. Applied(row, c) = row
    BY <1>1, Zenon DEF Applied
  <2> QED
    BY <2>1
<1>2. CASE Answer(row, c) = "ok" /\ c.op = "create"
  BY <1>2 DEF Applied, NewRow
<1>3. CASE Answer(row, c) = "ok" /\ c.op = "begin"
  <2>1. row.token = c.token
    BY <1>3 DEF Answer
  <2> QED
    BY <1>3, <2>1 DEF Applied
<1>4. CASE Answer(row, c) = "ok" /\ c.op = "finalize"
  BY <1>4 DEF Applied, NoRow
<1>5. CASE Answer(row, c) = "ok" /\ c.op = "enable"
  BY <1>5 DEF Applied
<1>6. CASE Answer(row, c) = "ok" /\ c.op = "disable"
  BY <1>6 DEF Applied
<1> QED
  BY <1>1, <1>2, <1>3, <1>4, <1>5, <1>6

\* The command of a request carries its token; a begin is sent by a DELETE that
\* has set its marker.
LEMMA CommandTyped ==
    ASSUME TypeOK, NEW r \in Requests, req[r].at \in Writing
    PROVE  /\ Command(req[r]) \in Commands
           /\ Command(req[r]).token = req[r].token
           /\ Command(req[r]).op = "begin" => req[r].at \in Marked
<1> USE DEF TypeOK, Handlers, Writing, Steps, Marked, Commands
<1>1. req[r].token \in Nat
  OBVIOUS
<1>2. CASE req[r].at \in {"begin", "rebegin", "keep"}
  BY <1>1, <1>2 DEF Command
<1>3. CASE req[r].at \in {"finalize", "final"}
  BY <1>1, <1>3 DEF Command
<1>4. CASE req[r].at = "rollback"
  BY <1>1, <1>4 DEF Command
<1>5. CASE req[r].at \in {"create", "disable"}
  BY <1>1, <1>5 DEF Command
<1> QED
  BY <1>2, <1>3, <1>4, <1>5

\* A committed command appends one typed entry; a pending row is one that was
\* pending before or that a begin has marked.
LEMMA CommitKeeps ==
    ASSUME TypeOK, OnlyAsked, NEW c \in Commands, Commit(c),
           c.op = "begin" => c.token \in asked
    PROVE  /\ log' \in Seq(Entries)
           /\ Len(log') = Len(log) + 1
           /\ \A k \in 1..Len(log') : log'[k].row.pending => log'[k].row.token \in asked
           /\ \A k \in 2..Len(log') : log'[k].effect = "clear" => log'[k - 1].row.token \in asked
<1> DEFINE e == [row |-> Applied(Row, c), effect |-> Effect(Row, c)]
<1>1. Applied(Row, c) \in Rows
  BY AppliedTyped, RowTyped
<1>2. Effect(Row, c) \in {"none", "drain", "clear"}
  BY DEF Effect
<1>3. e \in Entries
  BY <1>1, <1>2 DEF Entries
<1>4. log' = Append(log, e)
  BY DEF Commit
<1>5. e.row.pending => e.row.token \in asked
  <2>1. Row.pending => Row.token \in asked
    BY LogNotEmpty DEF OnlyAsked, Row
  <2> QED
    BY <2>1, AppliedTyped, RowTyped
<1>9. e.effect = "clear" => Row.token \in asked
  <2>1. Row.pending => Row.token \in asked
    BY LogNotEmpty DEF OnlyAsked, Row
  <2>2. e.effect = "clear" => Row.pending
    BY DEF Effect, Answer
  <2> QED
    BY <2>1, <2>2
<1> HIDE DEF e
<1>6. log \in Seq(Entries)
  BY DEF TypeOK
<1>7. log' \in Seq(Entries) /\ Len(log') = Len(log) + 1
  BY <1>3, <1>4, <1>6
<1>8. ASSUME NEW k \in 1..Len(log'), log'[k].row.pending PROVE log'[k].row.token \in asked
  <2>1. CASE k \in 1..Len(log)
    <3>1. log'[k] = log[k]
      BY <1>4, <1>6, <2>1
    <3> QED
      BY <1>8, <2>1, <3>1 DEF OnlyAsked
  <2>2. CASE k = Len(log) + 1
    <3>1. log'[k] = e
      BY <1>4, <1>6, <2>2
    <3> QED
      BY <1>5, <1>8, <3>1
  <2> QED
    BY <1>7, <1>6, <2>1, <2>2
<1>10. ASSUME NEW k \in 2..Len(log'), log'[k].effect = "clear" PROVE log'[k - 1].row.token \in asked
  <2>0. Len(log) \in Nat /\ Len(log) >= 1
    BY LogNotEmpty
  <2>1. CASE k \in 2..Len(log)
    <3>1. log'[k] = log[k] /\ log'[k - 1] = log[k - 1]
      BY <1>4, <1>6, <2>0, <2>1
    <3> QED
      BY <1>10, <2>1, <3>1 DEF OnlyAsked
  <2>2. CASE k = Len(log) + 1
    <3>1. log'[k] = e /\ log'[k - 1] = log[Len(log)]
      BY <1>4, <1>6, <2>0, <2>2
    <3> QED
      BY <1>9, <1>10, <3>1 DEF Row
  <2> QED
    BY <1>7, <2>0, <2>1, <2>2
<1> QED
  BY <1>7, <1>8, <1>10

\* Where a request can go from a write: a create ends, the loop is bounded.
LEMMA GoesTyped ==
    ASSUME NEW q, q.at \in Writing, NEW answer \in Answers, NEW seen \in BOOLEAN
    PROVE  /\ Goes(q, answer, seen) \in {"announce", "drain", "ended", "rollback", "final", "again", "keep", "check"}
           /\ q.at = "create" => Goes(q, answer, seen) = "ended"
           /\ Goes(q, answer, seen) = "again" => Retries(q)
<1> USE DEF Answers, Writing
<1>1. CASE q.at = "begin"
  BY <1>1 DEF Goes
<1>2. CASE q.at = "finalize"
  BY <1>2 DEF Goes
<1>3. CASE q.at = "rebegin"
  BY <1>3 DEF Goes
<1>4. CASE q.at = "final"
  BY <1>4 DEF Goes
<1>5. CASE q.at = "keep"
  BY <1>5 DEF Goes
<1>6. CASE q.at \in {"rollback", "disable", "create"}
  BY <1>6 DEF Goes
<1> QED
  BY <1>1, <1>2, <1>3, <1>4, <1>5, <1>6

\* What a request does with the answer of its write: it goes on or ends, only
\* the marker of its own node changes, and a DELETE that ends removes it.
LEMMA SettleKeeps ==
    ASSUME TypeOK, NEW r \in Requests, req[r].at \in Writing, NEW answer \in Answers, Settle(r, answer)
    PROVE  /\ req' \in [Requests -> Handlers]
           /\ \A i \in Requests \ {r} : req'[i] = req[i]
           /\ req'[r].node = req[r].node /\ req'[r].token = req[r].token
           /\ req'[r].at \in Marked \cup {"ended"}
           /\ req[r].at = "create" => req'[r].at = "ended" /\ UNCHANGED <<sticky, deleted>>
           /\ req[r].at # "create" /\ req'[r].at = "ended" => ~sticky'[req[r].node]
           /\ sticky' \in [Nodes -> BOOLEAN] /\ deleted' \in [Nodes -> BOOLEAN] /\ owed' = owed /\ taking' = taking
           /\ \A n \in Nodes \ {req[r].node} : sticky'[n] = sticky[n] /\ deleted'[n] = deleted[n]
<1> DEFINE q == req[r]
           seen == View(q.node) # NoRow
           at == Goes(q, answer, seen)
<1>1. q \in Handlers
  BY DEF TypeOK
<1>2. /\ at \in {"announce", "drain", "ended", "rollback", "final", "again", "keep", "check"}
      /\ q.at = "create" => at = "ended"
      /\ at = "again" => Retries(q)
  BY GoesTyped
<1>3. /\ req' = [req EXCEPT ![r] = [q EXCEPT !.at = at, !.tries = IF at = "again" THEN @ + 1 ELSE @]]
      /\ IF q.at # "create" /\ (at = "again" \/ Uncovers(at, answer))
         THEN SetMarker(q.node, at = "again") ELSE UNCHANGED marks
  BY DEF Settle
<1> HIDE DEF at
<1>4. at \in Marked \cup {"ended"} /\ at \in Steps
  BY <1>2 DEF Marked, Steps, Writing
<1>5. (IF at = "again" THEN q.tries + 1 ELSE q.tries) \in 0..FinalizeAttempts
  BY <1>1, <1>2, DeletesAssumption DEF Retries, Handlers
<1>6. req'[r] = [q EXCEPT !.at = at, !.tries = IF at = "again" THEN @ + 1 ELSE @]
  BY <1>3 DEF TypeOK
<1>7. req'[r].at = at /\ req'[r].node = q.node /\ req'[r].token = q.token
  BY <1>1, <1>6 DEF Handlers
<1>8. req'[r] \in Handlers
  BY <1>1, <1>4, <1>5, <1>6 DEF Handlers
<1>9. \A i \in Requests \ {r} : req'[i] = req[i]
  BY <1>3 DEF TypeOK
<1>10. req' \in [Requests -> Handlers]
  BY <1>3, <1>8, <1>9 DEF TypeOK
<1> HIDE DEF q
<1>11. q.node \in Nodes
  BY <1>1 DEF Handlers
<1>12. CASE q.at # "create" /\ (at = "again" \/ Uncovers(at, answer))
  <2>1. SetMarker(q.node, at = "again")
    BY <1>3, <1>12
  <2>2. sticky' = [sticky EXCEPT ![q.node] = (at = "again")] /\ deleted' = [deleted EXCEPT ![q.node] = (at = "again")]
         /\ owed' = owed /\ taking' = taking
    BY <2>1 DEF SetMarker
  <2>3. sticky' \in [Nodes -> BOOLEAN] /\ deleted' \in [Nodes -> BOOLEAN]
    BY <2>2, Zenon DEF TypeOK
  <2>4. at = "ended" => ~sticky'[q.node]
    BY <1>11, <2>2 DEF TypeOK
  <2>5. \A n \in Nodes \ {q.node} : sticky'[n] = sticky[n] /\ deleted'[n] = deleted[n]
    BY <2>2 DEF TypeOK
  <2> QED
    BY <1>2, <1>4, <1>7, <1>9, <1>10, <1>12, <2>2, <2>3, <2>4, <2>5 DEF q
<1>13. CASE ~(q.at # "create" /\ (at = "again" \/ Uncovers(at, answer)))
  <2>1. sticky' = sticky /\ deleted' = deleted /\ owed' = owed /\ taking' = taking
    BY <1>3, <1>13 DEF marks
  <2>2. q.at # "create" => at # "ended"
    BY <1>13 DEF Uncovers
  <2> QED
    BY <1>2, <1>4, <1>7, <1>9, <1>10, <2>1, <2>2 DEF q, TypeOK
<1> QED
  BY <1>12, <1>13

\* A write that is answered, fails or stays unclear.
Write(r) == WriteAnswered(r) \/ WriteUnsent(r) \/ WriteUnclear(r)

\* Each outcome of a write settles the request and touches nothing else of the
\* nodes.
LEMMA WriteKeeps ==
    ASSUME TypeOK, NEW r \in Requests, Write(r)
    PROVE  /\ req[r].at \in Writing
           /\ \E answer \in Answers : Settle(r, answer)
           /\ UNCHANGED <<applied, handled, client, made, asked>>
<1>1. CASE WriteAnswered(r)
  <2>1. Answer(Row, Command(req[r])) \in Answers
    BY AnswerTyped
  <2> QED
    BY <1>1, <2>1 DEF WriteAnswered
<1>2. CASE WriteUnsent(r)
  <2>1. "unsent" \in Answers /\ "begin" \in Writing
    BY DEF Answers, Writing
  <2> QED
    BY <1>2, <2>1 DEF WriteUnsent
<1>3. CASE WriteUnclear(r)
  <2>1. "unclear" \in Answers
    BY DEF Answers
  <2> QED
    BY <1>3, <2>1 DEF WriteUnclear
<1> QED
  BY <1>1, <1>2, <1>3 DEF Write

\* A request that only moves to another step keeps its type, ...
LEMMA MoveTyped ==
    ASSUME TypeOK, NEW r \in Requests, NEW a \in Steps, req' = [req EXCEPT ![r].at = a]
    PROVE  req' \in [Requests -> Handlers]
  BY DEF TypeOK, Handlers

\* ... and so does a client.
LEMMA ClientTyped ==
    ASSUME TypeOK, NEW n \in Nodes, NEW x \in Clients, client' = [client EXCEPT ![n] = x]
    PROVE  client' \in [Nodes -> Clients]
  BY DEF TypeOK

\* A committed command appends one typed entry.
LEMMA CommitTyped ==
    ASSUME TypeOK, NEW c \in Commands, Commit(c), applied' = applied
    PROVE  LogTyped'
<1> DEFINE e == [row |-> Applied(Row, c), effect |-> Effect(Row, c)]
<1>1. e \in Entries
  BY AppliedTyped, RowTyped DEF Effect, Entries
<1>2. log' = Append(log, e) /\ log \in Seq(Entries)
  BY DEF Commit, TypeOK
<1> HIDE DEF e
<1>3. log' \in Seq(Entries) /\ Len(log') = Len(log) + 1
  BY <1>1, <1>2
<1>4. ASSUME NEW n \in Nodes PROVE applied[n] <= Len(log')
  <2>1. applied[n] \in Nat /\ Len(log) \in Nat /\ applied[n] <= Len(log)
    BY DEF TypeOK
  <2> QED
    BY <1>3, <2>1
<1> QED
  BY <1>3, <1>4 DEF LogTyped

\* Every action keeps the types.
LEMMA TypeStep == TypeOK /\ [Next]_vars => TypeOK'
<1> SUFFICES ASSUME TypeOK, [Next]_vars PROVE TypeOK'
  OBVIOUS
<1>1. ASSUME NEW r \in Requests, Write(r) PROVE TypeOK'
  <2>1. PICK answer \in Answers : Settle(r, answer)
    BY <1>1, WriteKeeps
  <2>2. req[r].at \in Writing /\ UNCHANGED <<applied, handled, client, made, asked>>
    BY <1>1, WriteKeeps
  <2>3. req' \in [Requests -> Handlers]
        /\ sticky' \in [Nodes -> BOOLEAN] /\ deleted' \in [Nodes -> BOOLEAN] /\ owed' = owed /\ taking' = taking
    BY <2>1, <2>2, SettleKeeps
  <2>4. LogTyped'
    <3>1. CASE WriteAnswered(r)
      <4>1. Commit(Command(req[r])) /\ Command(req[r]) \in Commands
        BY <2>2, <3>1, CommandTyped DEF WriteAnswered
      <4> QED
        BY <2>2, <4>1, CommitTyped
    <3>2. CASE ~WriteAnswered(r)
      BY <1>1, <2>2, <3>2 DEF Write, WriteUnsent, WriteUnclear, LogTyped, TypeOK
    <3> QED
      BY <3>1, <3>2
  <2>5. late' \subseteq Commands
    BY <1>1, <2>2, CommandTyped DEF Write, WriteAnswered, WriteUnsent, WriteUnclear, TypeOK
  <2>6. faults' \in Nat
    BY <1>1 DEF Write, WriteAnswered, WriteUnsent, WriteUnclear, TypeOK
  <2> QED
    BY <2>2, <2>3, <2>4, <2>5, <2>6 DEF LogTyped, TypeOK
<1>2. ASSUME NEW r \in Requests, MarkDelete(r) PROVE TypeOK'
  <2>1. "begin" \in Steps
    BY DEF Steps, Writing
  <2>2. req' \in [Requests -> Handlers]
    BY <1>2, <2>1, MoveTyped DEF MarkDelete
  <2> QED
    BY <1>2, <2>2 DEF MarkDelete, SetMarker, TypeOK, Handlers, marks
<1>3. ASSUME NEW r \in Requests, DrainTimesOut(r) PROVE TypeOK'
  <2>1. "again" \in Steps
    BY DEF Steps, Writing
  <2>2. req' \in [Requests -> Handlers]
    BY <1>3, <2>1, MoveTyped DEF DrainTimesOut
  <2>3. client' \in [Nodes -> Clients]
    BY <1>3 DEF DrainTimesOut, Away, Clients, TypeOK, Handlers
  <2> QED
    BY <1>3, <2>2, <2>3 DEF DrainTimesOut, TypeOK, Handlers, marks
<1>4. ASSUME NEW r \in Requests, Reconcile(r) PROVE TypeOK'
  <2>1. "rebegin" \in Steps /\ "ended" \in Steps
    BY DEF Steps, Writing
  <2>2. req' \in [Requests -> Handlers]
    BY <1>4, <2>1, MoveTyped DEF Reconcile
  <2> QED
    BY <1>4, <2>2 DEF Reconcile, SetMarker, TypeOK, Handlers, marks
<1>5. ASSUME NEW r \in Requests, CheckDisabled(r) PROVE TypeOK'
  <2>1. "disable" \in Steps /\ "ended" \in Steps
    BY DEF Steps, Writing
  <2>2. req' \in [Requests -> Handlers]
    BY <1>5, <2>1, MoveTyped DEF CheckDisabled
  <2> QED
    BY <1>5, <2>2 DEF CheckDisabled, SetMarker, TypeOK, Handlers, marks
<1>6. ASSUME NEW r \in Requests, NEW n \in Entry, CreateArrives(r, n) PROVE TypeOK'
  <2>1. made' \in Nat /\ req' \in [Requests -> Handlers]
    <3>1. "create" \in Steps /\ n \in Nodes
      BY DeletesAssumption DEF Steps, Writing
    <3>2. [req[r] EXCEPT !.at = "create", !.node = n, !.token = made + 1] \in Handlers
      <4>1. req[r] \in Handlers /\ made + 1 \in Nat
        BY DEF TypeOK
      <4> QED
        BY <3>1, <4>1 DEF Handlers
    <3> QED
      BY <1>6, <3>2 DEF CreateArrives, TypeOK
  <2> QED
    BY <1>6, <2>1 DEF CreateArrives, TypeOK, marks
<1>7. ASSUME NEW r \in Requests, NEW n \in Entry, DeleteArrives(r, n) PROVE TypeOK'
  <2>1. View(n).token \in Nat
    BY RowTyped, DeletesAssumption DEF Rows
  <2>2. req' \in [Requests -> Handlers]
    BY <1>7, <2>1, DeletesAssumption DEF DeleteArrives, TypeOK, Handlers, Steps, Writing
  <2> QED
    BY <1>7, <2>2 DEF DeleteArrives, TypeOK, marks
<1>8. ASSUME NEW r \in Requests, NEW n \in Entry, DeleteAnswered(r, n) PROVE TypeOK'
  <2>1. "ended" \in Steps
    BY DEF Steps, Writing
  <2>2. req' \in [Requests -> Handlers]
    BY <1>8, <2>1, MoveTyped DEF DeleteAnswered, Ended, TypeOK, Handlers
  <2> QED
    BY <1>8, <2>2 DEF DeleteAnswered, TypeOK, Handlers, marks
<1>9. ASSUME NEW r \in Requests, NEW p \in SUBSET Nodes, Announce(r, p) PROVE TypeOK'
  <2>1. "count" \in Steps
    BY DEF Steps, Writing
  <2>2. req' \in [Requests -> Handlers]
    BY <1>9, <2>1, MoveTyped DEF Announce
  <2> QED
    BY <1>9, <2>2 DEF Announce, TypeOK, Handlers, marks
<1>10. ASSUME NEW r \in Requests, NEW p \in SUBSET Nodes, Count(r, p) PROVE TypeOK'
  <2>1. "finalize" \in Steps /\ "drain" \in Steps
    BY DEF Steps, Writing
  <2>2. req' \in [Requests -> Handlers]
    BY <1>10, <2>1, MoveTyped DEF Count
  <2> QED
    BY <1>10, <2>2 DEF Count, TypeOK, Handlers, marks
<1>11. ASSUME NEW r \in Requests, NEW p \in SUBSET Nodes, Drained(r, p) PROVE TypeOK'
  <2>1. "again" \in Steps
    BY DEF Steps, Writing
  <2>2. req' \in [Requests -> Handlers]
    BY <1>11, <2>1, MoveTyped DEF Drained
  <2> QED
    BY <1>11, <2>2 DEF Drained, TypeOK, Handlers, marks
<1>12. ASSUME NEW c \in late, LateCommits(c) PROVE TypeOK'
  <2>1. c \in Commands /\ Commit(c) /\ UNCHANGED <<applied, handled, marks, client, req, made, asked, faults>>
    BY <1>12 DEF LateCommits, TypeOK
  <2>2. LogTyped'
    BY <2>1, CommitTyped
  <2>3. late' \subseteq Commands
    BY <1>12 DEF LateCommits, TypeOK
  <2> QED
    BY <2>1, <2>2, <2>3 DEF LogTyped, TypeOK, marks
<1>13. ASSUME NEW n \in Nodes, Apply(n) PROVE TypeOK'
  <2>1. applied' \in [Nodes -> Nat] /\ \A i \in Nodes : applied'[i] <= Len(log) /\ applied[i] <= applied'[i]
    BY <1>13 DEF Apply, TypeOK
  <2>2. ASSUME NEW i \in Nodes PROVE handled[i] <= applied'[i]
    <3>1. handled[i] \in Nat /\ applied[i] \in Nat /\ applied'[i] \in Nat
      BY <2>1 DEF TypeOK
    <3>2. handled[i] <= applied[i] /\ applied[i] <= applied'[i]
      BY <2>1 DEF TypeOK
    <3> QED
      BY <3>1, <3>2
  <2>3. UNCHANGED <<log, late, handled, marks, client, req, made, asked, faults>>
    BY <1>13 DEF Apply
  <2> QED
    BY <2>1, <2>2, <2>3 DEF TypeOK, marks
<1>14. ASSUME NEW n \in Nodes, process_state_effects(n) PROVE TypeOK'
  <2>1. handled' \in [Nodes -> Nat] /\ \A i \in Nodes : 1 <= handled'[i] /\ handled'[i] <= applied[i]
    BY <1>14 DEF process_state_effects, TypeOK
  <2>2. deleted' \in [Nodes -> BOOLEAN] /\ owed' \in [Nodes -> BOOLEAN]
    BY <1>14, Zenon DEF process_state_effects, mark_stream_drain_clear, TypeOK
  <2>3. RowSeen(n, handled'[n]) \in {"kept", "draining", "gone"}
    BY DEF RowSeen, TypeOK, Clients
  <2>4. client' \in [Nodes -> Clients]
    <3>1. [client[n] EXCEPT !.row = RowSeen(n, handled'[n])] \in Clients
      BY <2>3 DEF TypeOK, Clients
    <3>2. client' = [client EXCEPT ![n] = [client[n] EXCEPT !.row = RowSeen(n, handled'[n])]]
      BY <1>14 DEF process_state_effects
    <3> QED
      BY <3>1, <3>2, ClientTyped
  <2>5. UNCHANGED <<log, late, applied, sticky, req, made, asked, faults>>
    BY <1>14 DEF process_state_effects
  <2>6. taking' \in [Nodes -> SUBSET Takers]
    BY <1>14 DEF process_state_effects, mark_stream_drain_clear, TypeOK, Takers
  <2> QED
    BY <2>1, <2>2, <2>4, <2>5, <2>6 DEF TypeOK
<1>15. ASSUME NEW n \in Nodes, retry_pending_drain_clears(n) PROVE TypeOK'
  <2>1. taking' \in [Nodes -> SUBSET Takers]
    BY <1>15 DEF retry_pending_drain_clears, TypeOK, Takers
  <2> QED
    BY <1>15, <2>1 DEF retry_pending_drain_clears, TypeOK, Clients, marks
<1>16. ASSUME NEW n \in Nodes, PruneLooks(n) PROVE TypeOK'
  <2>1. taking' \in [Nodes -> SUBSET Takers]
    BY <1>16 DEF PruneLooks, TypeOK, Takers
  <2> QED
    BY <1>16, <2>1 DEF PruneLooks, TypeOK, Clients, marks
<1>17. ASSUME NEW n \in Nodes, PlayLookup(n) PROVE TypeOK'
  <2>1. View(n).token \in Nat
    BY RowTyped DEF Rows
  <2> QED
    BY <1>17, <2>1 DEF PlayLookup, Away, Clients, TypeOK, marks
<1>18. ASSUME NEW n \in Nodes, PlayAcquires(n) PROVE TypeOK'
  <2>1. Away \in Clients /\ [client[n] EXCEPT !.at = "acquired"] \in Clients
    BY DEF TypeOK, Clients, Away
  <2>2. client' \in [Nodes -> Clients]
    BY <1>18, <2>1, ClientTyped DEF PlayAcquires
  <2> QED
    BY <1>18, <2>2 DEF PlayAcquires, TypeOK, marks
<1>19. ASSUME NEW n \in Nodes, PlayStarts(n) PROVE TypeOK'
  <2>1. [client[n] EXCEPT !.at = "live"] \in Clients
    BY DEF TypeOK, Clients
  <2>2. client' \in [Nodes -> Clients]
    BY <1>19, <2>1, ClientTyped DEF PlayStarts
  <2> QED
    BY <1>19, <2>2 DEF PlayStarts, TypeOK, marks
<1>20. ASSUME NEW n \in Nodes, PlayEnds(n) PROVE TypeOK'
  BY <1>20 DEF PlayEnds, Away, TypeOK, Clients, marks
<1>21. ASSUME NEW n \in Nodes, Kick(n) PROVE TypeOK'
  BY <1>21 DEF Kick, Away, TypeOK, Clients, marks
<1>22. ASSUME NEW n \in Nodes, Restart(n) PROVE TypeOK'
  <2>1. handled' \in [Nodes -> Nat] /\ \A i \in Nodes : 1 <= handled'[i] /\ handled'[i] <= applied[i]
    <3>1. ASSUME NEW i \in Nodes PROVE handled'[i] \in Nat /\ 1 <= handled'[i] /\ handled'[i] <= applied[i]
      <4>1. handled[i] \in Nat /\ applied[i] \in Nat /\ 1 <= handled[i] /\ handled[i] <= applied[i]
        BY DEF TypeOK
      <4>2. handled'[i] = IF i = n THEN applied[i] ELSE handled[i]
        BY <1>22 DEF Restart, TypeOK
      <4> QED
        BY <4>1, <4>2
    <3>2. handled' = [handled EXCEPT ![n] = applied[n]]
      BY <1>22 DEF Restart
    <3> QED
      BY <3>1, <3>2 DEF TypeOK
  <2>2. /\ sticky' \in [Nodes -> BOOLEAN] /\ deleted' \in [Nodes -> BOOLEAN]
        /\ owed' \in [Nodes -> BOOLEAN] /\ taking' \in [Nodes -> SUBSET Takers]
    BY <1>22 DEF Restart, TypeOK
  <2>3. client' \in [Nodes -> Clients]
    BY <1>22 DEF Restart, Away, Clients, TypeOK
  <2>4. req' \in [Requests -> Handlers]
    BY <1>22 DEF Restart, Ended, Active, Dropped, On, Handlers, TypeOK, Steps
  <2>5. late' \subseteq Commands /\ faults' \in Nat
    BY <1>22 DEF Restart, Commands, TypeOK
  <2>6. UNCHANGED <<log, applied, made, asked>>
    BY <1>22 DEF Restart
  <2> QED
    BY <2>1, <2>2, <2>3, <2>4, <2>5, <2>6 DEF TypeOK
<1>24. ASSUME NEW r \in Requests, HangUp(r) PROVE TypeOK'
  <2>1. "dropped" \in Steps
    BY DEF Steps, Writing
  <2>2. req' \in [Requests -> Handlers]
    BY <1>24, <2>1, MoveTyped DEF HangUp
  <2> QED
    BY <1>24, <2>2 DEF HangUp, TypeOK, marks
<1>25. ASSUME NEW n \in Nodes, NEW by \in Takers, TakeMarker(n, by) PROVE TypeOK'
  <2>1. deleted' \in [Nodes -> BOOLEAN] /\ owed' \in [Nodes -> BOOLEAN]
    BY <1>25, Zenon DEF TakeMarker, TypeOK
  <2>2. taking' \in [Nodes -> SUBSET Takers]
    BY <1>25 DEF TakeMarker, TypeOK
  <2>3. client' \in [Nodes -> Clients]
    <3> DEFINE m == client[n].missed \/ (deleted[n] /\ client[n].at # "away")
    <3>1. [client[n] EXCEPT !.missed = m] \in Clients
      BY DEF TypeOK, Clients
    <3>2. client' = [client EXCEPT ![n] = [client[n] EXCEPT !.missed = m]]
      BY <1>25 DEF TakeMarker
    <3> HIDE DEF m
    <3> QED
      BY <3>1, <3>2, ClientTyped
  <2> QED
    BY <1>25, <2>1, <2>2, <2>3 DEF TakeMarker, TypeOK
<1>23. CASE UNCHANGED vars
  BY <1>23 DEF vars, marks, TypeOK
<1> QED
  BY <1>1, <1>2, <1>3, <1>4, <1>5, <1>6, <1>7, <1>8, <1>9, <1>10, <1>11, <1>12, <1>13, <1>14,
     <1>15, <1>16, <1>17, <1>18, <1>19, <1>20, <1>21, <1>22, <1>23, <1>24, <1>25 DEF Next, Write

\* A DELETE past its marker is accepted.
LEMMA AskedStep == TypeOK /\ RequestsAsked /\ [Next]_vars => RequestsAsked'
<1> SUFFICES ASSUME TypeOK, RequestsAsked, [Next]_vars PROVE RequestsAsked'
  OBVIOUS
<1> USE DEF TypeOK, Handlers, Clients, RequestsAsked, Marked, Steps, Writing, Active
<1>1. ASSUME NEW r \in Requests, Write(r) PROVE RequestsAsked'
  <2>1. PICK answer \in Answers : Settle(r, answer)
    BY <1>1, WriteKeeps
  <2>2. req[r].at \in Writing /\ UNCHANGED <<applied, handled, client, made, asked>>
    BY <1>1, WriteKeeps
  <2>3. /\ \A i \in Requests \ {r} : req'[i] = req[i]
        /\ req'[r].token = req[r].token /\ req'[r].at \in Marked \cup {"ended"}
        /\ req[r].at = "create" => req'[r].at = "ended"
    BY <2>1, <2>2, SettleKeeps
  <2> QED
    BY <2>2, <2>3
<1>2. ASSUME NEW r \in Requests, MarkDelete(r) PROVE RequestsAsked'
  BY <1>2 DEF MarkDelete, SetMarker
<1>3. ASSUME NEW r \in Requests, DrainTimesOut(r) PROVE RequestsAsked'
  BY <1>3 DEF DrainTimesOut, Away
<1>4. ASSUME NEW r \in Requests, Reconcile(r) PROVE RequestsAsked'
  BY <1>4 DEF Reconcile, SetMarker, marks
<1>5. ASSUME NEW r \in Requests, CheckDisabled(r) PROVE RequestsAsked'
  BY <1>5 DEF CheckDisabled, SetMarker, marks
<1>6. ASSUME NEW r \in Requests, NEW n \in Entry, CreateArrives(r, n) PROVE RequestsAsked'
  BY <1>6 DEF CreateArrives
<1>7. ASSUME NEW r \in Requests, NEW n \in Entry, DeleteArrives(r, n) PROVE RequestsAsked'
  BY <1>7 DEF DeleteArrives
<1>8. ASSUME NEW r \in Requests, NEW n \in Entry, DeleteAnswered(r, n) PROVE RequestsAsked'
  BY <1>8 DEF DeleteAnswered, Ended
<1>9. ASSUME NEW r \in Requests, NEW p \in SUBSET Nodes, Announce(r, p) PROVE RequestsAsked'
  BY <1>9 DEF Announce
<1>10. ASSUME NEW r \in Requests, NEW p \in SUBSET Nodes, Count(r, p) PROVE RequestsAsked'
  BY <1>10 DEF Count
<1>11. ASSUME NEW r \in Requests, NEW p \in SUBSET Nodes, Drained(r, p) PROVE RequestsAsked'
  BY <1>11 DEF Drained
<1>12. ASSUME NEW c \in late, LateCommits(c) PROVE RequestsAsked'
  BY <1>12 DEF LateCommits
<1>13. ASSUME NEW n \in Nodes, Apply(n) PROVE RequestsAsked'
  BY <1>13 DEF Apply
<1>14. ASSUME NEW n \in Nodes, process_state_effects(n) PROVE RequestsAsked'
  BY <1>14 DEF process_state_effects, mark_stream_drain_clear
<1>15. ASSUME NEW n \in Nodes, retry_pending_drain_clears(n) PROVE RequestsAsked'
  BY <1>15 DEF retry_pending_drain_clears
<1>16. ASSUME NEW n \in Nodes, PruneLooks(n) PROVE RequestsAsked'
  BY <1>16 DEF PruneLooks
<1>17. ASSUME NEW n \in Nodes, PlayLookup(n) PROVE RequestsAsked'
  BY <1>17 DEF PlayLookup, Away
<1>18. ASSUME NEW n \in Nodes, PlayAcquires(n) PROVE RequestsAsked'
  BY <1>18 DEF PlayAcquires, Away
<1>19. ASSUME NEW n \in Nodes, PlayStarts(n) PROVE RequestsAsked'
  BY <1>19 DEF PlayStarts
<1>20. ASSUME NEW n \in Nodes, PlayEnds(n) PROVE RequestsAsked'
  BY <1>20 DEF PlayEnds, Away
<1>21. ASSUME NEW n \in Nodes, Kick(n) PROVE RequestsAsked'
  BY <1>21 DEF Kick, Away
<1>22. ASSUME NEW n \in Nodes, Restart(n) PROVE RequestsAsked'
  BY <1>22 DEF Restart, Dropped, On, Ended, Away
<1>24. ASSUME NEW r \in Requests, HangUp(r) PROVE RequestsAsked'
  BY <1>24 DEF HangUp, marks
<1>25. ASSUME NEW n \in Nodes, NEW by \in Takers, TakeMarker(n, by) PROVE RequestsAsked'
  BY <1>25 DEF TakeMarker, marks
<1>23. CASE UNCHANGED vars
  BY <1>23 DEF vars, marks
<1> QED
  BY <1>1, <1>2, <1>3, <1>4, <1>5, <1>6, <1>7, <1>8, <1>9, <1>10, <1>11, <1>12, <1>13, <1>14,
     <1>15, <1>16, <1>17, <1>18, <1>19, <1>20, <1>21, <1>22, <1>23, <1>24, <1>25 DEF Next, Write

\* Requests stay on the nodes that take them.
LEMMA EntryStep == TypeOK /\ AtEntry /\ [Next]_vars => AtEntry'
<1> SUFFICES ASSUME TypeOK, AtEntry, [Next]_vars PROVE AtEntry'
  OBVIOUS
<1> USE DEF TypeOK, Handlers, Clients, AtEntry, Steps, Writing, Active
<1>1. ASSUME NEW r \in Requests, Write(r) PROVE AtEntry'
  <2>1. PICK answer \in Answers : Settle(r, answer)
    BY <1>1, WriteKeeps
  <2>2. req[r].at \in Writing /\ UNCHANGED <<applied, handled, client, made, asked>>
    BY <1>1, WriteKeeps
  <2>3. /\ \A i \in Requests \ {r} : req'[i] = req[i]
        /\ req'[r].node = req[r].node
    BY <2>1, <2>2, SettleKeeps
  <2> QED
    BY <2>2, <2>3
<1>2. ASSUME NEW r \in Requests, MarkDelete(r) PROVE AtEntry'
  BY <1>2 DEF MarkDelete, SetMarker
<1>3. ASSUME NEW r \in Requests, DrainTimesOut(r) PROVE AtEntry'
  BY <1>3 DEF DrainTimesOut, Away
<1>4. ASSUME NEW r \in Requests, Reconcile(r) PROVE AtEntry'
  BY <1>4 DEF Reconcile, SetMarker, marks
<1>5. ASSUME NEW r \in Requests, CheckDisabled(r) PROVE AtEntry'
  BY <1>5 DEF CheckDisabled, SetMarker, marks
<1>6. ASSUME NEW r \in Requests, NEW n \in Entry, CreateArrives(r, n) PROVE AtEntry'
  BY <1>6 DEF CreateArrives
<1>7. ASSUME NEW r \in Requests, NEW n \in Entry, DeleteArrives(r, n) PROVE AtEntry'
  BY <1>7 DEF DeleteArrives
<1>8. ASSUME NEW r \in Requests, NEW n \in Entry, DeleteAnswered(r, n) PROVE AtEntry'
  BY <1>8 DEF DeleteAnswered, Ended
<1>9. ASSUME NEW r \in Requests, NEW p \in SUBSET Nodes, Announce(r, p) PROVE AtEntry'
  BY <1>9 DEF Announce
<1>10. ASSUME NEW r \in Requests, NEW p \in SUBSET Nodes, Count(r, p) PROVE AtEntry'
  BY <1>10 DEF Count
<1>11. ASSUME NEW r \in Requests, NEW p \in SUBSET Nodes, Drained(r, p) PROVE AtEntry'
  BY <1>11 DEF Drained
<1>12. ASSUME NEW c \in late, LateCommits(c) PROVE AtEntry'
  BY <1>12 DEF LateCommits
<1>13. ASSUME NEW n \in Nodes, Apply(n) PROVE AtEntry'
  BY <1>13 DEF Apply
<1>14. ASSUME NEW n \in Nodes, process_state_effects(n) PROVE AtEntry'
  BY <1>14 DEF process_state_effects, mark_stream_drain_clear
<1>15. ASSUME NEW n \in Nodes, retry_pending_drain_clears(n) PROVE AtEntry'
  BY <1>15 DEF retry_pending_drain_clears
<1>16. ASSUME NEW n \in Nodes, PruneLooks(n) PROVE AtEntry'
  BY <1>16 DEF PruneLooks
<1>17. ASSUME NEW n \in Nodes, PlayLookup(n) PROVE AtEntry'
  BY <1>17 DEF PlayLookup, Away
<1>18. ASSUME NEW n \in Nodes, PlayAcquires(n) PROVE AtEntry'
  BY <1>18 DEF PlayAcquires, Away
<1>19. ASSUME NEW n \in Nodes, PlayStarts(n) PROVE AtEntry'
  BY <1>19 DEF PlayStarts
<1>20. ASSUME NEW n \in Nodes, PlayEnds(n) PROVE AtEntry'
  BY <1>20 DEF PlayEnds, Away
<1>21. ASSUME NEW n \in Nodes, Kick(n) PROVE AtEntry'
  BY <1>21 DEF Kick, Away
<1>22. ASSUME NEW n \in Nodes, Restart(n) PROVE AtEntry'
  BY <1>22 DEF Restart, Dropped, On, Ended, Away
<1>24. ASSUME NEW r \in Requests, HangUp(r) PROVE AtEntry'
  BY <1>24 DEF HangUp, marks
<1>25. ASSUME NEW n \in Nodes, NEW by \in Takers, TakeMarker(n, by) PROVE AtEntry'
  BY <1>25 DEF TakeMarker, marks
<1>23. CASE UNCHANGED vars
  BY <1>23 DEF vars, marks
<1> QED
  BY <1>1, <1>2, <1>3, <1>4, <1>5, <1>6, <1>7, <1>8, <1>9, <1>10, <1>11, <1>12, <1>13, <1>14,
     <1>15, <1>16, <1>17, <1>18, <1>19, <1>20, <1>21, <1>22, <1>23, <1>24, <1>25 DEF Next, Write

\* A begin that may still commit is one that was asked for.
LEMMA LateStep == TypeOK /\ RequestsAsked /\ LateAsked /\ [Next]_vars => LateAsked'
<1> SUFFICES ASSUME TypeOK, RequestsAsked, LateAsked, [Next]_vars PROVE LateAsked'
  OBVIOUS
<1> USE DEF LateAsked
<1>1. ASSUME NEW r \in Requests, Write(r) PROVE LateAsked'
  <2>1. CASE WriteUnclear(r)
    <3>1. late' = late \cup {Command(req[r])} /\ req[r].at \in Writing /\ asked' = asked
      BY <2>1 DEF WriteUnclear
    <3>2. Command(req[r]).op = "begin" => Command(req[r]).token \in asked
      BY <3>1, CommandTyped DEF RequestsAsked
    <3> QED
      BY <3>1, <3>2
  <2>2. CASE ~WriteUnclear(r)
    BY <1>1, <2>2 DEF Write, WriteAnswered, WriteUnsent
  <2> QED
    BY <2>1, <2>2
<1>2. ASSUME NEW r \in Requests, MarkDelete(r) PROVE LateAsked'
  BY <1>2 DEF MarkDelete, SetMarker
<1>3. ASSUME NEW r \in Requests, DrainTimesOut(r) PROVE LateAsked'
  BY <1>3 DEF DrainTimesOut, Away
<1>4. ASSUME NEW r \in Requests, Reconcile(r) PROVE LateAsked'
  BY <1>4 DEF Reconcile, SetMarker, marks
<1>5. ASSUME NEW r \in Requests, CheckDisabled(r) PROVE LateAsked'
  BY <1>5 DEF CheckDisabled, SetMarker, marks
<1>6. ASSUME NEW r \in Requests, NEW n \in Entry, CreateArrives(r, n) PROVE LateAsked'
  BY <1>6 DEF CreateArrives
<1>7. ASSUME NEW r \in Requests, NEW n \in Entry, DeleteArrives(r, n) PROVE LateAsked'
  BY <1>7 DEF DeleteArrives
<1>8. ASSUME NEW r \in Requests, NEW n \in Entry, DeleteAnswered(r, n) PROVE LateAsked'
  BY <1>8 DEF DeleteAnswered, Ended
<1>9. ASSUME NEW r \in Requests, NEW p \in SUBSET Nodes, Announce(r, p) PROVE LateAsked'
  BY <1>9 DEF Announce
<1>10. ASSUME NEW r \in Requests, NEW p \in SUBSET Nodes, Count(r, p) PROVE LateAsked'
  BY <1>10 DEF Count
<1>11. ASSUME NEW r \in Requests, NEW p \in SUBSET Nodes, Drained(r, p) PROVE LateAsked'
  BY <1>11 DEF Drained
<1>12. ASSUME NEW c \in late, LateCommits(c) PROVE LateAsked'
  BY <1>12 DEF LateCommits
<1>13. ASSUME NEW n \in Nodes, Apply(n) PROVE LateAsked'
  BY <1>13 DEF Apply
<1>14. ASSUME NEW n \in Nodes, process_state_effects(n) PROVE LateAsked'
  BY <1>14 DEF process_state_effects, mark_stream_drain_clear
<1>15. ASSUME NEW n \in Nodes, retry_pending_drain_clears(n) PROVE LateAsked'
  BY <1>15 DEF retry_pending_drain_clears
<1>16. ASSUME NEW n \in Nodes, PruneLooks(n) PROVE LateAsked'
  BY <1>16 DEF PruneLooks
<1>17. ASSUME NEW n \in Nodes, PlayLookup(n) PROVE LateAsked'
  BY <1>17 DEF PlayLookup, Away
<1>18. ASSUME NEW n \in Nodes, PlayAcquires(n) PROVE LateAsked'
  BY <1>18 DEF PlayAcquires, Away
<1>19. ASSUME NEW n \in Nodes, PlayStarts(n) PROVE LateAsked'
  BY <1>19 DEF PlayStarts
<1>20. ASSUME NEW n \in Nodes, PlayEnds(n) PROVE LateAsked'
  BY <1>20 DEF PlayEnds, Away
<1>21. ASSUME NEW n \in Nodes, Kick(n) PROVE LateAsked'
  BY <1>21 DEF Kick, Away
<1>22. ASSUME NEW n \in Nodes, Restart(n) PROVE LateAsked'
  BY <1>22 DEF Restart, Dropped, On, Ended, Away
<1>24. ASSUME NEW r \in Requests, HangUp(r) PROVE LateAsked'
  BY <1>24 DEF HangUp, marks
<1>25. ASSUME NEW n \in Nodes, NEW by \in Takers, TakeMarker(n, by) PROVE LateAsked'
  BY <1>25 DEF TakeMarker, marks
<1>23. CASE UNCHANGED vars
  BY <1>23 DEF vars, marks
<1> QED
  BY <1>1, <1>2, <1>3, <1>4, <1>5, <1>6, <1>7, <1>8, <1>9, <1>10, <1>11, <1>12, <1>13, <1>14,
     <1>15, <1>16, <1>17, <1>18, <1>19, <1>20, <1>21, <1>22, <1>23, <1>24, <1>25 DEF Next, Write

\* Every pending row of the log was asked for.
LEMMA OnlyAskedStep == TypeOK /\ RequestsAsked /\ LateAsked /\ OnlyAsked /\ [Next]_vars => OnlyAsked'
<1> SUFFICES ASSUME TypeOK, RequestsAsked, LateAsked, OnlyAsked, [Next]_vars PROVE OnlyAsked'
  OBVIOUS
<1> USE DEF OnlyAsked
<1>1. ASSUME NEW r \in Requests, Write(r) PROVE OnlyAsked'
  <2>1. CASE WriteAnswered(r)
    <3>1. Commit(Command(req[r])) /\ req[r].at \in Writing /\ asked' = asked
      BY <2>1 DEF WriteAnswered
    <3>2. Command(req[r]) \in Commands
          /\ (Command(req[r]).op = "begin" => Command(req[r]).token \in asked)
      BY <3>1, CommandTyped DEF RequestsAsked
    <3> QED
      BY <3>1, <3>2, CommitKeeps
  <2>2. CASE ~WriteAnswered(r)
    BY <1>1, <2>2 DEF Write, WriteUnclear, WriteUnsent
  <2> QED
    BY <2>1, <2>2
<1>2. ASSUME NEW r \in Requests, MarkDelete(r) PROVE OnlyAsked'
  BY <1>2 DEF MarkDelete, SetMarker
<1>3. ASSUME NEW r \in Requests, DrainTimesOut(r) PROVE OnlyAsked'
  BY <1>3 DEF DrainTimesOut, Away
<1>4. ASSUME NEW r \in Requests, Reconcile(r) PROVE OnlyAsked'
  BY <1>4 DEF Reconcile, SetMarker, marks
<1>5. ASSUME NEW r \in Requests, CheckDisabled(r) PROVE OnlyAsked'
  BY <1>5 DEF CheckDisabled, SetMarker, marks
<1>6. ASSUME NEW r \in Requests, NEW n \in Entry, CreateArrives(r, n) PROVE OnlyAsked'
  BY <1>6 DEF CreateArrives
<1>7. ASSUME NEW r \in Requests, NEW n \in Entry, DeleteArrives(r, n) PROVE OnlyAsked'
  BY <1>7 DEF DeleteArrives
<1>8. ASSUME NEW r \in Requests, NEW n \in Entry, DeleteAnswered(r, n) PROVE OnlyAsked'
  BY <1>8 DEF DeleteAnswered, Ended
<1>9. ASSUME NEW r \in Requests, NEW p \in SUBSET Nodes, Announce(r, p) PROVE OnlyAsked'
  BY <1>9 DEF Announce
<1>10. ASSUME NEW r \in Requests, NEW p \in SUBSET Nodes, Count(r, p) PROVE OnlyAsked'
  BY <1>10 DEF Count
<1>11. ASSUME NEW r \in Requests, NEW p \in SUBSET Nodes, Drained(r, p) PROVE OnlyAsked'
  BY <1>11 DEF Drained
<1>12. ASSUME NEW c \in late, LateCommits(c) PROVE OnlyAsked'
  <2>1. Commit(c) /\ c \in Commands /\ asked' = asked /\ (c.op = "begin" => c.token \in asked)
    BY <1>12 DEF LateCommits, LateAsked, TypeOK
  <2> QED
    BY <2>1, CommitKeeps
<1>13. ASSUME NEW n \in Nodes, Apply(n) PROVE OnlyAsked'
  BY <1>13 DEF Apply
<1>14. ASSUME NEW n \in Nodes, process_state_effects(n) PROVE OnlyAsked'
  BY <1>14 DEF process_state_effects, mark_stream_drain_clear
<1>15. ASSUME NEW n \in Nodes, retry_pending_drain_clears(n) PROVE OnlyAsked'
  BY <1>15 DEF retry_pending_drain_clears
<1>16. ASSUME NEW n \in Nodes, PruneLooks(n) PROVE OnlyAsked'
  BY <1>16 DEF PruneLooks
<1>17. ASSUME NEW n \in Nodes, PlayLookup(n) PROVE OnlyAsked'
  BY <1>17 DEF PlayLookup, Away
<1>18. ASSUME NEW n \in Nodes, PlayAcquires(n) PROVE OnlyAsked'
  BY <1>18 DEF PlayAcquires, Away
<1>19. ASSUME NEW n \in Nodes, PlayStarts(n) PROVE OnlyAsked'
  BY <1>19 DEF PlayStarts
<1>20. ASSUME NEW n \in Nodes, PlayEnds(n) PROVE OnlyAsked'
  BY <1>20 DEF PlayEnds, Away
<1>21. ASSUME NEW n \in Nodes, Kick(n) PROVE OnlyAsked'
  BY <1>21 DEF Kick, Away
<1>22. ASSUME NEW n \in Nodes, Restart(n) PROVE OnlyAsked'
  BY <1>22 DEF Restart, Dropped, On, Ended, Away
<1>24. ASSUME NEW r \in Requests, HangUp(r) PROVE OnlyAsked'
  BY <1>24 DEF HangUp, marks
<1>25. ASSUME NEW n \in Nodes, NEW by \in Takers, TakeMarker(n, by) PROVE OnlyAsked'
  BY <1>25 DEF TakeMarker, marks
<1>23. CASE UNCHANGED vars
  BY <1>23 DEF vars, marks
<1> QED
  BY <1>1, <1>2, <1>3, <1>4, <1>5, <1>6, <1>7, <1>8, <1>9, <1>10, <1>11, <1>12, <1>13, <1>14,
     <1>15, <1>16, <1>17, <1>18, <1>19, <1>20, <1>21, <1>22, <1>23, <1>24, <1>25 DEF Next, Write

\* A request that keeps its marker or takes it away when it ends leaves every
\* other marker with its owner.
LEMMA OwnerKept ==
    ASSUME TypeOK, MarkerOwned, NEW r \in Requests,
           \A i \in Requests \ {r} : req'[i] = req[i],
           req'[r].node = req[r].node, req'[r].at \in Marked \cup {"ended"},
           req[r].at = "create" => sticky' = sticky,
           req[r].at # "create" /\ req'[r].at = "ended" => ~sticky'[req[r].node],
           \A n \in Nodes \ {req[r].node} : sticky'[n] = sticky[n]
    PROVE  MarkerOwned'
<1> SUFFICES ASSUME NEW n \in Nodes, sticky'[n]
             PROVE  \E i \in Requests : req'[i].at \in Marked /\ req'[i].node = n
  BY DEF MarkerOwned
<1>1. CASE sticky[n] /\ (n # req[r].node \/ req[r].at = "create")
  <2>1. PICK i \in Requests : req[i].at \in Marked /\ req[i].node = n
    BY <1>1 DEF MarkerOwned
  <2>2. i # r
    BY <1>1, <2>1 DEF Marked
  <2> QED
    BY <2>1, <2>2
<1>2. CASE n = req[r].node /\ req[r].at # "create"
  BY <1>2
<1> QED
  BY <1>1, <1>2

\* A marker keeps its owner: a DELETE that ends takes it away.
LEMMA OwnerStep == TypeOK /\ MarkerOwned /\ [Next]_vars => MarkerOwned'
<1> SUFFICES ASSUME TypeOK, MarkerOwned, [Next]_vars PROVE MarkerOwned'
  OBVIOUS
<1> USE DEF TypeOK, Handlers, Clients, MarkerOwned, Marked, Steps, Writing, Active, marks
<1>1. ASSUME NEW r \in Requests, Write(r) PROVE MarkerOwned'
  <2>1. PICK answer \in Answers : Settle(r, answer)
    BY <1>1, WriteKeeps
  <2>2. req[r].at \in Writing /\ UNCHANGED <<applied, handled, client, made, asked>>
    BY <1>1, WriteKeeps
  <2>3. /\ \A i \in Requests \ {r} : req'[i] = req[i]
        /\ req'[r].node = req[r].node /\ req'[r].at \in Marked \cup {"ended"}
        /\ req[r].at = "create" => sticky' = sticky
        /\ req[r].at # "create" /\ req'[r].at = "ended" => ~sticky'[req[r].node]
        /\ \A n \in Nodes \ {req[r].node} : sticky'[n] = sticky[n]
    BY <2>1, <2>2, SettleKeeps
  <2> QED
    BY <2>3, OwnerKept
<1>2. ASSUME NEW r \in Requests, MarkDelete(r) PROVE MarkerOwned'
  BY <1>2 DEF MarkDelete, SetMarker
<1>3. ASSUME NEW r \in Requests, DrainTimesOut(r) PROVE MarkerOwned'
  BY <1>3 DEF DrainTimesOut, Away
<1>4. ASSUME NEW r \in Requests, Reconcile(r) PROVE MarkerOwned'
  <2>1. /\ \A i \in Requests \ {r} : req'[i] = req[i]
        /\ req'[r].node = req[r].node /\ req'[r].at \in Marked \cup {"ended"}
        /\ req[r].at # "create"
    BY <1>4 DEF Reconcile
  <2>2. /\ req'[r].at = "ended" => ~sticky'[req[r].node]
        /\ \A n \in Nodes \ {req[r].node} : sticky'[n] = sticky[n]
    BY <1>4 DEF Reconcile, SetMarker
  <2>3. /\ req[r].at = "create" => sticky' = sticky
        /\ req[r].at # "create" /\ req'[r].at = "ended" => ~sticky'[req[r].node]
    BY <2>1, <2>2
  <2> HIDE DEF TypeOK, Handlers, Clients, MarkerOwned, Marked, Steps, Writing, Active, marks
  <2> QED
    BY <2>1, <2>2, <2>3, OwnerKept
<1>5. ASSUME NEW r \in Requests, CheckDisabled(r) PROVE MarkerOwned'
  <2>1. /\ \A i \in Requests \ {r} : req'[i] = req[i]
        /\ req'[r].node = req[r].node /\ req'[r].at \in Marked \cup {"ended"}
        /\ req[r].at # "create"
    BY <1>5 DEF CheckDisabled
  <2>2. /\ req'[r].at = "ended" => ~sticky'[req[r].node]
        /\ \A n \in Nodes \ {req[r].node} : sticky'[n] = sticky[n]
    BY <1>5 DEF CheckDisabled, SetMarker
  <2>3. /\ req[r].at = "create" => sticky' = sticky
        /\ req[r].at # "create" /\ req'[r].at = "ended" => ~sticky'[req[r].node]
    BY <2>1, <2>2
  <2> HIDE DEF TypeOK, Handlers, Clients, MarkerOwned, Marked, Steps, Writing, Active, marks
  <2> QED
    BY <2>1, <2>2, <2>3, OwnerKept
<1>6. ASSUME NEW r \in Requests, NEW n \in Entry, CreateArrives(r, n) PROVE MarkerOwned'
  BY <1>6 DEF CreateArrives
<1>7. ASSUME NEW r \in Requests, NEW n \in Entry, DeleteArrives(r, n) PROVE MarkerOwned'
  BY <1>7 DEF DeleteArrives
<1>8. ASSUME NEW r \in Requests, NEW n \in Entry, DeleteAnswered(r, n) PROVE MarkerOwned'
  BY <1>8 DEF DeleteAnswered, Ended
<1>9. ASSUME NEW r \in Requests, NEW p \in SUBSET Nodes, Announce(r, p) PROVE MarkerOwned'
  BY <1>9 DEF Announce
<1>10. ASSUME NEW r \in Requests, NEW p \in SUBSET Nodes, Count(r, p) PROVE MarkerOwned'
  BY <1>10 DEF Count
<1>11. ASSUME NEW r \in Requests, NEW p \in SUBSET Nodes, Drained(r, p) PROVE MarkerOwned'
  BY <1>11 DEF Drained
<1>12. ASSUME NEW c \in late, LateCommits(c) PROVE MarkerOwned'
  BY <1>12 DEF LateCommits
<1>13. ASSUME NEW n \in Nodes, Apply(n) PROVE MarkerOwned'
  BY <1>13 DEF Apply
<1>14. ASSUME NEW n \in Nodes, process_state_effects(n) PROVE MarkerOwned'
  BY <1>14 DEF process_state_effects, mark_stream_drain_clear
<1>15. ASSUME NEW n \in Nodes, retry_pending_drain_clears(n) PROVE MarkerOwned'
  BY <1>15 DEF retry_pending_drain_clears
<1>16. ASSUME NEW n \in Nodes, PruneLooks(n) PROVE MarkerOwned'
  BY <1>16 DEF PruneLooks
<1>17. ASSUME NEW n \in Nodes, PlayLookup(n) PROVE MarkerOwned'
  BY <1>17 DEF PlayLookup, Away
<1>18. ASSUME NEW n \in Nodes, PlayAcquires(n) PROVE MarkerOwned'
  BY <1>18 DEF PlayAcquires, Away
<1>19. ASSUME NEW n \in Nodes, PlayStarts(n) PROVE MarkerOwned'
  BY <1>19 DEF PlayStarts
<1>20. ASSUME NEW n \in Nodes, PlayEnds(n) PROVE MarkerOwned'
  BY <1>20 DEF PlayEnds, Away
<1>21. ASSUME NEW n \in Nodes, Kick(n) PROVE MarkerOwned'
  BY <1>21 DEF Kick, Away
<1>22. ASSUME NEW n \in Nodes, Restart(n) PROVE MarkerOwned'
  BY <1>22 DEF Restart, Dropped, On, Ended, Away
<1>24. ASSUME NEW r \in Requests, HangUp(r) PROVE MarkerOwned'
  BY <1>24 DEF HangUp, marks
<1>25. ASSUME NEW n \in Nodes, NEW by \in Takers, TakeMarker(n, by) PROVE MarkerOwned'
  BY <1>25 DEF TakeMarker, marks
<1>23. CASE UNCHANGED vars
  BY <1>23 DEF vars, marks
<1> QED
  BY <1>1, <1>2, <1>3, <1>4, <1>5, <1>6, <1>7, <1>8, <1>9, <1>10, <1>11, <1>12, <1>13, <1>14,
     <1>15, <1>16, <1>17, <1>18, <1>19, <1>20, <1>21, <1>22, <1>23, <1>24, <1>25 DEF Next, Write

\* A session that has seen its row go is live and will be kicked.
LEMMA SeenStep == TypeOK /\ AtEntry /\ SeenLive /\ [Next]_vars => SeenLive'
<1> SUFFICES ASSUME TypeOK, AtEntry, SeenLive, [Next]_vars PROVE SeenLive'
  OBVIOUS
<1> USE DEF TypeOK, Handlers, Clients, AtEntry, SeenLive, SeenMarked, Live, Away, Steps, Writing, marks
<1>1. ASSUME NEW r \in Requests, Write(r) PROVE SeenLive'
  <2>1. PICK answer \in Answers : Settle(r, answer)
    BY <1>1, WriteKeeps
  <2>2. req[r].at \in Writing /\ UNCHANGED <<applied, handled, client, made, asked>>
    BY <1>1, WriteKeeps
  <2>3. \A n \in Nodes \ {req[r].node} : deleted'[n] = deleted[n]
    BY <2>1, <2>2, SettleKeeps
  <2>4. req[r].node \in Entry
    BY <2>2
  <2> QED
    BY <2>2, <2>3, <2>4
<1>2. ASSUME NEW r \in Requests, MarkDelete(r) PROVE SeenLive'
  BY <1>2 DEF MarkDelete, SetMarker
<1>3. ASSUME NEW r \in Requests, DrainTimesOut(r) PROVE SeenLive'
  BY <1>3 DEF DrainTimesOut, Away
<1>4. ASSUME NEW r \in Requests, Reconcile(r) PROVE SeenLive'
  BY <1>4 DEF Reconcile, SetMarker, marks
<1>5. ASSUME NEW r \in Requests, CheckDisabled(r) PROVE SeenLive'
  BY <1>5 DEF CheckDisabled, SetMarker, marks
<1>6. ASSUME NEW r \in Requests, NEW n \in Entry, CreateArrives(r, n) PROVE SeenLive'
  BY <1>6 DEF CreateArrives
<1>7. ASSUME NEW r \in Requests, NEW n \in Entry, DeleteArrives(r, n) PROVE SeenLive'
  BY <1>7 DEF DeleteArrives
<1>8. ASSUME NEW r \in Requests, NEW n \in Entry, DeleteAnswered(r, n) PROVE SeenLive'
  BY <1>8 DEF DeleteAnswered, Ended
<1>9. ASSUME NEW r \in Requests, NEW p \in SUBSET Nodes, Announce(r, p) PROVE SeenLive'
  BY <1>9 DEF Announce
<1>10. ASSUME NEW r \in Requests, NEW p \in SUBSET Nodes, Count(r, p) PROVE SeenLive'
  BY <1>10 DEF Count
<1>11. ASSUME NEW r \in Requests, NEW p \in SUBSET Nodes, Drained(r, p) PROVE SeenLive'
  BY <1>11 DEF Drained
<1>12. ASSUME NEW c \in late, LateCommits(c) PROVE SeenLive'
  BY <1>12 DEF LateCommits
<1>13. ASSUME NEW n \in Nodes, Apply(n) PROVE SeenLive'
  BY <1>13 DEF Apply
<1>14. ASSUME NEW n \in Nodes, process_state_effects(n) PROVE SeenLive'
  <2> DEFINE k == handled'[n]
  <2>1. client' = [client EXCEPT ![n].row = RowSeen(n, k)]
    BY <1>14 DEF process_state_effects
  <2>2. \A i \in Nodes \ {n} : client'[i] = client[i] /\ deleted'[i] = deleted[i]
    BY <1>14, <2>1 DEF process_state_effects, mark_stream_drain_clear
  <2>3. client'[n].at = client[n].at /\ client'[n].row = RowSeen(n, k)
    BY <2>1
  <2>4. deleted[n] => deleted'[n]
    BY <1>14 DEF process_state_effects, mark_stream_drain_clear
  <2>9. client'[n].missed = client[n].missed
    BY <2>1
  <2>5. CASE RowSeen(n, k) = client[n].row
    <3>1. client'[n].row = client[n].row
      BY <2>3, <2>5
    <3>2. SeenMarked(n) => SeenMarked(n)'
      BY <2>4, <2>9
    <3> HIDE DEF SeenMarked
    <3>3. ASSUME NEW i \in Nodes \ {n} PROVE SeenMarked(i)' = SeenMarked(i)
      BY <2>2 DEF SeenMarked
    <3> QED
      BY <2>2, <2>3, <3>1, <3>2, <3>3
  <2>6. CASE client[n].at # "away" /\ log[k].effect = "drain"
    <3>1. deleted'[n]
      BY <1>14, <2>6 DEF process_state_effects
    <3> QED
      BY <2>2, <2>3, <2>6, <3>1
  <2>7. CASE client[n].at # "away" /\ client[n].row = "draining"
    BY <2>2, <2>3, <2>4, <2>7, <2>9
  <2>8. \/ RowSeen(n, k) = client[n].row
        \/ client[n].at # "away" /\ log[k].effect = "drain"
        \/ client[n].at # "away" /\ client[n].row = "draining"
    BY DEF RowSeen
  <2> QED
    BY <2>5, <2>6, <2>7, <2>8
<1>15. ASSUME NEW n \in Nodes, retry_pending_drain_clears(n) PROVE SeenLive'
  BY <1>15 DEF retry_pending_drain_clears
<1>16. ASSUME NEW n \in Nodes, PruneLooks(n) PROVE SeenLive'
  BY <1>16 DEF PruneLooks
<1>17. ASSUME NEW n \in Nodes, PlayLookup(n) PROVE SeenLive'
  BY <1>17 DEF PlayLookup, Away
<1>18. ASSUME NEW n \in Nodes, PlayAcquires(n) PROVE SeenLive'
  BY <1>18 DEF PlayAcquires, Away
<1>19. ASSUME NEW n \in Nodes, PlayStarts(n) PROVE SeenLive'
  BY <1>19 DEF PlayStarts
<1>20. ASSUME NEW n \in Nodes, PlayEnds(n) PROVE SeenLive'
  BY <1>20 DEF PlayEnds, Away
<1>21. ASSUME NEW n \in Nodes, Kick(n) PROVE SeenLive'
  BY <1>21 DEF Kick, Away
<1>22. ASSUME NEW n \in Nodes, Restart(n) PROVE SeenLive'
  BY <1>22 DEF Restart, Dropped, On, Ended, Away
<1>24. ASSUME NEW r \in Requests, HangUp(r) PROVE SeenLive'
  BY <1>24 DEF HangUp, marks
<1>25. ASSUME NEW n \in Nodes, NEW by \in Takers, TakeMarker(n, by) PROVE SeenLive'
  <2>1. \A i \in Nodes \ {n} : client'[i] = client[i] /\ deleted'[i] = deleted[i]
    BY <1>25 DEF TakeMarker
  <2>2. client'[n].at = client[n].at /\ client'[n].row = client[n].row
    BY <1>25 DEF TakeMarker
  <2>3. SeenMarked(n) /\ client[n].at # "away" => client'[n].missed
    BY <1>25 DEF TakeMarker
  <2> QED
    BY <2>1, <2>2, <2>3
<1>23. CASE UNCHANGED vars
  BY <1>23 DEF vars, marks
<1> QED
  BY <1>1, <1>2, <1>3, <1>4, <1>5, <1>6, <1>7, <1>8, <1>9, <1>10, <1>11, <1>12, <1>13, <1>14,
     <1>15, <1>16, <1>17, <1>18, <1>19, <1>20, <1>21, <1>22, <1>23, <1>24, <1>25 DEF Next, Write

-----------------------------------------------------------------------------
\* The invariant holds initially and every step keeps it.
THEOREM DeletesInvariant == Spec => []DeleteInv
<1>1. Init => DeleteInv
  <2> SUFFICES ASSUME Init PROVE DeleteInv
    OBVIOUS
  <2> USE DeletesAssumption DEF Init
  <2>1. log = <<[row |-> NewRow(1), effect |-> "none"]>> /\ NewRow(1) \in Rows /\ ~NewRow(1).pending
    BY DEF NewRow, Rows
  <2>2. log \in Seq(Entries) /\ Len(log) = 1 /\ log[1].row = NewRow(1)
    BY <2>1 DEF Entries
  <2>3. Idle \in Handlers /\ Idle.at = "idle"
    BY DEF Idle, Handlers, Steps
  <2>4. TypeOK
    BY <2>2, <2>3 DEF TypeOK, Away, Clients
  <2>5. RequestsAsked /\ AtEntry
    BY <2>3 DEF RequestsAsked, AtEntry, Marked
  <2>6. OnlyAsked
    BY <2>1, <2>2 DEF OnlyAsked
  <2> QED
    BY <2>4, <2>5, <2>6 DEF DeleteInv, LateAsked, MarkerOwned, SeenLive, Away
<1>2. DeleteInv /\ [Next]_vars => DeleteInv'
  BY TypeStep, AskedStep, LateStep, OnlyAskedStep, OwnerStep, EntryStep, SeenStep DEF DeleteInv
<1> QED
  BY <1>1, <1>2, PTL DEF Spec

\* Every variable of the delete model keeps its type, and no node applies more
\* than the log has (http.rs delete_stream, process_state_effects).
THEOREM DeletesTypes == Spec => []TypeOK
<1>1. DeleteInv => TypeOK
  BY DEF DeleteInv
<1> QED
  BY <1>1, DeletesInvariant, PTL

\* Only the row a DELETE was accepted for is marked and removed, also when the
\* writes are repeated or commit late and the id is in use again, and every path
\* of every request takes its marker away, unless its client hangs up while the
\* handler waits for the peers (http.rs handle_stream_delete,
\* wait_and_finalize_stream_delete, db.rs stream_disable_expecting).
THEOREM DeletesStayContained == Spec => []DeletesContained
<1>1. DeleteInv => OnlyAsked
  BY DEF DeleteInv
<1>2. DeleteInv => MarkerHasOwner
  BY DEF DeleteInv, MarkerOwned, MarkerHasOwner, Active, Dropped, On, Marked
<1>3. DeleteInv => DeletesContained
  BY <1>1, <1>2 DEF DeletesContained
<1> QED
  BY <1>3, DeletesInvariant, PTL

\* On a node that takes no requests a play that has lost its row has the drain
\* marker, in whatever order the effects are processed and the play is admitted,
\* unless a look that did not see it took the marker away (manager.rs
\* process_state_effects, mark_stream_drain_clear, server.rs
\* prune_markers_if_due).
THEOREM DeletesFollowerKicks == Spec => []FollowerKicks
<1>1. DeleteInv => FollowerKicks
  BY DEF DeleteInv, SeenLive, SeenMarked, FollowerKicks, Live
<1> QED
  BY <1>1, DeletesInvariant, PTL
=============================================================================
