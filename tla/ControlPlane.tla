---------------------------- MODULE ControlPlane ----------------------------
(***************************************************************************)
(* Connections to a node's cluster ports and the round trips made over     *)
(* them (network.rs, the accept side of media/hub.rs and media/peer.rs).   *)
(*                                                                         *)
(* A control connection carries one request.  Until it is authenticated it *)
(* holds a pre-auth slot (of its address, or of the members' reserve),     *)
(* then one of the in-flight slots until its answer is written; a frame    *)
(* above the small-frame allowance also holds its bytes of a budget, one   *)
(* budget for snapshots and one for all else.  A media connection ends in  *)
(* a session instead of a request.                                         *)
(*                                                                         *)
(* The client of a forwarded write reports how it failed: undispatched     *)
(* (nothing was sent) or dispatched (the leader may still commit it).      *)
(* The timeouts of both ends are steps that may happen at any time.        *)
(***************************************************************************)
EXTENDS Naturals, FiniteSets

CONSTANTS Conns,          \* connections, each used once
          Kind,           \* Conns -> Kinds, what the connection is for
          Source,         \* Conns -> address
          Members,        \* addresses of configured members
          MaxPreauth,     \* Planes -> shared pre-auth slots
          MaxPerIp, MaxMember, MaxInflight,
          MaxBytes,       \* budget of frame bytes, per class
          Size            \* Conns -> bytes charged for its request

Kinds == {"write", "raft", "snapshot", "member", "media"}
Addresses == {Source[c] : c \in Conns}
Plane(c) == IF Kind[c] = "media" THEN "media" ELSE "control"
Planes == {"control", "media"}
Class(c) == IF Kind[c] = "snapshot" THEN "snapshot" ELSE "control"
Classes == {"snapshot", "control"}

\* Only the control listener keeps a reserve for members.
Reserved(c) == Plane(c) = "control" /\ Source[c] \in Members

VARIABLES server,    \* Conns -> stage of the accepted connection
          client,    \* Conns -> stage of the caller
          answer,    \* Conns -> what the caller was told
          wire,      \* Conns -> whether the request was put on the wire
          effect,    \* Conns -> whether the request took effect
          preauth,   \* Planes -> shared pre-auth slots in use
          reserve,   \* member slots in use
          perIp,     \* Planes -> addresses -> half-open connections
          inflight,  \* Planes -> authenticated connections
          bytes      \* Classes -> bytes of frames being read or handled

planeVars == <<server, client, answer, wire, effect, preauth, reserve, perIp,
               inflight, bytes>>
slots == <<preauth, reserve, perIp>>

Init ==
  /\ server = [c \in Conns |-> "none"]
  /\ client = [c \in Conns |-> "idle"]
  /\ answer = [c \in Conns |-> "none"]
  /\ wire = [c \in Conns |-> FALSE]
  /\ effect = [c \in Conns |-> FALSE]
  /\ preauth = [p \in Planes |-> 0]
  /\ reserve = 0
  /\ perIp = [p \in Planes |-> [a \in Addresses |-> 0]]
  /\ inflight = [p \in Planes |-> 0]
  /\ bytes = [k \in Classes |-> 0]

Serve(c, from, to) == server[c] = from /\ server' = [server EXCEPT ![c] = to]
Call(c, from, to) == client[c] = from /\ client' = [client EXCEPT ![c] = to]

\* PreauthBudget::try_acquire and the two media slots.
HasSlot(c) ==
  IF Reserved(c) THEN reserve < MaxMember
  ELSE preauth[Plane(c)] < MaxPreauth[Plane(c)] /\ perIp[Plane(c)][Source[c]] < MaxPerIp

TakeSlot(c) ==
  IF Reserved(c) THEN reserve' = reserve + 1 /\ UNCHANGED <<preauth, perIp>>
  ELSE /\ preauth' = [preauth EXCEPT ![Plane(c)] = @ + 1]
       /\ perIp' = [perIp EXCEPT ![Plane(c)][Source[c]] = @ + 1]
       /\ UNCHANGED reserve

FreeSlot(c) ==
  IF Reserved(c) THEN reserve' = reserve - 1 /\ UNCHANGED <<preauth, perIp>>
  ELSE /\ preauth' = [preauth EXCEPT ![Plane(c)] = @ - 1]
       /\ perIp' = [perIp EXCEPT ![Plane(c)][Source[c]] = @ - 1]
       /\ UNCHANGED reserve

Connect(c) ==
  /\ Call(c, "idle", "connecting")
  /\ UNCHANGED <<server, answer, effect, slots, inflight, bytes, wire>>

\* The accept loop takes a slot before it spawns the handshake.
Accept(c) ==
  /\ client[c] = "connecting"
  /\ Serve(c, "none", "handshake")
  /\ HasSlot(c) /\ TakeSlot(c)
  /\ UNCHANGED <<client, answer, effect, inflight, bytes, wire>>

Reject(c) ==
  /\ client[c] = "connecting"
  /\ Serve(c, "none", "refused")
  /\ ~HasSlot(c)
  /\ UNCHANGED <<client, answer, effect, slots, inflight, bytes, wire>>

\* server_auth_handshake (and, for media, the hello) succeeds; the slot is
\* given back before the in-flight slot is taken.
Authenticate(c) ==
  /\ Serve(c, "handshake", "authed")
  /\ FreeSlot(c)
  /\ UNCHANGED <<client, answer, effect, inflight, bytes, wire>>

\* client_auth_handshake: AuthOk arrives.
Welcome(c) ==
  /\ server[c] \notin {"none", "handshake", "refused"}
  /\ Call(c, "connecting", "authed")
  /\ UNCHANGED <<server, answer, effect, slots, inflight, bytes, wire>>

\* Rate limit, wrong secret, wrong certificate, hang-up or timeout.
HandshakeFails(c) ==
  /\ Serve(c, "handshake", "refused")
  /\ FreeSlot(c)
  /\ UNCHANGED <<client, answer, effect, inflight, bytes, wire>>

Enter(c) ==
  /\ inflight' = [inflight EXCEPT ![Plane(c)] = @ + 1]
  /\ Serve(c, "authed", IF inflight[Plane(c)] >= MaxInflight THEN "over" ELSE "reading")
  /\ UNCHANGED <<client, answer, effect, slots, bytes, wire>>

\* Mutant: the guard of a refused connection is dropped as well.
leave_twice(c) ==
  inflight' = [inflight EXCEPT ![Plane(c)] = IF server[c] = "over" /\ @ > 1
                                             THEN @ - 2 ELSE @ - 1]

Leave(c) == inflight' = [inflight EXCEPT ![Plane(c)] = @ - 1]

\* Above the limit: the increment is taken back.
Overflow(c) ==
  /\ Serve(c, "over", "closed")
  /\ Leave(c)
  /\ UNCHANGED <<client, answer, effect, slots, bytes, wire>>

\* write_frame of the request.  A frame that fails half-way may have arrived.
Send(c) ==
  /\ Call(c, "authed", "sent")
  /\ wire' = [wire EXCEPT ![c] = TRUE]
  /\ UNCHANGED <<server, answer, effect, slots, inflight, bytes>>

\* read_budgeted_frame: the length and the tag have arrived, the bytes are
\* reserved before the body is read.
Reserve(c) ==
  /\ wire[c] /\ Kind[c] # "media"
  /\ bytes[Class(c)] + Size[c] <= MaxBytes
  /\ Serve(c, "reading", "handling")
  /\ bytes' = [bytes EXCEPT ![Class(c)] = @ + Size[c]]
  /\ UNCHANGED <<client, answer, effect, slots, inflight, wire>>

\* No budget, a frame too large, an unreadable frame, or the read timeout.
ReadFails(c) ==
  /\ Kind[c] # "media"
  /\ Serve(c, "reading", "closed")
  /\ Leave(c)
  /\ UNCHANGED <<client, answer, effect, slots, bytes, wire>>

MediaSession(c) ==
  /\ Kind[c] = "media"
  /\ Serve(c, "reading", "closed")
  /\ Leave(c)
  /\ UNCHANGED <<client, answer, effect, slots, bytes, wire>>

\* handle_authenticated_control_conn: the request passes its gate and acts,
\* or is refused, or (a write) is forwarded, or fails or times out and may act later.
Act(c) ==
  /\ Serve(c, "handling", "answering")
  /\ effect' = [effect EXCEPT ![c] = TRUE]
  /\ UNCHANGED <<client, answer, slots, inflight, bytes, wire>>

Forward(c) ==
  /\ Kind[c] = "write"
  /\ Serve(c, "handling", "forwarded")
  /\ UNCHANGED <<client, answer, effect, slots, inflight, bytes, wire>>

WriteUnsure(c) ==
  /\ Kind[c] = "write" /\ server[c] \in {"handling", "forwarded"}
  /\ server' = [server EXCEPT ![c] = "unsure"]
  /\ UNCHANGED <<client, answer, effect, slots, inflight, bytes, wire>>

LateEffect(c) ==
  /\ server[c] \in {"forwarded", "unsure", "gone"} /\ Kind[c] = "write"
  /\ effect' = [effect EXCEPT ![c] = TRUE]
  /\ server' = [server EXCEPT ![c] = IF @ = "forwarded" THEN "answering" ELSE @]
  /\ UNCHANGED <<client, answer, slots, inflight, bytes, wire>>

\* The answer is written, or the caller is gone: bytes and slot are freed.
\* An answer that says "timed out" leaves a write that may still commit.
Finish(c, to) ==
  /\ server' = [server EXCEPT ![c] = to]
  /\ bytes' = [bytes EXCEPT ![Class(c)] = @ - Size[c]]
  /\ Leave(c)

Answer(c) ==
  /\ server[c] \in {"answering", "unsure"}
  /\ Finish(c, IF server[c] = "unsure" THEN "gone" ELSE "closed")
  /\ \/ /\ client[c] = "sent"
        /\ client' = [client EXCEPT ![c] = "done"]
        /\ answer' = [answer EXCEPT ![c] = IF server[c] = "unsure" THEN "dispatched"
                                                                   ELSE "ok"]
     \/ UNCHANGED <<client, answer>>
  /\ UNCHANGED <<effect, slots, wire>>

\* No member, no valid proof (Raft traffic needs neither), or an unreadable
\* request: closed unanswered.
Deny(c) ==
  /\ server[c] = "handling"
  /\ Finish(c, "closed")
  /\ UNCHANGED <<client, answer, effect, slots, wire>>

\* send_client_write_outcome: connect and authentication failures leave the
\* command unsent, everything after the first byte leaves it open.
Reported(c) == IF client[c] = "sent" THEN "dispatched" ELSE "undispatched"

GiveUp(c) ==
  /\ client[c] \in {"connecting", "authed", "sent"}
  /\ answer' = [answer EXCEPT ![c] = Reported(c)]
  /\ client' = [client EXCEPT ![c] = "done"]
  /\ UNCHANGED <<server, effect, slots, inflight, bytes, wire>>

Step(c) ==
  \/ Connect(c) \/ Accept(c) \/ Reject(c) \/ Authenticate(c) \/ HandshakeFails(c)
  \/ Welcome(c)
  \/ Enter(c) \/ Overflow(c) \/ Send(c) \/ Reserve(c) \/ ReadFails(c)
  \/ MediaSession(c) \/ Act(c) \/ Forward(c) \/ WriteUnsure(c) \/ LateEffect(c)
  \/ Answer(c) \/ Deny(c) \/ GiveUp(c)

Next == \E c \in Conns : Step(c)

\* The bytes that a set of connections has reserved, one pair for each byte.
BytesOf(cs) == Cardinality(UNION {{c} \X (1 .. Size[c]) : c \in cs})
Held(stages, p) == Cardinality({c \in Conns : server[c] \in stages /\ Plane(c) = p})
Working == {"handling", "forwarded", "unsure", "answering"}

(* Every slot and every reserved byte is held by a connection that is      *)
(* still there, on every way a connection can end: a leaked slot would     *)
(* close the port for good (PreauthGuard, InflightGuard,                   *)
(* InflightByteBudgetGuard in network.rs and security.rs).                 *)
SlotsExact ==
  /\ reserve = Cardinality({c \in Conns : server[c] = "handshake" /\ Reserved(c)})
  /\ \A p \in Planes :
       /\ inflight[p] = Held({"over", "reading"} \cup Working, p)
       /\ Held({"reading"} \cup Working, p) <= MaxInflight
       /\ preauth[p] = Cardinality({c \in Conns : server[c] = "handshake"
                                     /\ Plane(c) = p /\ ~Reserved(c)})
       /\ \A a \in Addresses :
            perIp[p][a] = Cardinality({c \in Conns : server[c] = "handshake"
                             /\ Plane(c) = p /\ ~Reserved(c) /\ Source[c] = a})
  /\ \A k \in Classes :
       /\ bytes[k] <= MaxBytes
       /\ bytes[k] = BytesOf({c \in Conns : Class(c) = k /\ server[c] \in Working})

(* A caller that was told "undispatched" may repeat its write: it never    *)
(* takes effect, neither before the answer nor after it.  A caller that    *)
(* was told "ok" has its effect (network.rs send_client_write_outcome).    *)
AnswersTrue ==
  \A c \in Conns :
    /\ answer[c] = "undispatched" => ~effect[c]
    /\ answer[c] = "ok" => effect[c]
==============================================================================
